\* A client waits for a run whose worker crashes.
SPECIFICATION FairSpec
CONSTANTS
  c1 = c1
  w1 = w1
  h1 = h1
  Clients = {c1}
  Workers = {w1}
  Drainers = {}
  Readers = {}
  Hashes = {h1}
  MaxRuns = 1
  MaxClock = 0
  FaultKinds = {"crash"}
  MaxFaults = 1
  NoProc = NoProc
  NoHash = NoHash
PROPERTY SubmitCompletes
CHECK_DEADLOCK FALSE
