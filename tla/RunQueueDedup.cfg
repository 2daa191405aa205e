\* Two clients submit one spec.
SPECIFICATION Spec
CONSTANTS
  c1 = c1
  c2 = c2
  h1 = h1
  Clients = {c1, c2}
  Workers = {}
  Drainers = {}
  Readers = {}
  Hashes = {h1}
  MaxRuns = 2
  MaxClock = 0
  FaultKinds = {}
  MaxFaults = 0
  NoProc = NoProc
  NoHash = NoHash
INVARIANT DuplicatesRefused
CHECK_DEADLOCK FALSE
