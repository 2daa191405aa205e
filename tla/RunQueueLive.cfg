\* One client, two workers, one of them started with --once, two seconds, one fault.
SPECIFICATION FairSpec
CONSTANTS
  c1 = c1
  w1 = w1
  w2 = w2
  h1 = h1
  Clients = {c1}
  Workers = {w1, w2}
  Drainers = {w2}
  Readers = {}
  Hashes = {h1}
  MaxRuns = 2
  MaxClock = 1
  FaultKinds = {"crash", "busy"}
  MaxFaults = 1
  NoProc = NoProc
  NoHash = NoHash
INVARIANT TypeOK
INVARIANT OwnedExecution
INVARIANT EvidenceMatchesStatus
PROPERTY ClaimsInOrder
PROPERTY LifecycleSpec
PROPERTY QueueDrains
PROPERTY ClaimedRunsEnd
PROPERTY SubmitReturns
CHECK_DEADLOCK FALSE
