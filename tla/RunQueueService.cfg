\* Two clients and a worker over one spec, and a reader, no faults.
SPECIFICATION Spec
CONSTANTS
  c1 = c1
  c2 = c2
  w1 = w1
  h1 = h1
  x1 = x1
  Clients = {c1, c2}
  Workers = {w1}
  Drainers = {}
  Readers = {x1}
  Hashes = {h1}
  MaxRuns = 2
  MaxClock = 0
  FaultKinds = {}
  MaxFaults = 0
  NoProc = NoProc
  NoHash = NoHash
SYMMETRY Symmetry
INVARIANT OnlyRacesDuplicate
INVARIANT ResponseCoherent
CHECK_DEADLOCK FALSE
