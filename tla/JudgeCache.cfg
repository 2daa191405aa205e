\* Two runs share a cache; an append may be cut short.
SPECIFICATION Spec
CONSTANTS
  r1 = r1
  r2 = r2
  i1 = i1
  i2 = i2
  i3 = i3
  c1 = c1
  c2 = c2
  d1 = d1
  Runs = {r1, r2}
  Items = {i1, i2, i3}
  Sample <- SampleDef
  Claims <- ClaimsDef
  Citations <- CitationsDef
  Replies <- RepliesDef
  Heuristic <- HeuristicDef
  PerCitation = 2
  Context = Context
  Bad = Bad
  MaxFaults = 1
INVARIANT TypeOK
INVARIANT VerdictsWereSaid
INVARIANT CachedReproduces
INVARIANT FileHoldsLastPut
CHECK_DEADLOCK FALSE
