\* Two processes and two specs share a directory, one may die.
SPECIFICATION Spec
CONSTANTS
  p1 = p1
  p2 = p2
  a = a
  b = b
  Procs = {p1, p2}
  Specs = {a, b}
  Count <- Counts
  MaxDeaths = 1
  Missing = Missing
  Torn = Torn
  Hole = Hole
  Writing = Writing
  Overlap = Overlap
SYMMETRY Symmetry
INVARIANT TypeOK
INVARIANT ServesOwnIndex
PROPERTY SettledIndexServes
