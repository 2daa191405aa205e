\* Two processes use two specs of one name.
SPECIFICATION Spec
CONSTANTS
  p1 = p1
  p2 = p2
  a = a
  b = b
  Procs = {p1, p2}
  Specs = {a, b}
  Count <- Counts
  MaxDeaths = 0
  Missing = Missing
  Torn = Torn
  Hole = Hole
  Writing = Writing
  Overlap = Overlap
SYMMETRY Symmetry
INVARIANT GetsOwnIndex
