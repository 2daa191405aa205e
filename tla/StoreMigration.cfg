\* Three processes open a store of two rows, with two faults.
SPECIFICATION Spec
CONSTANTS
  p1 = p1
  p2 = p2
  p3 = p3
  r1 = r1
  r2 = r2
  Openers = {p1, p2, p3}
  RowIds = {r1, r2}
  MaxFaults = 2
  NoOne = NoOne
SYMMETRY Symmetry
INVARIANT TypeOK
INVARIANT OpenIsCurrent
INVARIANT RefusedForCause
PROPERTY UpgradeSpec
