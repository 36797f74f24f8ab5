\* Every process ends: the system stops.
CONSTANTS
  p1 = p1  p2 = p2
  r1 = r1
  NoTree = NoTree
  Foreign = Foreign
  Publishers = {p1, p2}
  Restorers = {r1}
  Paths = {1, 2}
  MaxWrites = 2
  FirstFiles = {1}
  MinDays = 2
  DefaultDays = {1, 2}
  MaxTime = 2
  LargeMarker = TRUE
SPECIFICATION Spec
SYMMETRY Interchangeable
INVARIANTS
  MarkerNeverOverwritten
CHECK_DEADLOCK FALSE
