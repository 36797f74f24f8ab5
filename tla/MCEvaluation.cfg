CONSTANTS
  N = 5
  Modes = {"barrier", "ordered"}
  Workers = 3
  Window = 2
  Work <- MCWork
SPECIFICATION Spec
INVARIANTS
  ChargeIsDeterministic
  BoundaryAccounted
PROPERTIES
  ImplementsBatch
