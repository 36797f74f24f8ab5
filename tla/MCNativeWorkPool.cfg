\* A wakeup of wait_until_idle may be lost, so two callers may really stop.
CONSTANTS
  c1 = c1
  c2 = c2
  Callers = {c1, c2}
  Workers = {w1, w2}
  Count <- CountShared
  Nested <- NestedShared
  Raising <- RaisingShared
  Calls = 1
  Drains = {"start", "idle", "consume"}
  MaxPending = 2
  MaxReceipts = 2
  MayStop = TRUE
SPECIFICATION FairSpec
INVARIANTS
  EachIndexOnce
  NoneLeftBehind
  
  StopDrains
  LoneCallerDrains
PROPERTIES
  EveryCallReturns
CHECK_DEADLOCK FALSE
