CONSTANTS
  r1 = r1
  r2 = r2
  NoRunner = NoRunner
  Runners = {r1, r2}
  EntryCount = 2
  Weight <- MCWeight
  CoreBudgets = {1, 2}
SPECIFICATION FairSpec
INVARIANTS
  LaunchedOnce
  RecordsTruthful
PROPERTIES
  RunnersEnd
