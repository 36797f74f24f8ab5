CONSTANTS
  k1 = k1  k2 = k2  k3 = k3
  s0 = s0  s1 = s1  s2 = s2  s3 = s3
  NoState = NoState
  Keys = {k1, k2, k3}
  States <- MCStates
  InitState = s0
  Eval <- MCEval
  Valid <- S3Rejected
  Work <- MCWork
  Limit = 0
  Mode = "barrier"
  Width = 2
  MaxRounds = 2
  MaxExternal = 1
  Faults = {"callback", "malformed", "raises", "snapshot"}
SPECIFICATION Spec
INVARIANTS
  
  NoOpenTransactionLeaks
  ReceiptMatchesRun
