CONSTANTS
  k1 = k1  k2 = k2  k3 = k3
  s0 = s0  s1 = s1  s2 = s2  s3 = s3
  NoState = NoState
  Keys = {k1, k2, k3}
  States <- MCStates
  InitState = s0
  Eval <- MCEval
  Valid <- S3Rejected
  Work <- MCWork
  Limit = 5
  Mode = "serial"
  Width = 2
  MaxRounds = 1
  MaxExternal = 0
  Faults = {"leaky", "snapshot"}
SPECIFICATION Spec
INVARIANTS
  UnknowableIsInterrupted
