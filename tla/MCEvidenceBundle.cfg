\* Every runner and reviewer ends; nothing restarts them but the environment.
CHECK_DEADLOCK FALSE
SPECIFICATION Spec
CONSTANTS
  Runners = {r1, r2}
  Configs <- MCConfigs
  Plans <- MCPlans
  Builds = {"clean", "dirty"}
  Dirty = {"dirty"}
  NoRunner = NoRunner
SYMMETRY Symmetric
INVARIANTS AcceptedIsWhole SealedIsAccepted ReviewHolds
