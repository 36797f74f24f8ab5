CONSTANTS
  WorkerCount = 2
  RouteCounts = {3, 4, 5}
  MaxRounds = 2
SPECIFICATION Spec
INVARIANT DrainedAtBoundary
