CONSTANTS
  w1 = w1  w2 = w2
  Evaluators = {w1, w2}
  Capacity = 2
  Cases <- MCCases
  ScreeningBatch = 2
  MaxBlock = 2
SYMMETRY Symmetric
SPECIFICATION Spec
INVARIANTS
  AdmissionIsPrefix
  NeverRaises
  ExactIsExact
  BoundariesSuffice
  ReadsTheFile
  CachesBounded
PROPERTIES
  CommitsTheBest
