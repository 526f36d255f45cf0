SPECIFICATION Spec
CONSTANTS
  a = a
  b = b
  w1 = w1
  w2 = w2
  None = None
  Keys = {a, b}
  Workers = {w1, w2}
  Mortal = {}
  PoolSize = 2
  JobList <- TwoIndexers
SYMMETRY Symmetry
CHECK_DEADLOCK FALSE
INVARIANTS
  FinishedJobHasAllResults
