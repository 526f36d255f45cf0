SPECIFICATION Spec
CONSTANTS
  a = a
  b = b
  w1 = w1
  w2 = w2
  None = None
  Keys = {a, b}
  Workers = {w1, w2}
  Mortal = {w1, w2}
  PoolSize = 2
  JobList <- Searches
SYMMETRY Symmetry
CHECK_DEADLOCK FALSE
INVARIANTS
  ResultsSound
  SearchEndsWithResult
  NoWorkerForgotten
  NobodyWaitsForever
PROPERTIES
  KeepsContract
