SPECIFICATION FairSpec
CONSTANTS
  a = a
  b = b
  w1 = w1
  w2 = w2
  None = None
  Keys = {a, b}
  Workers = {w1, w2}
  Mortal = {w2}
  PoolSize = 2
  JobList <- AllKinds
CHECK_DEADLOCK FALSE
PROPERTIES
  AllJobsFinish
