SPECIFICATION FairSpec
CONSTANTS
  Jobs = {j1, j2}
  None = None
CHECK_DEADLOCK FALSE
INVARIANTS
  JobsInOrder
  ListingMissesAtMostOne
PROPERTIES
  RunsInTurn
  StopReturns
