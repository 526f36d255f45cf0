SPECIFICATION FairSpec
CONSTANTS
  c1 = c1
  c2 = c2
  p = p
  None = None
  Conns = {c1, c2, p}
  Policy = {p}
  MayReset = {c2, p}
CHECK_DEADLOCK FALSE
INVARIANTS
  RemovedIsNotListed
  ListedUntilOneLeaves
  StopClosesListed
PROPERTIES
  NoConnectionHoldsAccept
