SPECIFICATION FairSpec
CONSTANTS
  Clients = {1, 2, 3}
  Slow = {2}
  Rounds = 1
  None = None
INVARIANTS
  SentOnce
  UndisturbedReachesAll
  StopFindsNoneOpen
PROPERTY ServerStops
CHECK_DEADLOCK FALSE
