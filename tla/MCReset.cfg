SPECIFICATION FairSpec
CONSTANTS
  c1 = c1
  c2 = c2
  p = p
  None = None
  Conns = {c1, c2}
  Policy = {}
  MayReset = {c1}
CHECK_DEADLOCK FALSE
PROPERTIES
  AcceptComesBack
