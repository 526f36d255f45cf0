SPECIFICATION Spec
CONSTANTS
  t1 = t1
  t2 = t2
  t3 = t3
  Threads = {t1, t2, t3}
  MAX_LOG = 3
  MaxMessages = 9
SYMMETRY Symmetry
INVARIANTS
  AtMostMax
  FewAreLost
CHECK_DEADLOCK FALSE
