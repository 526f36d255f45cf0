SPECIFICATION FairSpec
CONSTANTS
  Tasks = {t1, t2, t3, t4}
  Lines = {l1}
  TooLong = {t4}
  LongAnswer = {t3}
  MayFail = {t3}
  MayTear = TRUE
  MayEnd = TRUE
  Me = Me
INVARIANTS
  OneSocket
PROPERTIES
  ImplementsWorkers
  Joins
  AnsweredUnlessLost
CHECK_DEADLOCK FALSE
