SPECIFICATION FairSpec
CONSTANTS
  Tasks = {t1, t2}
  Lines = {l1}
  TooLong = {}
  LongAnswer = {}
  MayFail = {}
  MayTear = TRUE
  MayEnd = FALSE
  Me = Me
PROPERTY TaskAnswered
CHECK_DEADLOCK FALSE
