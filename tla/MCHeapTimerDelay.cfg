CONSTANTS
  f1 = f1
  f2 = f2
  f3 = f3
  f4 = f4
  f5 = f5
  f6 = f6
  Ids <- TwoIds
  Timeout = 4
  Milli = 2
  SizeMax = 32
  MaxTime = 9
SPECIFICATION Spec
CHECK_DEADLOCK FALSE
PROPERTY TimeoutNotNegative
