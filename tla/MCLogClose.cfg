CONSTANTS
  w1 = w1
  w2 = w2
  Writers <- MCWriters
  LogThread = LogThread
  Owner = Owner
  Nobody = Nobody
  NoLine = NoLine
  Capacity = 2
  MaxLines = 1
SPECIFICATION FairSpec
CHECK_DEADLOCK FALSE
PROPERTY LogCloses
