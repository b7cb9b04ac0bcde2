SPECIFICATION FairSpec
CONSTANTS
  NUL = "nul"
  Scripts <- MCScripts
  PoliteScripts <- MCPoliteScripts
  LaterScripts <- MCLaterScripts
  Files <- MCFiles
  Flaky <- MCFlaky
  InitBuffSize = 4
  Stack = 3
  LowWater = 2
  MaxConns = 2
INVARIANTS TypeOK ReadInOrder ReceivedExact CloseIsLast
PROPERTIES ClosesWhenDone PoliteServed
CHECK_DEADLOCK FALSE
