CONSTANTS
  w1 = w1
  w2 = w2
  Main = Main
  Fds <- LiveFds
  Workers <- MCWorkers
  UseTimers = TRUE
  MAX_FD = 2
  MaxConns = 2
  MaxMsgs = 2
  MaxChunks = 2
SPECIFICATION FairSpec
CONSTRAINT NotOverrun
CHECK_DEADLOCK FALSE
PROPERTIES RequestRead ResponseSent PendingAccepted
