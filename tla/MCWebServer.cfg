CONSTANTS
  w1 = w1
  w2 = w2
  Main = Main
  Fds <- MCFds
  Workers <- MCWorkers
  UseTimers = TRUE
  MAX_FD = 2
  MaxConns = 3
  MaxMsgs = 2
  MaxChunks = 2
SPECIFICATION Spec
CONSTRAINT OverrunBound
SYMMETRY WorkerSymmetry
CHECK_DEADLOCK FALSE
INVARIANTS TypeOK OneOwner NeverStranded NoStaleWork CountExact TimerNodePresent
