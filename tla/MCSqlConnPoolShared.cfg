CONSTANTS
  w1 = w1
  w2 = w2
  c1 = c1
  c2 = c2
  c3 = c3
  Workers <- MCWorkers
  Conns <- MCConns
  NoConn = NoConn
  MaxCalls = 5
SPECIFICATION Spec
CONSTRAINT AllConnected
CHECK_DEADLOCK FALSE
INVARIANT NoSharedConn
