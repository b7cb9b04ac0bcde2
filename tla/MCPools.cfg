CONSTANTS
  w1 = w1
  w2 = w2
  w3 = w3
  c1 = c1
  c2 = c2
  k1 = k1
  k2 = k2
  k3 = k3
  n1 = n1
  n2 = n2
  Workers <- MCWorkers
  Callers <- MCCallers
  Owner = c1
  Tasks <- MCTasks
  Nobody = Nobody
  NoTask = NoTask
  MaxSpurious = 1
  Conns <- MCConns
  NoConn = NoConn
  MaxCalls = 5
SPECIFICATION FairPoolsSpec
CHECK_DEADLOCK FALSE
INVARIANTS TypeOK WorkConserving SemMatches ConnsKept
PROPERTIES ImplementsTaskQueue TasksRun WorkersExit CallReturns
