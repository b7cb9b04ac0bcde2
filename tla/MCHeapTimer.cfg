CONSTANTS
  f1 = f1
  f2 = f2
  f3 = f3
  f4 = f4
  f5 = f5
  f6 = f6
  Ids <- SixIds
  Timeout = 3
  Milli = 2
  SizeMax = 32
  MaxTime = 4
SPECIFICATION Spec
SYMMETRY IdSymmetry
CHECK_DEADLOCK FALSE
INVARIANTS TypeOK RefInverse HeapOrdered
PROPERTIES NextTickInTime ImplementsTimerSet
