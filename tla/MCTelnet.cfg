CONSTANTS
  Clients = {m}
  MaxTyped = 2
SPECIFICATION Spec
CHECK_DEADLOCK FALSE
INVARIANT ServerStays
