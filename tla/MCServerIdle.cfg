CONSTANTS
  Clients = {c1}
  Timeout = 2
  Routine = 4
  MaxEvents = 5
  MaxTime = 7
SPECIFICATION Spec
PROPERTIES InactiveWhenClosed
CHECK_DEADLOCK FALSE
