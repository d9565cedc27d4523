CONSTANTS
  Clients = {c1}
  Timeout = 2
  Routine = 3
  MaxEvents = 5
  MaxTime = 10
SPECIFICATION Spec
INVARIANTS TypeOK UndefinedExplained SilentClientsGo
PROPERTIES ClosedForSilence SignalStops
CHECK_DEADLOCK FALSE
