CONSTANTS
  Clients = {a}
  MaxJoins = 2
  MaxFaults = 2
SPECIFICATION Spec
PROPERTIES SessionRecovered
CHECK_DEADLOCK FALSE
