CONSTANTS
  Capacity = 4
  MaxClicks = 3
  MaxSends = 5
SPECIFICATION Spec
INVARIANTS TypeOK LeftStateCleaned SocketsKept UndefinedExplained
CHECK_DEADLOCK FALSE
