CONSTANTS
  Clients = {a, b}
  MaxJoins = 3
  MaxFaults = 1
SPECIFICATION Spec
SYMMETRY Sym
INVARIANTS TypeOK RosterAgrees
PROPERTIES CrashesExplained
CHECK_DEADLOCK FALSE
