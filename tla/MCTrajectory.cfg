CONSTANTS
  Size = 3
  Interval = 1
  Players = {p1, p2}
  Inputs = {0, 1}
  Spawns = {0}
  Lo = 0
  Hi = 1
  Lengths = {0, 1}
  Kicks = {}
  Gunners = {}
  Mortals = {}
  MaxSeq = 4
  MaxSent = 3
SPECIFICATION TSpec
SYMMETRY Same
INVARIANTS InputsReplayed
CHECK_DEADLOCK FALSE
