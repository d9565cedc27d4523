CONSTANTS
  Size = 3
  Interval = 2
  Players = {p1, p2}
  Inputs = {0, 1}
  Spawns = {0}
  Lo = 0
  Hi = 0
  Lengths = {1}
  Kicks = {}
  Gunners = {p1}
  Mortals = {p2}
  MaxSeq = 5
  MaxSent = 2
SPECIFICATION Spec
INVARIANTS TypeOK WindowAligned FiledCovered InputOrder
PROPERTIES FiledInputTakenUp RewindEnds ImplementsLog
CHECK_DEADLOCK FALSE
