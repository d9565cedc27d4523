CONSTANTS
  Cams = {o, p}
  Origin = o
  Zooms = {1, 2}
  Windows = {w1, w2}
  MaxVertices = 8
  None = None
SPECIFICATION Spec
INVARIANTS TypeOK DrawnAsQueued LiveOnly
CHECK_DEADLOCK FALSE
