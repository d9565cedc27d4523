CONSTANTS
  x = x
  y = y
  Names = {x, y}
  Cells = {1}
  h1 = h1
  h2 = h2
  Headers = {h1, h2}
  NoName = noname
SPECIFICATION Spec
SYMMETRY AnyHeader
INVARIANTS TypeOK FilesHoldSaves ListedOnce
CHECK_DEADLOCK FALSE
