CONSTANTS
  a = a
  b = b
  Players = {a, b}
  Newcomers = {b}
  Armed = {a}
  Column <- Columns
  Inputs <- Asks
  Guns = {"small", "big"}
  Magazine <- Magazines
  FirstGun = "small"
  Reload = 2
  MaxHealth = 1
  Length = 6
  Blocks = {6}
  Cursors <- Points
  Size = 3
  MaxBullets = 2
  MaxAsks = 3
SPECIFICATION Spec
INVARIANTS TypeOK BulletsOnRecord HurtOnce AmmoKnown CellsFollow UndefinedExplained
PROPERTIES CollidedGo
CHECK_DEADLOCK FALSE
