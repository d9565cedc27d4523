CONSTANTS
  Width = 3
  Height = 3
  GridSize = 4
  HalfBullet = 1
  Blocks <- AllBlocks
  Bodies <- ThreeBodies
  BodySize = 2
  Reach = 6
  Velocities <- AllVelocities
  Tickrate = 8
SPECIFICATION Spec
PROPERTIES WayTested
CHECK_DEADLOCK FALSE
