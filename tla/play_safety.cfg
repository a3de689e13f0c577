SPECIFICATION Spec
CONSTANTS
  Velocities <- LeftRight
  Speed = 2
  Wall = 3
  Skews <- AnySkew
  Loses = TRUE
  Reorders = TRUE
  MaxFrames = 3
  MaxTicks = 2
  MaxInTransit = 2
INVARIANTS
  TypeOK
  Converges
  DriftBounded
CHECK_DEADLOCK FALSE
