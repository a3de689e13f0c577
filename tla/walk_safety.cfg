SPECIFICATION Spec
CONSTANTS
  Maps <- ClosedMaps
  Rooms <- FloorTiles
  Spawn <- Start
  BulletSize = 2
  Steps <- UpToATile
  Speeds <- BulletSpeeds
INVARIANTS
  TypeOK
  NeverInWall
  WalksPixelByPixel
CHECK_DEADLOCK FALSE
