SPECIFICATION Spec
CONSTANTS
  Map <- Corridor
  Length = 2
  Spawn <- Start
  FullHealth = 5
  Velocities <- Walking
  Aims <- Ends
  BulletSize = 1
  BulletStep = 2
  TickInterval = 2
  MaxBulletsPerPacket = 2
  IdHalf = 1
  Boot = 3
  MaxDelay = 1
  MaxWait = 4
  MaxWork = 1
  MaxTime = 6
  MaxIds = 2
INVARIANTS
  TypeOK
  BulletsFlyStraight
  EveryHitCounted
  NoBulletLost
  HitsAreResolved
  UnknownAreFresh
  NeverAheadOfClock
PROPERTY
  TurnsEnd
CHECK_DEADLOCK FALSE
