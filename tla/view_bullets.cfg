SPECIFICATION Spec
CONSTANTS
  Me = 0
  Other = 1
  Delay = 2
  Skew = 0
  Word = 64
  Reorders = TRUE
  MaxTime = 5
  MaxBroadcasts = 3
INVARIANT BulletsComeFromA
CHECK_DEADLOCK FALSE
