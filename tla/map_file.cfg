SPECIFICATION Spec
CONSTANTS
  MaxDepth = 8
  Word = 65536
  FlipUnit = 268435456
  TilesetPath = "tiles"
  MapPath <- MCMapPath
  Disks <- MCDisks
INVARIANTS
  TypeOK
  ParsesWellFormed
  TreePrintsBack
  NoNodeLost
  ParsedIsComplete
  WallsAsWritten
  DrawnAsWritten
CHECK_DEADLOCK FALSE
