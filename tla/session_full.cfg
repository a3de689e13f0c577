SPECIFICATION FairSpec
CONSTANTS
  c1 = c1
  c2 = c2
  Clients = {c1, c2}
  MaxPlayers = 2
  MaxFrames = 0
  MaxIds = 2
  IdHalf = 4
  Loses = FALSE
  Duplicates = FALSE
  Reorders = FALSE
  FreedAddrIntact = TRUE
PROPERTY DisconnectReachesServer
CHECK_DEADLOCK FALSE
