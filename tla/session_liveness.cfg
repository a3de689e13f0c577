SPECIFICATION FairSpec
CONSTANTS
  c1 = c1
  c2 = c2
  Clients = {c1, c2}
  MaxPlayers = 3
  MaxFrames = 1
  MaxIds = 3
  IdHalf = 2
  Loses = TRUE
  Duplicates = FALSE
  Reorders = FALSE
  FreedAddrIntact = FALSE
PROPERTIES
  ConnectCompletes
  DisconnectReachesServer
CHECK_DEADLOCK FALSE
