SPECIFICATION FairSpec
CONSTANTS
  c1 = c1
  c2 = c2
  Clients = {c1, c2}
  MaxPlayers = 3
  MaxFrames = 0
  MaxIds = 2
  IdHalf = 4
  Loses = TRUE
  Duplicates = FALSE
  Reorders = FALSE
  FreedAddrIntact = TRUE
PROPERTY LeavingEnds
CHECK_DEADLOCK FALSE
