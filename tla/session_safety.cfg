SPECIFICATION Spec
CONSTANTS
  c1 = c1
  c2 = c2
  c3 = c3
  Clients = {c1, c2, c3}
  MaxPlayers = 2
  MaxFrames = 2
  MaxIds = 3
  IdHalf = 2
  Loses = FALSE
  Duplicates = TRUE
  Reorders = TRUE
  FreedAddrIntact = FALSE
SYMMETRY Symmetry
INVARIANTS
  TypeOK
  WithinCapacity
  PlayingIsRegistered
  ListenerOutlivesGame
PROPERTIES
  IdNamesOneClient
  InputNeverRewinds
  OnlyConnectRevives
  IdentityStable
  ImplementsLobby
CHECK_DEADLOCK FALSE
