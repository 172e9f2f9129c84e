SPECIFICATION FairSpec
CONSTANTS
  Clients = {c1, c2}
  NoClient = NoClient
  Players = {p1, p2, p3}
  NoPlayer = NoPlayer
  Codes = {a, b}
  MaxPlayers = 2
  IncomingCap = 1
  MaxMessages = 3
  Unlucky = FALSE
INVARIANTS
  HubTypeOK
  MappedAreInRooms
PROPERTIES
  ImplementsDirectory
  ForgottenLeaveOrAreReplaced
  NobodyStuck
