SPECIFICATION Spec
CONSTANTS
  Clients = {c1, c2}
  NoClient = NoClient
  Players = {p1, p2}
  NoPlayer = NoPlayer
  Codes = {a, b}
  MaxPlayers = 2
  IncomingCap = 2
  MaxMessages = 2
  Unlucky = FALSE
INVARIANTS
  ActsForOwnPlayer
