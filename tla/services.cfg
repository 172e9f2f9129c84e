SPECIFICATION ServicesSpec
CHECK_DEADLOCK FALSE
CONSTANTS
  Clients = {c1, c2}
  NoClient = NoClient
  Gamers = {g1, g2}
  Guest = Guest
  AccountIds = {a1, a2, a3}
  NoAccount = NoAccount
  MaxRestarts = 1
  Urls = {u1, u2, u3}
  NoUrl = NoUrl
  MaxSize = 2
  TTL = 3
  FetchTime = 2
  MaxTime = 7
  Conns = {k1, k2, k3}
INVARIANTS
  ServicesTypeOK
  OneAccountPerGamer
  AuthenticatedStored
  WithinSize
  ServedInTime
  StoreOutlivesRequests
PROPERTIES
  LoginsEnd
  LosesOnlyWhenFull
  
