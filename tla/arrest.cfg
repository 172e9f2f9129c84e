SPECIFICATION TallySpec
CONSTANTS
  Players = {p1, p2, p3}
  NoPlayer = NoPlayer
  field = field
  jail = jail
  Positions <- TwoPlaces
  Origin = field
  PoliceSpawn <- OnePlace
  ThiefSpawn <- TwoPlaces
  ArrestReach <- SamePlace
  JailReach <- AtJail
  ArrestTicks = 2
  RescueTicks = 1
  InvincibleTicks = 1
  MaxPolice = 1
  MinPlayers = 2
  MaxPlayers = 2
  GameTicks = 2
  Loops = {l1}
  MaxGames = 2
  Boosters <- NoItems
  BoosterReach <- NoReach
  BoosterRespawnTicks = 1
  BoosterTicks = 1
  Stones <- NoItems
  StoneReach <- NoReach
  StoneRespawnTicks = 1
  SlowTicks = 1
SYMMETRY PlayerSymmetry
INVARIANTS
  WithinLimits
PROPERTIES
  ArrestNeedsTime
