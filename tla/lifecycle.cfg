SPECIFICATION Spec
CONSTANTS
  Players = {p1, p2, p3}
  NoPlayer = NoPlayer
  field = field
  jail = jail
  Positions <- OnePlace
  Origin = field
  PoliceSpawn <- OnePlace
  ThiefSpawn <- OnePlace
  ArrestReach <- OneReach
  JailReach <- NoReach
  ArrestTicks = 1
  RescueTicks = 1
  InvincibleTicks = 1
  MaxPolice = 1
  MinPlayers = 2
  MaxPlayers = 3
  GameTicks = 2
  Loops = {l1, l2}
  MaxGames = 2
  Boosters <- NoItems
  BoosterReach <- NoReach
  BoosterRespawnTicks = 1
  BoosterTicks = 1
  Stones <- NoItems
  StoneReach <- NoReach
  StoneRespawnTicks = 1
  SlowTicks = 1
SYMMETRY Symmetry
INVARIANTS
  HostIsMember
  TypeOK
  StartsWithBothTeams
  ChannelTracksState
  PlayingHasLoop
  LoopsCounted
  RolelessStayOut
PROPERTIES
  ImplementsDirectory
  ImplementsMatch
