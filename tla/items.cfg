SPECIFICATION Spec
CONSTANTS
  Players = {p1, p2}
  NoPlayer = NoPlayer
  field = field
  jail = jail
  Positions <- TwoPlaces
  Origin = field
  PoliceSpawn <- OnePlace
  ThiefSpawn <- TwoPlaces
  ArrestReach <- SamePlace
  JailReach <- AtJail
  ArrestTicks = 1
  RescueTicks = 1
  InvincibleTicks = 1
  MaxPolice = 1
  MinPlayers = 2
  MaxPlayers = 2
  GameTicks = 3
  Loops = {l1}
  MaxGames = 1
  Boosters = {b1, b2}
  BoosterReach <- SamePlace
  BoosterRespawnTicks = 2
  BoosterTicks = 2
  Stones = {s1}
  StoneReach <- SamePlace
  StoneRespawnTicks = 1
  SlowTicks = 2
SYMMETRY ItemSymmetry
INVARIANTS
  ItemsConserved

  
