SPECIFICATION RulesSpec
CHECK_DEADLOCK FALSE
CONSTANTS
  Players = {p1, p2, p3}
  field = field
  jail = jail
  Positions <- TwoPlaces
  Origin = field
  PoliceSpawn <- TwoPlaces
  ThiefSpawn <- TwoPlaces
  ArrestReach <- SamePlace
  JailReach <- AtJail
  ArrestTicks = 3
  RescueTicks = 2
  InvincibleTicks = 1
  MaxPolice = 2
  Item = {b1, b2}
  Runners = {q1, q2}
  Ranks = {1, 2}
  Spots = {x, y}
  PickupReach <- SameSpot
  RespawnTicks = 3
  EffectTicks = 2
  PlayerCount = 3
  MapWidth = 8
  MapHeight = 12
  MinSpawnDistance = 2
  ArrestRange = 1
  ObjectMinDistance = 3
  ObjectSpawnRadius = 2
  Plan <- Objects
  MarginX <- HalfWidth
  MarginY <- HalfHeight
  MaxAttempts = 1
SYMMETRY Symmetry
VIEW View
INVARIANTS
  TeamsApart
  KeptApart
PROPERTIES
  PhasesAddUp
  
