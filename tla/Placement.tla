------------------------------- MODULE Placement -------------------------------
(***************************************************************************)
(* Where a game puts its players and the objects of its map (game/spawn.go,   *)
(* game/map_objects.go, called by Room.PrepareGame).  The map is a grid; a     *)
(* random number is any number of its range, so every attempt may fail.        *)
(***************************************************************************)
EXTENDS Integers, Sequences

CONSTANTS PlayerCount,
          MapWidth, MapHeight,          \* even, in units of the grid
          MinSpawnDistance, ArrestRange,
          ObjectMinDistance, ObjectSpawnRadius,
          Plan,                         \* the types of the objects, in the order of placement
          MarginX, MarginY,             \* per type half its size
          MaxAttempts

ASSUME PlacementAssumption ==
    /\ PlayerCount \in Nat
    /\ MapWidth \in Nat /\ MapHeight \in Nat /\ MapHeight % 2 = 0
    /\ MinSpawnDistance \in Nat \ {0} /\ ArrestRange \in Nat
    /\ ArrestRange < 2 * MinSpawnDistance
    /\ MaxAttempts \in Nat

ASSUME ObjectsAssumption ==
    /\ Len(Plan) \in Nat
    /\ \A i \in 1..Len(Plan) : MarginX[Plan[i]] \in Nat /\ MarginY[Plan[i]] \in Nat
    /\ ObjectMinDistance \in Nat /\ ObjectSpawnRadius \in Nat

\* A place is forced when it was taken after all attempts had failed (history).
VARIABLES
    side,    \* per player, in the order of the slice: its side
    spawn,   \* the places of the players so far
    objects, \* those of the objects
    tries    \* failed attempts for the next place

placementVars == <<side, spawn, objects, tries>>

\* Distance(x, y, px, py) < d
Near(a, b, d) ==
    (a.x - b.x) * (a.x - b.x) + (a.y - b.y) * (a.y - b.y) < d * d

Points(xs, ys) == [x : xs, y : ys]

PlacementInit ==
    /\ side \in [1..PlayerCount -> {"police", "thief"}]
    /\ spawn = <<>> /\ objects = <<>> /\ tries = 0

(***************************************************************************)
(* Players.                                                                 *)
(***************************************************************************)

\* (Mutant of Zone: no margin.)
ZoneToTheEdge(r) ==
    LET lo == IF r = "police" THEN 0 ELSE MapHeight \div 2
    IN  Points(0..MapWidth, lo..(lo + MapHeight \div 2))

\* The half of the side, without a margin of MinSpawnDistance.
Zone(r) ==
    LET lo == IF r = "police" THEN 0 ELSE MapHeight \div 2
        m == MinSpawnDistance
    IN  Points(m..(MapWidth - m), (lo + m)..(lo + MapHeight \div 2 - m))

\* (Mutant of FarEnough: the first position is not looked at.)
FarFromOthers(pos) == \A i \in DOMAIN spawn : i > 1 => ~Near(pos, spawn[i].at, MinSpawnDistance)

FarEnough(pos) == \A i \in DOMAIN spawn : ~Near(pos, spawn[i].at, MinSpawnDistance)

PlayersNext == Len(spawn) < PlayerCount

ZoneOfNext == Zone(side[Len(spawn) + 1])

SpawnPlayer ==
    /\ PlayersNext
    /\ \E pos \in ZoneOfNext :
          /\ tries < MaxAttempts => FarEnough(pos)
          /\ spawn' = Append(spawn, [at |-> pos, forced |-> tries = MaxAttempts])
    /\ tries' = 0
    /\ UNCHANGED <<side, objects>>

MissPlayer ==
    /\ PlayersNext /\ tries < MaxAttempts
    /\ \E pos \in ZoneOfNext : ~FarEnough(pos)
    /\ tries' = tries + 1
    /\ UNCHANGED <<side, spawn, objects>>

(***************************************************************************)
(* Map objects.                                                             *)
(***************************************************************************)

Type == Plan[Len(objects) + 1]

Ground(t) == Points(MarginX[t]..(MapWidth - MarginX[t]), MarginY[t]..(MapHeight - MarginY[t]))

Center == [x |-> MapWidth \div 2, y |-> MapHeight \div 2]

\* (Mutant of Clear: the first object is not looked at.)
ClearOfOthers(t, pos) ==
    /\ ~Near(pos, Center, ObjectSpawnRadius + MarginX[t])
    /\ \A i \in DOMAIN objects : i > 1 => ~Near(pos, objects[i].at, ObjectMinDistance)

Clear(t, pos) ==
    /\ ~Near(pos, Center, ObjectSpawnRadius + MarginX[t])
    /\ \A i \in DOMAIN objects : ~Near(pos, objects[i].at, ObjectMinDistance)

ObjectsNext == ~PlayersNext /\ Len(objects) < Len(Plan)

DrawObject ==
    /\ ObjectsNext
    /\ \E pos \in Ground(Type) :
          /\ tries < MaxAttempts => Clear(Type, pos)
          /\ objects' = Append(objects, [type |-> Type, at |-> pos, forced |-> tries = MaxAttempts])
    /\ tries' = 0
    /\ UNCHANGED <<side, spawn>>

MissObject ==
    /\ ObjectsNext /\ tries < MaxAttempts
    /\ \E pos \in Ground(Type) : ~Clear(Type, pos)
    /\ tries' = tries + 1
    /\ UNCHANGED <<side, spawn, objects>>

PlacementNext == SpawnPlayer \/ MissPlayer \/ DrawObject \/ MissObject

PlacementSpec == PlacementInit /\ [][PlacementNext]_placementVars

(***************************************************************************)
(* Properties.                                                              *)
(***************************************************************************)

\* An object is on the map with all of its size, a fallback included.
ObjectsOnMap ==
    \A i \in DOMAIN objects :
        LET o == objects[i] IN
            /\ MarginX[o.type] <= o.at.x /\ o.at.x + MarginX[o.type] <= MapWidth
            /\ MarginY[o.type] <= o.at.y /\ o.at.y + MarginY[o.type] <= MapHeight

\* Nobody is in the range of an arrest when the game starts: a policeman and a
\* thief are apart even when all attempts failed.
TeamsApart ==
    \A i, j \in DOMAIN spawn :
        side[i] # side[j] => ~Near(spawn[i].at, spawn[j].at, ArrestRange + 1)

\* Players are too close only when the attempts for one of them were used up.
PlayersSpread ==
    \A i, j \in DOMAIN spawn :
        i # j /\ Near(spawn[i].at, spawn[j].at, MinSpawnDistance) =>
            spawn[i].forced \/ spawn[j].forced

\* The same of objects; and only a forced one is near the centre of the map.
ObjectsSpread ==
    \A i, j \in DOMAIN objects :
        ~objects[i].forced /\ ~objects[j].forced =>
            /\ i # j => ~Near(objects[i].at, objects[j].at, ObjectMinDistance)
            /\ ~Near(objects[i].at, Center, ObjectSpawnRadius)

\* What the attempts achieve, of players and of objects.
KeptApart == PlayersSpread /\ ObjectsSpread
===============================================================================
