---------------------------- MODULE PlacementProofs ----------------------------
(***************************************************************************)
(* Proofs about Placement, for any map, any margin and any number of players. *)
(***************************************************************************)
EXTENDS Placement, TLAPS

USE PlacementAssumption

\* Everybody who has a place has it in the zone of its side.
InZone ==
    /\ side \in [1..PlayerCount -> {"police", "thief"}]
    /\ Len(spawn) <= PlayerCount
    /\ \E S : spawn \in Seq(S)
    /\ \A i \in 1..Len(spawn) : spawn[i].at \in Zone(side[i])

LEMMA InZoneInit == PlacementInit => InZone
BY DEF PlacementInit, InZone

LEMMA InZoneStep == InZone /\ [PlacementNext]_placementVars => InZone'
<1> SUFFICES ASSUME InZone, [PlacementNext]_placementVars PROVE InZone'
  OBVIOUS
<1>1. CASE SpawnPlayer
  <2>1. PICK pos \in ZoneOfNext :
           spawn' = Append(spawn, [at |-> pos, forced |-> tries = MaxAttempts])
    BY <1>1 DEF SpawnPlayer
  <2> DEFINE place == [at |-> pos, forced |-> tries = MaxAttempts]
  <2>2. place.at = pos
    OBVIOUS
  <2> HIDE DEF place
  <2>3. PICK S : spawn \in Seq(S)
    BY DEF InZone
  <2>4. spawn \in Seq(S \cup {place}) /\ place \in S \cup {place}
    BY <2>3
  <2>5. /\ spawn' \in Seq(S \cup {place})
        /\ Len(spawn') = Len(spawn) + 1
        /\ \A i \in 1..Len(spawn) : spawn'[i] = spawn[i]
        /\ spawn'[Len(spawn) + 1] = place
    BY <2>1, <2>4 DEF place
  <2>6. side' = side /\ Len(spawn) < PlayerCount
    BY <1>1 DEF SpawnPlayer, PlayersNext
  <2>7. Len(spawn) \in Nat
    BY <2>3
  <2>8. ASSUME NEW i \in 1..Len(spawn') PROVE spawn'[i].at \in Zone(side'[i])
    <3>1. CASE i = Len(spawn) + 1
      BY <2>1, <2>2, <2>5, <2>6, <3>1 DEF ZoneOfNext
    <3>2. CASE i \in 1..Len(spawn)
      BY <2>5, <2>6, <3>2 DEF InZone
    <3> QED
      BY <2>5, <2>7, <3>1, <3>2
  <2>9. \A i \in 1..Len(spawn') : Zone(side'[i]) = Zone(side[i])'
    BY DEF Zone
  <2> QED
    BY <2>5, <2>6, <2>7, <2>8, <2>9 DEF InZone
<1>2. CASE UNCHANGED <<side, spawn>>
  BY <1>2 DEF InZone, Zone, Points
<1> QED
  BY <1>1, <1>2 DEF PlacementNext, MissPlayer, DrawObject, MissObject, placementVars

\* Squares grow with what is squared.
LEMMA Squares ==
    ASSUME NEW d \in Int, NEW e \in Int, NEW n \in Nat, d >= n \/ -d >= n
    PROVE  e * e + d * d >= n * n
<1>1. e * e >= 0
  OBVIOUS
<1>2. d * d >= n * n
  OBVIOUS
<1>3. e * e \in Int /\ d * d \in Int /\ n * n \in Int
  OBVIOUS
<1> QED
  BY <1>1, <1>2, <1>3

\* The margins keep the zones of the two sides twice the distance apart.
LEMMA ZonesApart ==
    ASSUME NEW a \in Zone("police"), NEW b \in Zone("thief")
    PROVE  /\ a.x \in Int /\ a.y \in Int /\ b.x \in Int /\ b.y \in Int
           /\ b.y - a.y >= 2 * MinSpawnDistance
<1> DEFINE half == MapHeight \div 2
<1>1. half \in Int
  OBVIOUS
<1>2. /\ a.x \in MinSpawnDistance..(MapWidth - MinSpawnDistance)
      /\ a.y \in (0 + MinSpawnDistance)..(0 + half - MinSpawnDistance)
      /\ b.x \in MinSpawnDistance..(MapWidth - MinSpawnDistance)
      /\ b.y \in (half + MinSpawnDistance)..(half + half - MinSpawnDistance)
  BY DEF Zone, Points
<1> HIDE DEF half
<1> QED
  BY <1>1, <1>2

LEMMA FarApart ==
    ASSUME NEW a \in Zone("police"), NEW b \in Zone("thief")
    PROVE  ~Near(a, b, ArrestRange + 1) /\ ~Near(b, a, ArrestRange + 1)
<1> DEFINE n == ArrestRange + 1
<1>1. n \in Nat /\ n <= 2 * MinSpawnDistance
  OBVIOUS
<1>2. /\ a.x \in Int /\ a.y \in Int /\ b.x \in Int /\ b.y \in Int
      /\ b.y - a.y >= n
  BY <1>1, ZonesApart
<1> HIDE DEF n
<1>3. (a.x - b.x) * (a.x - b.x) + (a.y - b.y) * (a.y - b.y) >= n * n
  BY <1>1, <1>2, Squares
<1>4. (b.x - a.x) * (b.x - a.x) + (b.y - a.y) * (b.y - a.y) >= n * n
  BY <1>1, <1>2, Squares
<1>5. /\ (a.x - b.x) * (a.x - b.x) + (a.y - b.y) * (a.y - b.y) \in Int
      /\ (b.x - a.x) * (b.x - a.x) + (b.y - a.y) * (b.y - a.y) \in Int
      /\ n * n \in Int
  BY <1>1, <1>2
<1> QED
  BY <1>3, <1>4, <1>5 DEF Near, n

\* No game begins with a thief in reach of a policeman, however often the attempts
\* to place the players failed (spawn.go:14-67).
THEOREM TeamsApartCorrect == PlacementSpec => []TeamsApart
<1>1. InZone => TeamsApart
  <2> SUFFICES ASSUME InZone, NEW i \in 1..Len(spawn), NEW j \in 1..Len(spawn),
                      side[i] # side[j]
               PROVE  ~Near(spawn[i].at, spawn[j].at, ArrestRange + 1)
    BY DEF InZone, TeamsApart
  <2>1. i \in 1..PlayerCount /\ j \in 1..PlayerCount
    BY DEF InZone
  <2>2. /\ spawn[i].at \in Zone(side[i]) /\ spawn[j].at \in Zone(side[j])
        /\ side[i] \in {"police", "thief"} /\ side[j] \in {"police", "thief"}
    BY <2>1 DEF InZone
  <2>3. CASE side[i] = "police" /\ side[j] = "thief"
    BY <2>2, <2>3, FarApart
  <2>4. CASE side[i] = "thief" /\ side[j] = "police"
    BY <2>2, <2>4, FarApart
  <2> QED
    BY <2>2, <2>3, <2>4
<1> QED
  BY <1>1, InZoneInit, InZoneStep, PTL DEF PlacementSpec

(***************************************************************************)
(* What the attempts achieve.                                               *)
(***************************************************************************)

\* The distance does not depend on the direction.
LEMMA NearSymmetric ==
    ASSUME NEW a, NEW b, a.x \in Int, a.y \in Int, b.x \in Int, b.y \in Int, NEW d \in Int
    PROVE  Near(a, b, d) <=> Near(b, a, d)
<1>1. /\ (a.x - b.x) * (a.x - b.x) = (b.x - a.x) * (b.x - a.x)
      /\ (a.y - b.y) * (a.y - b.y) = (b.y - a.y) * (b.y - a.y)
  OBVIOUS
<1> QED
  BY <1>1 DEF Near

\* What is not within a distance is not within a smaller one.
LEMMA NearGrows ==
    ASSUME NEW a, NEW b, a.x \in Int, a.y \in Int, b.x \in Int, b.y \in Int,
           NEW d \in Nat, NEW e \in Nat, ~Near(a, b, d + e)
    PROVE  ~Near(a, b, d)
<1> DEFINE q == (a.x - b.x) * (a.x - b.x) + (a.y - b.y) * (a.y - b.y)
<1>1. q \in Int
  OBVIOUS
<1>2. (d + e) * (d + e) >= d * d /\ (d + e) * (d + e) \in Int /\ d * d \in Int
  <2>1. d * e \in Nat /\ e * e \in Nat
    OBVIOUS
  <2>2. (d + e) * (d + e) = d * d + d * e + d * e + e * e
    OBVIOUS
  <2> QED
    BY <2>1, <2>2
<1>3. ~(q < (d + e) * (d + e))
  BY DEF Near
<1> HIDE DEF q
<1>4. ~(q < d * d)
  BY <1>1, <1>2, <1>3
<1> QED
  BY <1>4 DEF Near, q

\* A sequence keeps its elements and gets one more.
LEMMA Appended ==
    ASSUME NEW s, NEW e, \E S : s \in Seq(S)
    PROVE  /\ \E S : Append(s, e) \in Seq(S)
           /\ Len(s) \in Nat
           /\ DOMAIN s = 1..Len(s)
           /\ DOMAIN Append(s, e) = 1..Len(s) + 1
           /\ \A i \in 1..Len(s) : Append(s, e)[i] = s[i]
           /\ Append(s, e)[Len(s) + 1] = e
<1>1. PICK S : s \in Seq(S)
  OBVIOUS
<1>2. s \in Seq(S \cup {e}) /\ e \in S \cup {e}
  BY <1>1
<1>3. Append(s, e) \in Seq(S \cup {e})
  BY <1>2
<1> QED
  BY <1>1, <1>2, <1>3

\* The attempts are counted, every place has whole coordinates.
Counting ==
    /\ tries \in 0..MaxAttempts
    /\ \A i \in DOMAIN spawn : spawn[i].at.x \in Int /\ spawn[i].at.y \in Int
    /\ \E S : spawn \in Seq(S)

LEMMA SpawnedIsWhole == ASSUME NEW r, NEW pos \in Zone(r) PROVE pos.x \in Int /\ pos.y \in Int
BY DEF Zone, Points

Spreading == Counting /\ PlayersSpread

LEMMA SpreadingStep == Spreading /\ [PlacementNext]_placementVars => Spreading'
<1> SUFFICES ASSUME Spreading, [PlacementNext]_placementVars PROVE Spreading'
  OBVIOUS
<1>1. CASE SpawnPlayer
  <2>1. PICK pos \in ZoneOfNext :
           /\ tries < MaxAttempts => FarEnough(pos)
           /\ spawn' = Append(spawn, [at |-> pos, forced |-> tries = MaxAttempts])
    BY <1>1 DEF SpawnPlayer
  <2> DEFINE place == [at |-> pos, forced |-> tries = MaxAttempts]
  <2>2. place.at = pos /\ (~place.forced => tries # MaxAttempts)
    OBVIOUS
  <2>3. spawn' = Append(spawn, place) /\ pos.x \in Int /\ pos.y \in Int
    BY <2>1, SpawnedIsWhole DEF ZoneOfNext
  <2> HIDE DEF place
  <2>a. \E S : spawn \in Seq(S)
    BY DEF Spreading, Counting
  <2>b. /\ \E S : Append(spawn, place) \in Seq(S)
        /\ Len(spawn) \in Nat
        /\ DOMAIN spawn = 1..Len(spawn)
        /\ DOMAIN Append(spawn, place) = 1..Len(spawn) + 1
        /\ \A i \in 1..Len(spawn) : Append(spawn, place)[i] = spawn[i]
        /\ Append(spawn, place)[Len(spawn) + 1] = place
    BY <2>a, Appended
  <2> DEFINE n == Len(spawn)
  <2>4. /\ \E S : spawn' \in Seq(S)
        /\ n \in Nat
        /\ DOMAIN spawn = 1..n /\ DOMAIN spawn' = 1..n + 1
        /\ \A i \in 1..n : spawn'[i] = spawn[i]
        /\ spawn'[n + 1] = place
    BY <2>3, <2>b
  <2> HIDE DEF n
  <2>5. tries' \in 0..MaxAttempts
    BY <1>1 DEF SpawnPlayer
  <2>6. \A i \in DOMAIN spawn' : spawn'[i].at.x \in Int /\ spawn'[i].at.y \in Int
    BY <2>2, <2>3, <2>4 DEF Spreading, Counting
  <2>7. ASSUME NEW i \in 1..n, ~place.forced
        PROVE  ~Near(pos, spawn[i].at, MinSpawnDistance)
    <3>1. tries < MaxAttempts
      BY <2>2, <2>7 DEF Spreading, Counting
    <3> QED
      BY <2>1, <2>4, <3>1 DEF FarEnough
  <2>8. ASSUME NEW i \in 1..n, ~place.forced
        PROVE  ~Near(spawn[i].at, pos, MinSpawnDistance)
    <3>1. spawn[i].at.x \in Int /\ spawn[i].at.y \in Int
      BY <2>4, <2>8 DEF Spreading, Counting
    <3>2. MinSpawnDistance \in Int
      OBVIOUS
    <3> QED
      BY <2>3, <2>7, <2>8, <3>1, <3>2, NearSymmetric
  <2>9. ASSUME NEW i \in 1..n + 1, NEW j \in 1..n + 1, i # j,
               Near(spawn'[i].at, spawn'[j].at, MinSpawnDistance)
        PROVE  spawn'[i].forced \/ spawn'[j].forced
    <3>1. CASE i \in 1..n /\ j \in 1..n
      BY <2>4, <2>9, <3>1 DEF Spreading, PlayersSpread
    <3>2. CASE i = n + 1 /\ j \in 1..n
      BY <2>2, <2>4, <2>7, <2>9, <3>2
    <3>3. CASE j = n + 1 /\ i \in 1..n
      BY <2>2, <2>4, <2>8, <2>9, <3>3
    <3> QED
      BY <2>4, <2>9, <3>1, <3>2, <3>3
  <2>10. PlayersSpread'
    BY <2>4, <2>9 DEF PlayersSpread, Near
  <2> QED
    BY <2>4, <2>5, <2>6, <2>10 DEF Spreading, Counting
<1>2. CASE UNCHANGED spawn /\ tries' \in 0..MaxAttempts
  BY <1>2 DEF Spreading, Counting, PlayersSpread, Near
<1>3. CASE MissPlayer \/ MissObject
  BY <1>2, <1>3 DEF MissPlayer, MissObject, Spreading, Counting
<1>4. CASE DrawObject \/ UNCHANGED placementVars
  BY <1>2, <1>4 DEF DrawObject, placementVars, Spreading, Counting
<1> QED
  BY <1>1, <1>3, <1>4 DEF PlacementNext

\* Two players are too close only when the attempts for one of them were used up
\* (spawn.go:54-77).
THEOREM PlayersSpreadCorrect == PlacementSpec => []PlayersSpread
<1>1. PlacementInit => Spreading
  BY DEF PlacementInit, Spreading, Counting, PlayersSpread
<1>2. Spreading => PlayersSpread
  BY DEF Spreading
<1> QED
  BY <1>1, <1>2, SpreadingStep, PTL DEF PlacementSpec

(***************************************************************************)
(* Map objects.                                                             *)
(***************************************************************************)

\* The objects that are placed follow the plan.
Drawn ==
    /\ tries \in 0..MaxAttempts
    /\ \E S : objects \in Seq(S)
    /\ \A i \in DOMAIN objects :
          /\ objects[i].at \in Ground(objects[i].type)
          /\ \E k \in 1..Len(Plan) : objects[i].type = Plan[k]

\* A place on the ground, as numbers.
LEMMA OnGround ==
    ASSUME NEW k \in 1..Len(Plan), NEW t, t = Plan[k], NEW pos \in Ground(t)
    PROVE  /\ pos.x \in Int /\ pos.y \in Int /\ MarginX[t] \in Nat
           /\ MarginX[t] <= pos.x /\ pos.x + MarginX[t] <= MapWidth
           /\ MarginY[t] <= pos.y /\ pos.y + MarginY[t] <= MapHeight
<1>1. MarginX[t] \in Nat /\ MarginY[t] \in Nat
  BY ObjectsAssumption
<1>2. pos.x \in MarginX[t]..(MapWidth - MarginX[t]) /\ pos.y \in MarginY[t]..(MapHeight - MarginY[t])
  BY DEF Ground, Points
<1> QED
  BY <1>1, <1>2

Placing == Drawn /\ ObjectsSpread

LEMMA PlacingStep == Placing /\ [PlacementNext]_placementVars => Placing'
<1> SUFFICES ASSUME Placing, [PlacementNext]_placementVars PROVE Placing'
  OBVIOUS
<1>1. CASE DrawObject
  <2>1. PICK pos \in Ground(Type) :
           /\ tries < MaxAttempts => Clear(Type, pos)
           /\ objects' = Append(objects, [type |-> Type, at |-> pos, forced |-> tries = MaxAttempts])
    BY <1>1 DEF DrawObject
  <2> DEFINE place == [type |-> Type, at |-> pos, forced |-> tries = MaxAttempts]
             n == Len(objects)
  <2>2. place.type = Type /\ place.at = pos /\ (~place.forced => tries # MaxAttempts)
    OBVIOUS
  <2>3. objects' = Append(objects, place)
    BY <2>1
  <2> HIDE DEF place
  <2>a. \E S : objects \in Seq(S)
    BY DEF Placing, Drawn
  <2>b. /\ \E S : Append(objects, place) \in Seq(S)
        /\ Len(objects) \in Nat
        /\ DOMAIN objects = 1..Len(objects)
        /\ DOMAIN Append(objects, place) = 1..Len(objects) + 1
        /\ \A i \in 1..Len(objects) : Append(objects, place)[i] = objects[i]
        /\ Append(objects, place)[Len(objects) + 1] = place
    BY <2>a, Appended
  <2>4. /\ \E S : objects' \in Seq(S)
        /\ n \in Nat
        /\ DOMAIN objects = 1..n /\ DOMAIN objects' = 1..n + 1
        /\ \A i \in 1..n : objects'[i] = objects[i]
        /\ objects'[n + 1] = place
    BY <2>3, <2>b
  <2>5. n + 1 \in 1..Len(Plan) /\ Type = Plan[n + 1]
    BY <1>1, <2>4 DEF DrawObject, ObjectsNext, Type
  <2> HIDE DEF n
  <2>6. pos.x \in Int /\ pos.y \in Int /\ MarginX[Type] \in Nat
    BY <2>1, <2>5, OnGround
  <2>7. tries' \in 0..MaxAttempts
    BY <1>1 DEF DrawObject
  <2>8. ASSUME NEW i \in 1..n + 1
        PROVE  /\ objects'[i].at \in Ground(objects'[i].type)
               /\ \E k \in 1..Len(Plan) : objects'[i].type = Plan[k]
    <3>1. CASE i \in 1..n
      BY <2>4, <3>1 DEF Placing, Drawn
    <3>2. CASE i = n + 1
      BY <2>1, <2>2, <2>4, <2>5, <3>2
    <3> QED
      BY <2>4, <3>1, <3>2
  <2>9. ASSUME NEW i \in 1..n PROVE objects[i].at.x \in Int /\ objects[i].at.y \in Int
    BY <2>4, OnGround DEF Placing, Drawn
  <2>10. ASSUME ~place.forced
         PROVE  /\ ~Near(pos, Center, ObjectSpawnRadius)
                /\ \A i \in 1..n : ~Near(pos, objects[i].at, ObjectMinDistance)
                /\ \A i \in 1..n : ~Near(objects[i].at, pos, ObjectMinDistance)
    <3>1. Clear(Type, pos)
      BY <2>1, <2>2, <2>10 DEF Placing, Drawn
    <3>2. ~Near(pos, Center, ObjectSpawnRadius)
      <4>1. Center.x \in Int /\ Center.y \in Int
        BY DEF Center
      <4>2. ~Near(pos, Center, ObjectSpawnRadius + MarginX[Type])
        BY <3>1 DEF Clear
      <4>3. ObjectSpawnRadius \in Nat
        BY ObjectsAssumption
      <4> QED
        BY <2>6, <4>1, <4>2, <4>3, NearGrows
    <3>3. \A i \in 1..n : ~Near(pos, objects[i].at, ObjectMinDistance)
      BY <2>4, <3>1 DEF Clear
    <3>4. \A i \in 1..n : ~Near(objects[i].at, pos, ObjectMinDistance)
      <4>1. ObjectMinDistance \in Int
        BY ObjectsAssumption
      <4> QED
        BY <2>6, <2>9, <3>3, <4>1, NearSymmetric
    <3> QED
      BY <3>2, <3>3, <3>4
  <2>11. ASSUME NEW i \in 1..n + 1, NEW j \in 1..n + 1,
                ~objects'[i].forced, ~objects'[j].forced
         PROVE  /\ i # j => ~Near(objects'[i].at, objects'[j].at, ObjectMinDistance)
                /\ ~Near(objects'[i].at, Center, ObjectSpawnRadius)
    <3>1. CASE i \in 1..n /\ j \in 1..n
      BY <2>4, <2>11, <3>1 DEF Placing, ObjectsSpread
    <3>2. CASE i = n + 1
      BY <2>2, <2>4, <2>10, <2>11, <3>2
    <3>3. CASE i \in 1..n /\ j = n + 1
      <4>1. ~Near(objects'[i].at, Center, ObjectSpawnRadius)
        BY <2>4, <2>11, <3>3 DEF Placing, ObjectsSpread
      <4> QED
        BY <2>2, <2>4, <2>10, <2>11, <3>3, <4>1
    <3> QED
      BY <2>4, <3>1, <3>2, <3>3
  <2>12. ObjectsSpread'
    BY <2>4, <2>11 DEF ObjectsSpread, Near, Center
  <2>13. Drawn'
    BY <2>4, <2>7, <2>8 DEF Drawn, Ground
  <2> QED
    BY <2>12, <2>13 DEF Placing
<1>2. CASE UNCHANGED objects /\ tries' \in 0..MaxAttempts
  BY <1>2 DEF Placing, Drawn, ObjectsSpread, Near, Center, Ground
<1>3. CASE MissPlayer \/ MissObject
  BY <1>2, <1>3 DEF MissPlayer, MissObject, Placing, Drawn
<1>4. CASE SpawnPlayer \/ UNCHANGED placementVars
  BY <1>2, <1>4 DEF SpawnPlayer, placementVars, Placing, Drawn
<1> QED
  BY <1>1, <1>3, <1>4 DEF PlacementNext

LEMMA PlacingCorrect == PlacementSpec => []Placing
<1>1. PlacementInit => Placing
  BY DEF PlacementInit, Placing, Drawn, ObjectsSpread
<1> QED
  BY <1>1, PlacingStep, PTL DEF PlacementSpec

\* Objects are apart from each other and from the centre of the map, unless the
\* attempts for one of them were used up (map_objects.go:60-89).
THEOREM ObjectsSpreadCorrect == PlacementSpec => []ObjectsSpread
<1>1. Placing => ObjectsSpread
  BY DEF Placing
<1> QED
  BY <1>1, PlacingCorrect, PTL

\* Players from players, and objects from objects and from the centre.
THEOREM KeptApartCorrect == PlacementSpec => []KeptApart
<1>1. PlayersSpread /\ ObjectsSpread => KeptApart
  BY DEF KeptApart
<1> QED
  BY <1>1, PlayersSpreadCorrect, ObjectsSpreadCorrect, PTL

\* No object sticks out of the map, a fallback included (map_objects.go:56-88).
THEOREM ObjectsOnMapCorrect == PlacementSpec => []ObjectsOnMap
<1>1. Placing => ObjectsOnMap
  BY OnGround DEF Placing, Drawn, ObjectsOnMap
<1> QED
  BY <1>1, PlacingCorrect, PTL
===============================================================================
