-------------------------------- MODULE Game ---------------------------------
(***************************************************************************)
(* The rules of the game package: what one locked tick of a room does to   *)
(* its players (player.go, collision.go, logic.go, and the middle of       *)
(* gameLoop in room.go).  Room gives the steps their place in the loop.     *)
(*                                                                          *)
(* Durations are counted in ticks.  The map is a finite set of positions   *)
(* and the ranges are relations on it; a move may go to any position, which *)
(* also covers the torn reads of X and Y that an unlocked SetPosition makes *)
(* possible.                                                                *)
(***************************************************************************)
EXTENDS Integers, FiniteSets

CONSTANTS Players,          \* player ids; uuids, so that none is used twice
          Positions,        \* points of the map
          Origin,           \* (0,0), where NewPlayer and Reset put a player
          PoliceSpawn,      \* spawn zone of the police: upper half
          ThiefSpawn,       \* spawn zone of everybody else: lower half
          ArrestReach,      \* pairs of positions at most ArrestRange apart
          JailReach,        \* positions at most JailRange from the jail
          ArrestTicks,      \* ArrestDuration
          RescueTicks,      \* RescueDuration
          InvincibleTicks,  \* InvincibleTime
          MaxPolice

ASSUME GameAssumption ==
    /\ IsFiniteSet(Players)
    /\ Origin \in Positions
    /\ PoliceSpawn \subseteq Positions /\ PoliceSpawn # {}
    /\ ThiefSpawn \subseteq Positions /\ ThiefSpawn # {}
    /\ ArrestReach \subseteq Positions \X Positions
    /\ JailReach \subseteq Positions
    /\ MaxPolice \in Nat \ {0}
    /\ ArrestTicks \in Nat /\ ArrestTicks >= MaxPolice
    /\ RescueTicks \in Nat \ {0}
    /\ InvincibleTicks \in Nat \ {0}

VARIABLES role,         \* Player.Role
          cond,         \* Player.State
          pos,          \* Player.X, Player.Y
          arrestGauge,  \* Player.ArrestGauge in ticks
          rescueGauge,  \* Player.RescueGauge in ticks
          invincible    \* Player.InvincibleTimer in ticks

Roles == {"none", "police", "thief"}
Conditions == {"free", "arrested", "invincible"}

\* NewPlayer.
NewPlayers ==
    /\ role = [p \in Players |-> "none"]
    /\ cond = [p \in Players |-> "free"]
    /\ pos = [p \in Players |-> Origin]
    /\ arrestGauge = [p \in Players |-> 0]
    /\ rescueGauge = [p \in Players |-> 0]
    /\ invincible = [p \in Players |-> 0]

\* (Mutant of ResetPlayers: the arrest gauge is forgotten.)
ResetKeepsGauge(players) ==
    /\ cond' = [p \in Players |-> IF p \in players THEN "free" ELSE cond[p]]
    /\ pos' = [p \in Players |-> IF p \in players THEN Origin ELSE pos[p]]
    /\ rescueGauge' = [p \in Players |-> IF p \in players THEN 0 ELSE rescueGauge[p]]
    /\ invincible' = [p \in Players |-> IF p \in players THEN 0 ELSE invincible[p]]
    /\ UNCHANGED arrestGauge

\* (Mutant of ResetPlayers: the invincibility timer is forgotten.)
ResetKeepsTimer(players) ==
    /\ cond' = [p \in Players |-> IF p \in players THEN "free" ELSE cond[p]]
    /\ pos' = [p \in Players |-> IF p \in players THEN Origin ELSE pos[p]]
    /\ arrestGauge' = [p \in Players |-> IF p \in players THEN 0 ELSE arrestGauge[p]]
    /\ rescueGauge' = [p \in Players |-> IF p \in players THEN 0 ELSE rescueGauge[p]]
    /\ UNCHANGED invincible

\* Player.Reset of every player in the set; the role is kept.
ResetPlayers(players) ==
    /\ cond' = [p \in Players |-> IF p \in players THEN "free" ELSE cond[p]]
    /\ pos' = [p \in Players |-> IF p \in players THEN Origin ELSE pos[p]]
    /\ arrestGauge' = [p \in Players |-> IF p \in players THEN 0 ELSE arrestGauge[p]]
    /\ rescueGauge' = [p \in Players |-> IF p \in players THEN 0 ELSE rescueGauge[p]]
    /\ invincible' = [p \in Players |-> IF p \in players THEN 0 ELSE invincible[p]]

\* GenerateSpawnPositions; nothing but the position of a player is touched.
SpawnZone(p) == IF role[p] = "police" THEN PoliceSpawn ELSE ThiefSpawn

Spawn(players) ==
    \E spawned \in [players -> Positions] :
      /\ \A p \in players : spawned[p] \in SpawnZone(p)
      /\ pos' = [p \in Players |-> IF p \in players THEN spawned[p] ELSE pos[p]]

\* (Mutant of Thieves: whoever is not in the police.)
AllButCops(players) == {p \in players : role[p] # "police"}

Thieves(players) == {p \in players : role[p] = "thief"}
Cops(players) == {p \in players : role[p] = "police"}

\* The invincibility timers, whatever the role of the player by now.
InvincibilityPhase(players) ==
    LET timed == {p \in players : cond[p] = "invincible"}
        over == {p \in timed : invincible[p] <= 1}
    IN /\ cond' = [p \in Players |-> IF p \in over THEN "free" ELSE cond[p]]
       /\ invincible' = [p \in Players |->
                           IF p \in over THEN 0
                           ELSE IF p \in timed THEN invincible[p] - 1
                           ELSE invincible[p]]

\* FindArrestPairs, seen from one thief: the police near it.  A policeman counts
\* whatever its own State is.
Chasers(players, t) == {c \in Cops(players) : <<pos[c], pos[t]>> \in ArrestReach}

\* The free thieves some policeman is near to.
Chased(players) ==
    {t \in Thieves(players) : cond[t] = "free" /\ Chasers(players, t) # {}}

\* The arrest loop.  Each pair adds one tick to the gauge of its thief; the pair
\* that fills the gauge empties it and arrests, and the pairs of that thief that
\* come after it fill the gauge of the arrested thief again.
Exposure(players, t) == arrestGauge[t] + Cardinality(Chasers(players, t))

\* (Mutant of ArrestPhase: Player.Arrest does not empty the gauge.)
ArrestKeepsGauge(players) ==
    LET chased == Chased(players)
    IN /\ cond' = [p \in Players |->
                     IF p \in chased /\ Exposure(players, p) >= ArrestTicks
                     THEN "arrested" ELSE cond[p]]
       /\ arrestGauge' = [p \in Players |->
                            IF p \in chased THEN Exposure(players, p) ELSE arrestGauge[p]]

ArrestPhase(players) ==
    LET chased == Chased(players)
    IN /\ cond' = [p \in Players |->
                     IF p \in chased /\ Exposure(players, p) >= ArrestTicks
                     THEN "arrested" ELSE cond[p]]
       /\ arrestGauge' = [p \in Players |->
                            IF p \in chased THEN Exposure(players, p) % ArrestTicks
                            ELSE arrestGauge[p]]

\* FindJailRescueCandidates.
Rescuers(players) ==
    {p \in Thieves(players) : cond[p] = "free" /\ pos[p] \in JailReach}

\* (Mutant of Released: only the arrested thieves that are at the jail.)
ReleasedAtJail(players) ==
    IF \E p \in Rescuers(players) : rescueGauge[p] + 1 >= RescueTicks
    THEN {p \in Thieves(players) : cond[p] = "arrested" /\ pos[p] \in JailReach}
    ELSE {}

\* The thieves the rescue loop releases: all the arrested ones, as soon as one
\* rescuer fills its gauge.
Released(players) ==
    IF \E p \in Rescuers(players) : rescueGauge[p] + 1 >= RescueTicks
    THEN {p \in Thieves(players) : cond[p] = "arrested"}
    ELSE {}

\* The rescue loop, Player.Release, and the loop that empties the gauge of the
\* free thieves that are away from the jail.
RescuePhase(players) ==
    LET rescuers == Rescuers(players)
        released == Released(players)
        away == {p \in Thieves(players) \ rescuers : cond[p] = "free"}
    IN /\ cond' = [p \in Players |-> IF p \in released THEN "invincible" ELSE cond[p]]
       /\ invincible' = [p \in Players |->
                           IF p \in released THEN InvincibleTicks ELSE invincible[p]]
       /\ arrestGauge' = [p \in Players |->
                            IF p \in released THEN 0 ELSE arrestGauge[p]]
       /\ rescueGauge' = [p \in Players |->
                            IF p \in rescuers THEN (rescueGauge[p] + 1) % RescueTicks
                            ELSE IF p \in released \cup away THEN 0
                            ELSE rescueGauge[p]]

\* CheckPoliceWin.
PoliceWin(players) ==
    /\ Thieves(players) # {}
    /\ \A t \in Thieves(players) : cond[t] = "arrested"

\* CheckThiefWin without its timer: the code of the loop never calls it.
FreeThief(players) == \E t \in Thieves(players) : cond[t] # "arrested"

GameTypeOK ==
    /\ role \in [Players -> Roles]
    /\ cond \in [Players -> Conditions]
    /\ pos \in [Players -> Positions]
    /\ arrestGauge \in [Players -> 0..ArrestTicks - 1]
    /\ rescueGauge \in [Players -> 0..RescueTicks - 1]
    /\ invincible \in [Players -> 0..InvincibleTicks]
==============================================================================
