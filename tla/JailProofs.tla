----------------------------- MODULE JailProofs ------------------------------
(***************************************************************************)
(* Arrest, rescue and invincibility in Room, for any number of players and *)
(* loops and any durations.  What is said of an arrest speaks of the        *)
(* history variables of Tally.                                              *)
(***************************************************************************)
EXTENDS RoomProofs, Tally

USE GameAssumption, RoomAssumption

(***************************************************************************)
(* Invincibility.                                                           *)
(***************************************************************************)

LEMMA InvincibleStep == Core /\ InvincibleHasTimer /\ [Next]_vars => InvincibleHasTimer'
<1> SUFFICES ASSUME Core, InvincibleHasTimer, [Next]_vars PROVE InvincibleHasTimer'
  OBVIOUS
<1> USE DEF Core, TypeOK, GameTypeOK, InvincibleHasTimer, playerVars, gaugeVars
<1>0. ASSUME UNCHANGED <<cond, invincible>> PROVE InvincibleHasTimer'
  BY <1>0
<1>1. CASE UNCHANGED vars
  BY <1>0, <1>1 DEF vars
<1>2. ASSUME NEW p \in Players, Client(p) PROVE InvincibleHasTimer'
  BY <1>0, <1>2 DEF Client, CreateRoom, JoinRoom, LeaveRoom, SelectTeam, PlayerReady, PlayerMove
<1>3. CASE ReturnToLobby
  BY <1>3 DEF ReturnToLobby, Reset, ResetPlayers
<1>4. CASE HubStep
  BY <1>0, <1>4 DEF HubStep, PrepareGame, StartGameLoop, SetPosition, SetRole
<1>5. ASSUME NEW l \in Loops, LoopStep(l) PROVE InvincibleHasTimer'
  <2>1. CASE LoopTick(l)
    BY <2>1 DEF LoopTick, InvincibilityPhase
  <2>2. CASE LoopArrest(l)
    BY <2>2 DEF LoopArrest, ArrestPhase, Chased, Thieves
  <2>3. CASE LoopRescue(l)
    BY <2>3 DEF LoopRescue, RescuePhase, Released, Thieves
  <2> QED
    BY <1>0, <1>5, <2>1, <2>2, <2>3 DEF LoopStep, LoopTop, LoopExit, LoopCheck, LoopTooLate,
                                        LoopStop, LoopAnnounce
<1> QED
  BY <1>1, <1>2, <1>3, <1>4, <1>5 DEF Next, Finished

\* A player is invincible exactly while its timer runs (player.go:153-179,
\* room.go:343-352), so that no reset, restart or change of role makes it
\* invincible for ever.
THEOREM InvincibleCorrect == Spec => []InvincibleHasTimer
<1>1. Init => InvincibleHasTimer
  BY DEF Init, NewPlayers, InvincibleHasTimer
<1> QED
  BY CoreCorrect, InvincibleStep, <1>1, PTL DEF Spec

(***************************************************************************)
(* Players without a side.                                                  *)
(***************************************************************************)

\* A side once chosen is never given back.
Roleless ==
    /\ RolelessStayOut
    /\ hub = "role" => choice[2] # "none"

LEMMA RolelessStep == Core /\ Roleless /\ [Next]_vars => Roleless'
<1> SUFFICES ASSUME Core, Roleless, [Next]_vars PROVE Roleless'
  OBVIOUS
<1> USE DEF Core, TypeOK, GameTypeOK, Roleless, RolelessStayOut, playerVars, gaugeVars, hubVars
<1>0. ASSUME UNCHANGED <<playerVars, hub, choice>> PROVE Roleless'
  BY <1>0
<1>1. CASE UNCHANGED vars
  BY <1>0, <1>1 DEF vars
<1>2. ASSUME NEW p \in Players, Client(p) PROVE Roleless'
  <2>1. ASSUME NEW r \in Roles, SelectTeam(p, r) PROVE Roleless'
    BY <2>1 DEF SelectTeam
  <2>2. ASSUME NEW x \in Positions, PlayerMove(p, x) PROVE Roleless'
    BY <2>2 DEF PlayerMove
  <2>3. CASE PlayerReady(p)
    BY <2>3 DEF PlayerReady
  <2> QED
    BY <1>0, <1>2, <2>1, <2>2, <2>3 DEF Client, CreateRoom, JoinRoom, LeaveRoom
<1>3. CASE ReturnToLobby
  BY <1>3 DEF ReturnToLobby, Reset, ResetPlayers
<1>4. CASE HubStep
  <2>1. CASE SetRole
    BY <2>1 DEF SetRole, LobbyTypeOK
  <2>2. CASE PrepareGame
    BY <2>2 DEF PrepareGame, Spawn
  <2>3. CASE StartGameLoop \/ SetPosition
    BY <2>3 DEF StartGameLoop, SetPosition
  <2> QED
    BY <1>4, <2>1, <2>2, <2>3 DEF HubStep
<1>5. ASSUME NEW l \in Loops, LoopStep(l) PROVE Roleless'
  <2>1. CASE LoopTick(l)
    BY <2>1 DEF LoopTick, InvincibilityPhase
  <2>2. CASE LoopArrest(l)
    BY <2>2 DEF LoopArrest, ArrestPhase, Chased, Thieves
  <2>3. CASE LoopRescue(l)
    BY <2>3 DEF LoopRescue, RescuePhase, Released, Rescuers, Thieves
  <2> QED
    BY <1>0, <1>5, <2>1, <2>2, <2>3 DEF LoopStep, LoopTop, LoopExit, LoopCheck, LoopTooLate,
                                        LoopStop, LoopAnnounce
<1> QED
  BY <1>1, <1>2, <1>3, <1>4, <1>5 DEF Next, Finished

\* A player without a side is out of every arrest and rescue, whenever it joined
\* (lobby.go:76-81, collision.go:44-79, room.go:343-405).
THEOREM RolelessCorrect == Spec => []RolelessStayOut
<1>1. Init => Roleless
  BY DEF Init, NewPlayers, Roleless, RolelessStayOut
<1>2. Roleless => RolelessStayOut
  BY DEF Roleless
<1> QED
  BY CoreCorrect, RolelessStep, <1>1, <1>2, PTL DEF Spec

(***************************************************************************)
(* Rescue.                                                                  *)
(***************************************************************************)

\* Whoever gets out of jail in a step of a loop is released by that loop, and the
\* loop releases all the thieves of its tick or none.
LEMMA RescueStep ==
    ASSUME Core, Next, NEW p \in Players, Freed(p), ~Resetting
    PROVE  \E l \in Loops : /\ Rescuing(l)
                            /\ Rescuers(list[l]) # {}
                            /\ \A t \in Thieves(list[l]) : cond'[t] # "arrested"
<1> USE DEF Core, TypeOK, GameTypeOK, playerVars, Freed
<1>1. ASSUME NEW q \in Players, Client(q) PROVE FALSE
  BY <1>1 DEF Client, CreateRoom, JoinRoom, LeaveRoom, SelectTeam, PlayerReady, PlayerMove
<1>2. CASE ReturnToLobby
  BY <1>2 DEF ReturnToLobby, Reset, Resetting
<1>3. CASE HubStep
  BY <1>3 DEF HubStep, PrepareGame, StartGameLoop, SetPosition, SetRole
<1>4. ASSUME NEW l \in Loops, LoopStep(l)
      PROVE  /\ Rescuing(l)
             /\ Rescuers(list[l]) # {}
             /\ \A t \in Thieves(list[l]) : cond'[t] # "arrested"
  <2>1. CASE LoopRescue(l)
    <3>1. p \in Released(list[l])
      BY <2>1 DEF LoopRescue, RescuePhase
    <3>2. /\ Released(list[l]) = {t \in Thieves(list[l]) : cond[t] = "arrested"}
          /\ Rescuers(list[l]) # {}
      BY <3>1 DEF Released
    <3>3. ASSUME NEW t \in Thieves(list[l]) PROVE cond'[t] # "arrested"
      <4>1. t \in Players
        BY DEF Thieves, LoopTypeOK
      <4> QED
        BY <2>1, <3>2, <4>1 DEF LoopRescue, RescuePhase
    <3>4. Rescuing(l)
      BY <2>1 DEF LoopRescue, LoopTypeOK, Rescuing
    <3> QED
      BY <3>2, <3>3, <3>4
  <2>2. CASE LoopTick(l)
    BY <2>2 DEF LoopTick, InvincibilityPhase
  <2>3. CASE LoopArrest(l)
    BY <2>3 DEF LoopArrest, ArrestPhase
  <2> QED
    BY <1>4, <2>1, <2>2, <2>3 DEF LoopStep, LoopTop, LoopExit, LoopCheck, LoopTooLate,
                                  LoopStop, LoopAnnounce
<1> QED
  BY <1>1, <1>2, <1>3, <1>4 DEF Next, Finished, vars

\* A rescue frees every arrested thief of the tick (room.go:386-396) and, but for
\* the return to the lobby, nothing else frees anybody.
THEOREM RescueCorrect == Spec => RescueFreesAll
<1>1. Core /\ [Next]_vars =>
        [\A p \in Players : Freed(p) /\ ~Resetting =>
           \E l \in Loops : /\ Rescuing(l)
                            /\ Rescuers(list[l]) # {}
                            /\ \A t \in Thieves(list[l]) : cond'[t] # "arrested"]_vars
  BY RescueStep
<1> QED
  BY CoreCorrect, <1>1, PTL DEF Spec, RescueFreesAll

(***************************************************************************)
(* Arrest.                                                                  *)
(***************************************************************************)

\* While a loop holds the lock nobody joins or leaves, so that its list is the
\* members.  The room is made without the lock, when there is no loop yet.
Locked ==
    /\ listing = "none" => hub = "idle" /\ \A l \in Loops : pc[l] = "none"
    /\ \A l \in Loops : pc[l] \in {"arrest", "rescue"} => list[l] = members

LEMMA LockedStep == Core /\ Newcomers /\ Locked /\ [Next]_vars => Locked'
<1> SUFFICES ASSUME Core, Newcomers, Locked, [Next]_vars PROVE Locked'
  OBVIOUS
<1> USE DEF Core, TypeOK, LoopTypeOK, Locked, lobbyVars, hubVars, loopVars
<1>1. CASE UNCHANGED vars
  BY <1>1 DEF vars
<1>2. ASSUME NEW p \in Players, Client(p) PROVE Locked'
  <2>1. CASE CreateRoom(p)
    BY <2>1 DEF CreateRoom
  <2>2. CASE JoinRoom(p) \/ LeaveRoom(p)
    BY <2>2 DEF JoinRoom, LeaveRoom, MuFree
  <2>3. listing = "none" => members = {}
    BY DEF Newcomers
  <2> QED
    BY <1>2, <2>1, <2>2, <2>3 DEF Client, SelectTeam, PlayerReady, PlayerMove
<1>3. CASE ReturnToLobby \/ HubStep
  BY <1>3 DEF ReturnToLobby, HubStep, PrepareGame, StartGameLoop, SetPosition, SetRole
<1>4. ASSUME NEW l \in Loops, LoopStep(l) PROVE Locked'
  <2>1. CASE LoopTick(l)
    BY <2>1 DEF LoopTick
  <2>2. CASE LoopCheck(l)
    BY <2>2 DEF LoopCheck
  <2> QED
    BY <1>4, <2>1, <2>2 DEF LoopStep, LoopTop, LoopExit, LoopArrest, LoopRescue, LoopTooLate,
                            LoopStop, LoopAnnounce
<1> QED
  BY <1>1, <1>2, <1>3, <1>4 DEF Next, Finished

LEMMA LockedCorrect == Spec => []Locked
<1>1. Init => Locked
  BY DEF Init, Locked
<1> QED
  BY CoreCorrect, NewcomersCorrect, LockedStep, <1>1, PTL DEF Spec

\* The histories of Tally take nothing away from Room.
LEMMA TallyIsRoom == TallySpec => Spec
<1>1. TallyInit => Init
  BY DEF TallyInit
<1>2. [TallyNext]_tallyVars => [Next]_vars
  BY DEF TallyNext, tallyVars
<1> QED
  BY <1>1, <1>2, PTL DEF TallySpec, Spec

\* One tick adds at most MaxPolice to a gauge.
LEMMA ExposureBound ==
    ASSUME Core, Newcomers, Locked, NEW l \in Loops, pc[l] = "arrest", NEW p \in Players
    PROVE  /\ Exposure(list[l], p) \in Nat
           /\ Exposure(list[l], p) <= arrestGauge[p] + MaxPolice
<1>1. list[l] = members
  BY DEF Locked
<1>2. members \in SUBSET Players
  BY DEF Core, TypeOK, LobbyTypeOK
<1>3. Exposure(list[l], p) \in Nat
  BY <1>1, <1>2, ExposureIsNat DEF Core, TypeOK
<1>4. Chasers(members, p) \subseteq Cops(members) /\ IsFiniteSet(Cops(members))
  BY <1>2, FS_Subset DEF Chasers, Cops
<1>5. /\ Cardinality(Chasers(members, p)) <= Cardinality(Cops(members))
      /\ Cardinality(Chasers(members, p)) \in Nat
      /\ Cardinality(Cops(members)) \in Nat
  BY <1>4, FS_Subset, FS_CardinalityType
<1>6. Cardinality(Chasers(members, p)) <= MaxPolice
  BY <1>5 DEF Newcomers, WithinLimits
<1>7. arrestGauge[p] \in Nat
  BY DEF Core, TypeOK, GameTypeOK
<1> QED
  BY <1>1, <1>3, <1>5, <1>6, <1>7 DEF Exposure

\* Only the arrest mechanics arrest, and only a free thief whose gauge is full.
LEMMA OnlyChasedArrested ==
    ASSUME Core, [Next]_vars, NEW p \in Players, Arrested(p)
    PROVE  \E l \in Loops : /\ pc[l] = "arrest"
                            /\ p \in Chased(list[l])
                            /\ Exposure(list[l], p) >= ArrestTicks
<1> USE DEF Core, TypeOK, GameTypeOK, playerVars, Arrested
<1>1. CASE UNCHANGED vars
  BY <1>1 DEF vars
<1>2. ASSUME NEW q \in Players, Client(q) PROVE FALSE
  BY <1>2 DEF Client, CreateRoom, JoinRoom, LeaveRoom, SelectTeam, PlayerReady, PlayerMove
<1>3. CASE ReturnToLobby \/ HubStep
  BY <1>3 DEF ReturnToLobby, Reset, ResetPlayers, HubStep, PrepareGame, StartGameLoop, SetPosition, SetRole
<1>4. ASSUME NEW l \in Loops, LoopStep(l)
      PROVE  /\ pc[l] = "arrest"
             /\ p \in Chased(list[l])
             /\ Exposure(list[l], p) >= ArrestTicks
  <2>1. CASE LoopArrest(l)
    BY <2>1 DEF LoopArrest, ArrestPhase
  <2>2. CASE LoopTick(l)
    BY <2>2 DEF LoopTick, InvincibilityPhase
  <2>3. CASE LoopRescue(l)
    BY <2>3 DEF LoopRescue, RescuePhase
  <2> QED
    BY <1>4, <2>1, <2>2, <2>3 DEF LoopStep, LoopTop, LoopExit, LoopCheck, LoopTooLate,
                                  LoopStop, LoopAnnounce
<1> QED
  BY <1>1, <1>2, <1>3, <1>4 DEF Next, Finished

\* The gauge of a player that is not in jail is paid for by ticks in range.
Paying ==
    /\ near \in [Players -> Nat]
    /\ \A p \in Players : cond[p] # "arrested" => arrestGauge[p] <= MaxPolice * near[p]

\* A gauge that does not grow stays paid for, unless the count starts again; it
\* does so for who is arrested, and for who has an empty gauge.
LEMMA PayingKept ==
    ASSUME Core, Paying, CountNear, NEW p \in Players, cond'[p] # "arrested",
           arrestGauge'[p] \in Nat, arrestGauge'[p] <= arrestGauge[p],
           Freed(p) \/ (Resetting /\ p \in members) => arrestGauge'[p] = 0
    PROVE  arrestGauge'[p] <= MaxPolice * near'[p]
<1> DEFINE m == MaxPolice
           n == near[p]
<1>1. n \in Nat /\ m \in Nat /\ arrestGauge[p] \in Nat
  BY DEF Paying, Core, TypeOK, GameTypeOK
<1>2. near'[p] \in {0, n, n + 1}
  BY DEF CountNear
<1>3. m * 0 = 0 /\ m * (n + 1) = m * n + m /\ m * n \in Nat
  BY <1>1
<1>4. CASE Freed(p) \/ (Resetting /\ p \in members)
  BY <1>1, <1>2, <1>3, <1>4
<1>5. CASE ~(Freed(p) \/ (Resetting /\ p \in members))
  <2>1. near'[p] \in {n, n + 1} /\ cond[p] # "arrested"
    BY <1>5 DEF CountNear, Arrested, Freed
  <2>2. arrestGauge[p] <= m * n
    BY <2>1 DEF Paying
  <2> HIDE DEF m, n
  <2>3. arrestGauge'[p] <= m * near'[p]
    BY <1>1, <1>3, <2>1, <2>2
  <2> QED
    BY <2>3 DEF m
<1> QED
  BY <1>4, <1>5

LEMMA PayingStep ==
    Core /\ Core' /\ Newcomers /\ Locked /\ Paying /\ [TallyNext]_tallyVars => Paying'
<1> SUFFICES ASSUME Core, Core', Newcomers, Locked, Paying, [TallyNext]_tallyVars PROVE Paying'
  OBVIOUS
<1> USE DEF playerVars, gaugeVars
<1>1. CASE UNCHANGED tallyVars
  BY <1>1 DEF tallyVars, vars, Paying
<1>2. CASE TallyNext
  <2> Next /\ CountNear
    BY <1>2 DEF TallyNext
  <2>1. near' \in [Players -> Nat]
    BY DEF CountNear, Paying
  <2> SUFFICES ASSUME NEW p \in Players, cond'[p] # "arrested"
               PROVE  arrestGauge'[p] <= MaxPolice * near'[p]
    BY <2>1 DEF Paying
  <2>2. arrestGauge'[p] \in Nat /\ arrestGauge[p] \in Nat
    BY DEF Core, TypeOK, GameTypeOK
  <2>3. ASSUME UNCHANGED <<cond, arrestGauge>>, ~Resetting
        PROVE  arrestGauge'[p] <= MaxPolice * near'[p]
    BY <2>2, <2>3, PayingKept DEF Freed
  <2>4. ASSUME NEW q \in Players, Client(q) PROVE UNCHANGED <<cond, arrestGauge>> /\ ~Resetting
    BY <2>4 DEF Client, CreateRoom, JoinRoom, LeaveRoom, SelectTeam, PlayerReady, PlayerMove,
                gameVars, Resetting
  <2>5. CASE ReturnToLobby
    BY <2>2, <2>5, PayingKept DEF ReturnToLobby, Reset, ResetPlayers, Freed, Core, TypeOK, GameTypeOK
  <2>6. ASSUME HubStep PROVE UNCHANGED <<cond, arrestGauge>> /\ ~Resetting
    BY <2>6 DEF HubStep, PrepareGame, StartGameLoop, SetPosition, SetRole, gameVars, Resetting
  <2>7. ASSUME NEW l \in Loops, LoopStep(l) PROVE arrestGauge'[p] <= MaxPolice * near'[p]
    <3>1. CASE LoopArrest(l)
      <4>1. CASE p \in Chased(list[l])
        <5>1. pc[l] = "arrest" /\ pc'[l] = "rescue"
          BY <3>1 DEF LoopArrest, Core, TypeOK, LoopTypeOK
        <5>2. cond[p] = "free" /\ ~Arrested(p) /\ ~Freed(p)
          BY <4>1 DEF Chased, Arrested, Freed
        <5>3. near'[p] = near[p] + 1
          BY <3>1, <4>1, <5>1, <5>2 DEF CountNear, Arresting, LoopArrest, gameVars, Resetting
        <5>4. /\ Exposure(list[l], p) \in Nat
              /\ Exposure(list[l], p) <= arrestGauge[p] + MaxPolice
          BY <5>1, ExposureBound
        <5>5. arrestGauge'[p] = Exposure(list[l], p)
          <6>1. ~(Exposure(list[l], p) >= ArrestTicks)
            BY <3>1, <4>1 DEF LoopArrest, ArrestPhase
          <6>2. arrestGauge'[p] = Exposure(list[l], p) % ArrestTicks
            BY <3>1, <4>1 DEF LoopArrest, ArrestPhase
          <6> HIDE DEF Exposure
          <6> QED
            BY <5>4, <6>1, <6>2
        <5>6. arrestGauge[p] <= MaxPolice * near[p]
          BY <5>2 DEF Paying
        <5>7. near[p] \in Nat
          BY DEF Paying
        <5>8. MaxPolice * (near[p] + 1) = MaxPolice * near[p] + MaxPolice
          BY <5>7
        <5> QED
          BY <2>2, <5>3, <5>4, <5>5, <5>6, <5>7, <5>8
      <4>2. CASE p \notin Chased(list[l])
        BY <2>2, <3>1, <4>2, PayingKept DEF LoopArrest, ArrestPhase, Freed, Resetting, gameVars
      <4> QED
        BY <4>1, <4>2
    <3>2. CASE LoopRescue(l)
      <4>1. arrestGauge'[p] = 0 \/ (arrestGauge'[p] = arrestGauge[p] /\ cond'[p] = cond[p])
        BY <3>2 DEF LoopRescue, RescuePhase, Core, TypeOK, GameTypeOK
      <4>2. ~Resetting
        BY <3>2 DEF LoopRescue, gameVars, Resetting
      <4> QED
        BY <2>2, <4>1, <4>2, PayingKept DEF Freed
    <3>3. CASE LoopTick(l)
      <4>1. arrestGauge' = arrestGauge /\ ~Resetting
        BY <3>3 DEF LoopTick, Resetting
      <4>2. ~Freed(p)
        BY <3>3 DEF LoopTick, InvincibilityPhase, Freed
      <4> QED
        BY <2>2, <4>1, <4>2, PayingKept
    <3> QED
      BY <2>3, <2>7, <3>1, <3>2, <3>3 DEF LoopStep, LoopTop, LoopExit, LoopCheck, LoopTooLate,
                                          LoopStop, LoopAnnounce, gameVars, Resetting
  <2> QED
    BY <2>3, <2>4, <2>5, <2>6, <2>7 DEF Next, Finished, vars, gameVars, Resetting
<1> QED
  BY <1>1, <1>2

LEMMA ArrestStep ==
    ASSUME Core, Newcomers, Locked, Paying, [Next]_vars, NEW p \in Players, Arrested(p)
    PROVE  /\ role[p] = "thief"
           /\ cond[p] = "free"
           /\ MaxPolice * (near[p] + 1) >= ArrestTicks
<1>1. PICK l \in Loops : /\ pc[l] = "arrest"
                         /\ p \in Chased(list[l])
                         /\ Exposure(list[l], p) >= ArrestTicks
  BY OnlyChasedArrested
<1>2. role[p] = "thief" /\ cond[p] = "free"
  BY <1>1 DEF Chased, Thieves
<1>3. /\ Exposure(list[l], p) \in Nat
      /\ Exposure(list[l], p) <= arrestGauge[p] + MaxPolice
  BY <1>1, ExposureBound
<1>4. arrestGauge[p] \in Nat /\ near[p] \in Nat /\ arrestGauge[p] <= MaxPolice * near[p]
  BY <1>2 DEF Paying, Core, TypeOK, GameTypeOK
<1>5. MaxPolice * (near[p] + 1) = MaxPolice * near[p] + MaxPolice
  BY <1>4
<1> QED
  BY <1>1, <1>2, <1>3, <1>4, <1>5

\* Nobody is arrested but a free thief that policemen were near to for the time
\* an arrest takes, several of them counting together (room.go:368-381): no gauge
\* outlives an arrest, a release, a game or a change of role to its harm.
THEOREM ArrestCorrect == TallySpec => ArrestNeedsTime
<1>1. TallyInit => Paying
  BY DEF TallyInit, Init, NewPlayers, Paying
<1>2. TallySpec => [](Core /\ Newcomers /\ Locked)
  BY TallyIsRoom, CoreCorrect, NewcomersCorrect, LockedCorrect, PTL
<1>3. Core /\ Newcomers /\ Locked /\ Paying /\ [TallyNext]_tallyVars =>
        [\A p \in Players : Arrested(p) =>
           /\ role[p] = "thief"
           /\ cond[p] = "free"
           /\ MaxPolice * (near[p] + 1) >= ArrestTicks]_tallyVars
  <2>1. [TallyNext]_tallyVars => [Next]_vars
    BY DEF TallyNext, tallyVars
  <2> QED
    BY <2>1, ArrestStep
<1> QED
  BY <1>1, <1>2, <1>3, PayingStep, PTL DEF TallySpec, ArrestNeedsTime

(***************************************************************************)
(* The rate of the ticks.                                                   *)
(***************************************************************************)

\* Only a restart in the middle of a game makes a room tick faster than TickRate
\* (lobby.go:192-210, room.go:323-335): without one there are not two loops to
\* listen for the end of the same game.
THEOREM TickRateUnlessRestarted == TallySpec => [](Restarted = {} => TickRateHolds)
<1>1. Core /\ LoopsCounted => (Restarted = {} => TickRateHolds)
  <2> SUFFICES ASSUME Core, LoopsCounted, Restarted = {}, NEW k \in Loops, NEW l \in Loops,
                      pc[k] = "select", pc[l] = "select"
               PROVE  k = l
    BY DEF TickRateHolds
  <2>1. k \in Busy /\ l \in Busy
    BY DEF Busy
  <2> QED
    BY <2>1, SingleLoop
<1> QED
  BY <1>1, TallyIsRoom, CoreCorrect, LoopsCountedCorrect, PTL
==============================================================================
