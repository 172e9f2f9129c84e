----------------------------- MODULE RoomProofs ------------------------------
(***************************************************************************)
(* Proofs about Room, for any number of players, loops and games and any    *)
(* durations.                                                               *)
(***************************************************************************)
EXTENDS Room, FiniteSetTheorems, TLAPS

USE GameAssumption, RoomAssumption

(***************************************************************************)
(* The phases of a tick keep the types of the players.                      *)
(***************************************************************************)

\* The number of policemen near a thief is a number.
LEMMA ExposureIsNat ==
    ASSUME GameTypeOK, NEW S \in SUBSET Players, NEW t \in Players
    PROVE  Exposure(S, t) \in Nat
<1>1. Chasers(S, t) \subseteq Players
  BY DEF Chasers, Cops
<1>2. Cardinality(Chasers(S, t)) \in Nat
  BY <1>1, FS_Subset, FS_CardinalityType
<1> QED
  BY <1>2 DEF Exposure, GameTypeOK

\* The invincibility timers (room.go:343-352) stay within their range.
LEMMA InvincibilityType ==
    ASSUME GameTypeOK, NEW S \in SUBSET Players, InvincibilityPhase(S)
    PROVE  /\ cond' \in [Players -> Conditions]
           /\ invincible' \in [Players -> 0..InvincibleTicks]
<1>1. cond' \in [Players -> Conditions]
  BY DEF GameTypeOK, InvincibilityPhase, Conditions
<1>2. ASSUME NEW p \in Players
      PROVE  invincible'[p] \in 0..InvincibleTicks
  BY DEF GameTypeOK, InvincibilityPhase
<1>3. invincible' = [p \in Players |-> invincible'[p]]
  BY DEF InvincibilityPhase
<1> QED
  BY <1>1, <1>2, <1>3

\* The arrest mechanics (room.go:368-381) never leave a full gauge behind.
LEMMA ArrestType ==
    ASSUME GameTypeOK, NEW S \in SUBSET Players, ArrestPhase(S)
    PROVE  /\ cond' \in [Players -> Conditions]
           /\ arrestGauge' \in [Players -> 0..ArrestTicks - 1]
<1>1. cond' \in [Players -> Conditions]
  BY DEF GameTypeOK, ArrestPhase, Conditions
<1>2. ArrestTicks \in Nat /\ ArrestTicks > 0
  OBVIOUS
<1>3. ASSUME NEW p \in Players
      PROVE  Exposure(S, p) % ArrestTicks \in 0..ArrestTicks - 1
  BY <1>2, ExposureIsNat
<1> QED
  BY <1>1, <1>3 DEF GameTypeOK, ArrestPhase

\* The rescue mechanics (room.go:383-405) never leave a full gauge behind.
LEMMA RescueType ==
    ASSUME GameTypeOK, NEW S \in SUBSET Players, RescuePhase(S)
    PROVE  /\ cond' \in [Players -> Conditions]
           /\ invincible' \in [Players -> 0..InvincibleTicks]
           /\ arrestGauge' \in [Players -> 0..ArrestTicks - 1]
           /\ rescueGauge' \in [Players -> 0..RescueTicks - 1]
<1>1. cond' \in [Players -> Conditions]
  BY DEF GameTypeOK, RescuePhase, Conditions
<1>2. invincible' \in [Players -> 0..InvincibleTicks]
  BY DEF GameTypeOK, RescuePhase
<1>3. arrestGauge' \in [Players -> 0..ArrestTicks - 1]
  BY DEF GameTypeOK, RescuePhase
<1>4. ASSUME NEW p \in Players
      PROVE  (rescueGauge[p] + 1) % RescueTicks \in 0..RescueTicks - 1
  BY DEF GameTypeOK
<1>5. rescueGauge' \in [Players -> 0..RescueTicks - 1]
  BY <1>4 DEF GameTypeOK, RescuePhase
<1> QED
  BY <1>1, <1>2, <1>3, <1>5

\* Player.Reset (player.go:166-179).
LEMMA ResetType ==
    ASSUME GameTypeOK, NEW S \in SUBSET Players, ResetPlayers(S), UNCHANGED role
    PROVE  GameTypeOK'
BY DEF GameTypeOK, ResetPlayers, Conditions

(***************************************************************************)
(* Type correctness and the stop channel.                                   *)
(***************************************************************************)

\* Closing the channel keeps closed within the channels that were made only
\* because a playing room has a channel, so that the two are proved together.
Core == TypeOK /\ ChannelTracksState

LEMMA CoreInit == Init => Core
<1> SUFFICES ASSUME Init PROVE Core
  OBVIOUS
<1>1. GameTypeOK
  BY DEF Init, NewPlayers, GameTypeOK, Roles, Conditions
<1>2. LobbyTypeOK
  BY DEF Init, LobbyTypeOK, NoMove, NoChoice, Roles
<1>3. LoopTypeOK
  BY DEF Init, LoopTypeOK
<1> QED
  BY <1>1, <1>2, <1>3 DEF Core, TypeOK, Init, ChannelTracksState

\* The variables of the players keep their types in every step.
LEMMA GameTypeStep == Core /\ [Next]_vars => GameTypeOK'
<1> SUFFICES ASSUME Core, [Next]_vars PROVE GameTypeOK'
  OBVIOUS
<1> USE DEF Core, TypeOK, playerVars, gaugeVars
<1>1. ASSUME UNCHANGED playerVars PROVE GameTypeOK'
  BY <1>1 DEF GameTypeOK
<1>2. CASE UNCHANGED vars
  BY <1>1, <1>2 DEF vars
<1>3. ASSUME NEW p \in Players, Client(p) PROVE GameTypeOK'
  BY <1>1, <1>3 DEF Client, CreateRoom, JoinRoom, LeaveRoom, PlayerReady, SelectTeam, PlayerMove
<1>4. CASE ReturnToLobby
  BY <1>4, ResetType DEF ReturnToLobby, Reset, LobbyTypeOK
<1>5. CASE HubStep
  <2>1. CASE PrepareGame
    BY <2>1 DEF PrepareGame, Spawn, GameTypeOK, LobbyTypeOK
  <2>2. CASE StartGameLoop
    BY <1>1, <2>2 DEF StartGameLoop
  <2>3. CASE SetPosition
    BY <2>3 DEF SetPosition, GameTypeOK, LobbyTypeOK
  <2>4. CASE SetRole
    BY <2>4 DEF SetRole, GameTypeOK, LobbyTypeOK
  <2> QED
    BY <1>5, <2>1, <2>2, <2>3, <2>4 DEF HubStep
<1>6. ASSUME NEW l \in Loops, LoopStep(l) PROVE GameTypeOK'
  <2> list[l] \in SUBSET Players /\ members \in SUBSET Players
    BY DEF LoopTypeOK, LobbyTypeOK
  <2>1. CASE LoopTop(l) \/ LoopExit(l) \/ LoopCheck(l) \/ LoopTooLate(l)
             \/ LoopStop(l) \/ LoopAnnounce(l)
    BY <1>1, <2>1 DEF LoopTop, LoopExit, LoopCheck, LoopTooLate, LoopStop, LoopAnnounce
  <2>2. CASE LoopTick(l)
    BY <2>2, InvincibilityType DEF LoopTick, GameTypeOK
  <2>3. CASE LoopArrest(l)
    BY <2>3, ArrestType DEF LoopArrest, GameTypeOK
  <2>4. CASE LoopRescue(l)
    BY <2>4, RescueType DEF LoopRescue, GameTypeOK
  <2> QED
    BY <1>6, <2>1, <2>2, <2>3, <2>4 DEF LoopStep
<1> QED
  BY <1>2, <1>3, <1>4, <1>5, <1>6 DEF Next, Finished

\* The variables of the lobby and of the hub keep their types.
LEMMA LobbyTypeStep == Core /\ [Next]_vars => LobbyTypeOK'
<1> SUFFICES ASSUME Core, [Next]_vars PROVE LobbyTypeOK'
  OBVIOUS
<1> USE DEF Core, TypeOK, lobbyVars, hubVars
<1>1. ASSUME UNCHANGED <<lobbyVars, hubVars>> PROVE LobbyTypeOK'
  BY <1>1 DEF LobbyTypeOK
<1>2. CASE UNCHANGED vars
  BY <1>1, <1>2 DEF vars
<1>3. ASSUME NEW p \in Players, Client(p) PROVE LobbyTypeOK'
  <2>1. CASE CreateRoom(p)
    BY <2>1 DEF CreateRoom, AddPlayer, LobbyTypeOK
  <2>2. CASE JoinRoom(p)
    BY <2>2 DEF JoinRoom, AddPlayer, LobbyTypeOK
  <2>3. CASE LeaveRoom(p)
    BY <2>3 DEF LeaveRoom, RemovePlayer, LobbyTypeOK
  <2>4. CASE PlayerReady(p)
    BY <2>4 DEF PlayerReady, LobbyTypeOK
  <2>5. ASSUME NEW r \in Roles, SelectTeam(p, r) PROVE LobbyTypeOK'
    BY <2>5 DEF SelectTeam, LobbyTypeOK, Roles
  <2>6. ASSUME NEW x \in Positions, PlayerMove(p, x) PROVE LobbyTypeOK'
    BY <2>6 DEF PlayerMove, LobbyTypeOK
  <2> QED
    BY <1>3, <2>1, <2>2, <2>3, <2>4, <2>5, <2>6 DEF Client
<1>4. CASE ReturnToLobby
  BY <1>4 DEF ReturnToLobby, Reset, LobbyTypeOK
<1>5. CASE HubStep
  BY <1>5 DEF HubStep, PrepareGame, StartGameLoop, SetPosition, SetRole, LobbyTypeOK, NoMove, NoChoice,
              Roles
<1>6. ASSUME NEW l \in Loops, LoopStep(l) PROVE LobbyTypeOK'
  BY <1>1, <1>6 DEF LoopStep, LoopTop, LoopExit, LoopTick, LoopArrest, LoopRescue, LoopCheck,
                    LoopTooLate, LoopStop, LoopAnnounce
<1> QED
  BY <1>2, <1>3, <1>4, <1>5, <1>6 DEF Next, Finished

\* The variables of the games and of the loops keep their types.
LEMMA LoopTypeStep == Core /\ [Next]_vars => LoopTypeOK'
<1> SUFFICES ASSUME Core, [Next]_vars PROVE LoopTypeOK'
  OBVIOUS
<1> USE DEF Core, TypeOK, gameVars, loopVars
<1>1. ASSUME UNCHANGED <<gameVars, loopVars, overs>> PROVE LoopTypeOK'
  BY <1>1 DEF LoopTypeOK
<1>2. CASE UNCHANGED vars
  BY <1>1, <1>2 DEF vars
<1>3. ASSUME NEW p \in Players, Client(p) PROVE LoopTypeOK'
  BY <1>1, <1>3 DEF Client, CreateRoom, JoinRoom, LeaveRoom, PlayerReady, SelectTeam, PlayerMove
<1>4. CASE ReturnToLobby
  BY <1>4 DEF ReturnToLobby, Reset, LoopTypeOK
<1>5. CASE HubStep
  <2>1. CASE PrepareGame
    <3>1. closed \subseteq 1..stopCh + 1 /\ ch \in [Loops -> 0..stopCh + 1]
      BY DEF LoopTypeOK
    <3> QED
      BY <2>1, <3>1 DEF PrepareGame, LoopTypeOK
  <2>2. CASE StartGameLoop
    BY <2>2 DEF StartGameLoop, LoopTypeOK
  <2>3. CASE SetPosition \/ SetRole
    BY <1>1, <2>3 DEF SetPosition, SetRole
  <2> QED
    BY <1>5, <2>1, <2>2, <2>3 DEF HubStep
<1>6. ASSUME NEW l \in Loops, LoopStep(l) PROVE LoopTypeOK'
  <2> 0 \in 0..stopCh /\ stopCh \in 0..stopCh
    BY DEF LoopTypeOK
  <2>0. CASE LoopTop(l)
    BY <2>0 DEF LoopTop, LoopTypeOK
  <2>1. CASE LoopExit(l)
    BY <2>1 DEF LoopExit, LoopTypeOK
  <2>2. CASE LoopTick(l)
    BY <2>2 DEF LoopTick, Countdown, LoopTypeOK, LobbyTypeOK
  <2>3. CASE LoopArrest(l) \/ LoopRescue(l)
    BY <2>3 DEF LoopArrest, LoopRescue, LoopTypeOK
  <2>4. CASE LoopCheck(l)
    BY <2>4 DEF LoopCheck, LoopTypeOK
  <2>5. CASE LoopTooLate(l)
    BY <2>5 DEF LoopTooLate, LoopTypeOK
  <2>6. CASE LoopStop(l)
    BY <2>6 DEF LoopStop, LoopTypeOK, ChannelTracksState
  <2>7. CASE LoopAnnounce(l)
    <3>1. overs' \in [Games -> Nat]
      <4>1. overs' = [g \in Games |-> IF g = ch[l] THEN overs[g] + 1 ELSE overs[g]]
        BY <2>7 DEF LoopAnnounce, LoopTypeOK
      <4> QED
        BY <4>1 DEF LoopTypeOK
    <3>2. ch' \in [Loops -> 0..stopCh']
      BY <2>7 DEF LoopAnnounce, LoopTypeOK
    <3> QED
      BY <2>7, <3>1, <3>2 DEF LoopAnnounce, LoopTypeOK
  <2> QED
    BY <1>6, <2>0, <2>1, <2>2, <2>3, <2>4, <2>5, <2>6, <2>7 DEF LoopStep
<1> QED
  BY <1>2, <1>3, <1>4, <1>5, <1>6 DEF Next, Finished

\* Only PrepareGame, StopGame and Reset touch the state of the room, and each of
\* them keeps the channel in step.
LEMMA ChannelStep == Core /\ [Next]_vars => ChannelTracksState'
<1> SUFFICES ASSUME Core, [Next]_vars PROVE ChannelTracksState'
  OBVIOUS
<1> USE DEF Core, TypeOK, LoopTypeOK, ChannelTracksState, gameVars
<1>1. ASSUME UNCHANGED <<state, stopCh, closed>> PROVE ChannelTracksState'
  BY <1>1
<1>2. CASE UNCHANGED vars
  BY <1>1, <1>2 DEF vars
<1>3. ASSUME NEW p \in Players, Client(p) PROVE ChannelTracksState'
  BY <1>1, <1>3 DEF Client, CreateRoom, JoinRoom, LeaveRoom, PlayerReady, SelectTeam, PlayerMove
<1>4. CASE ReturnToLobby
  BY <1>4 DEF ReturnToLobby, Reset
<1>5. CASE HubStep
  <2>1. CASE PrepareGame
    <3>1. stopCh + 1 \notin closed
      OBVIOUS
    <3> QED
      BY <2>1, <3>1 DEF PrepareGame
  <2> QED
    BY <1>1, <1>5, <2>1 DEF HubStep, StartGameLoop, SetPosition, SetRole
<1>6. ASSUME NEW l \in Loops, LoopStep(l) PROVE ChannelTracksState'
  <2>1. CASE LoopStop(l)
    BY <2>1 DEF LoopStop
  <2> QED
    BY <1>1, <1>6, <2>1 DEF LoopStep, LoopTop, LoopExit, LoopTick, LoopArrest, LoopRescue,
                            LoopCheck, LoopTooLate, LoopAnnounce
<1> QED
  BY <1>2, <1>3, <1>4, <1>5, <1>6 DEF Next, Finished

LEMMA CoreStep == Core /\ [Next]_vars => Core'
BY GameTypeStep, LobbyTypeStep, LoopTypeStep, ChannelStep DEF Core, TypeOK

LEMMA CoreCorrect == Spec => []Core
BY CoreInit, CoreStep, PTL DEF Spec

\* Every variable of the room has its type, in every reachable state.
THEOREM TypeCorrect == Spec => []TypeOK
<1>1. Core => TypeOK
  BY DEF Core
<1> QED
  BY CoreCorrect, <1>1, PTL

\* The stop channel is open exactly while a game is played (room.go:228-291): no
\* loop is stopped by the end of another game, nothing is closed twice.
THEOREM ChannelCorrect == Spec => []ChannelTracksState
<1>1. Core => ChannelTracksState
  BY DEF Core
<1> QED
  BY CoreCorrect, <1>1, PTL

(***************************************************************************)
(* A playing room has a loop.                                               *)
(***************************************************************************)

\* A step that does not touch the game nor the loops keeps what keeps it alive.
LEMMA SameLoops ==
    ASSUME PlayingHasLoop, UNCHANGED <<state, closed, pc, ch>>, hub = "start" => hub' = "start"
    PROVE  PlayingHasLoop'
BY DEF PlayingHasLoop, Live

\* The loop that a playing room has stays live in each of its own steps, save in
\* the one that ends the game; the steps of other loops do not touch it.
LEMMA PlayingHasLoopStep == Core /\ PlayingHasLoop /\ [Next]_vars => PlayingHasLoop'
<1> SUFFICES ASSUME Core, PlayingHasLoop, [Next]_vars PROVE PlayingHasLoop'
  OBVIOUS
<1> USE DEF Core, TypeOK, gameVars, loopVars, hubVars
<1>1. CASE UNCHANGED vars
  BY <1>1, SameLoops DEF vars
<1>2. ASSUME NEW p \in Players, Client(p) PROVE PlayingHasLoop'
  BY <1>2, SameLoops DEF Client, CreateRoom, JoinRoom, LeaveRoom, PlayerReady, SelectTeam,
                         PlayerMove
<1>3. CASE ReturnToLobby
  BY <1>3 DEF ReturnToLobby, Reset, PlayingHasLoop
<1>4. CASE HubStep
  <2>1. CASE PrepareGame
    BY <2>1 DEF PrepareGame, PlayingHasLoop
  <2>2. CASE StartGameLoop
    <3>1. PICK l \in Loops : pc[l] = "none" /\ pc' = [pc EXCEPT ![l] = "top"]
      BY <2>2 DEF StartGameLoop
    <3>2. Live(l)'
      BY <3>1 DEF Live, LoopTypeOK
    <3> QED
      BY <3>2 DEF PlayingHasLoop
  <2>3. CASE SetPosition \/ SetRole
    BY <2>3, SameLoops DEF SetPosition, SetRole
  <2> QED
    BY <1>4, <2>1, <2>2, <2>3 DEF HubStep
<1>5. ASSUME NEW l \in Loops, LoopStep(l) PROVE PlayingHasLoop'
  <2>1. CASE LoopStop(l)
    BY <2>1 DEF LoopStop, PlayingHasLoop
  <2>2. ASSUME ~LoopStop(l) PROVE UNCHANGED <<state, closed, stopCh, hub>>
    BY <1>5, <2>2 DEF LoopStep, LoopTop, LoopExit, LoopTick, LoopArrest, LoopRescue,
                      LoopCheck, LoopTooLate, LoopAnnounce
  <2>3. ASSUME NEW k \in Loops, k # l, Live(k), ~LoopStop(l) PROVE Live(k)'
    <3>1. pc'[k] = pc[k] /\ ch'[k] = ch[k]
      BY <1>5, <2>3 DEF LoopStep, LoopTop, LoopExit, LoopTick, LoopArrest, LoopRescue,
                        LoopCheck, LoopTooLate, LoopAnnounce, LoopTypeOK
    <3> QED
      BY <2>2, <2>3, <3>1 DEF Live
  <2>4. ASSUME Live(l), ~LoopStop(l), state = "playing" PROVE Live(l)'
    <3>1. CASE LoopTop(l)
      BY <2>4, <3>1 DEF LoopTop, Live, LoopTypeOK, ChannelTracksState
    <3>2. CASE LoopTick(l) \/ LoopArrest(l) \/ LoopRescue(l) \/ LoopCheck(l)
      BY <2>4, <3>2 DEF LoopTick, LoopArrest, LoopRescue, LoopCheck, Live, LoopTypeOK
    <3> QED
      BY <1>5, <2>4, <3>1, <3>2 DEF LoopStep, LoopExit, LoopTooLate, LoopAnnounce, Live
  <2> QED
    BY <2>1, <2>2, <2>3, <2>4 DEF PlayingHasLoop
<1> QED
  BY <1>1, <1>2, <1>3, <1>4, <1>5 DEF Next, Finished

\* A game never stays without a goroutine that will end it, however often it is
\* restarted (lobby.go:192-210) and whichever loop ends it (room.go:447-453).
THEOREM PlayingHasLoopCorrect == Spec => []PlayingHasLoop
<1>1. Init => PlayingHasLoop
  BY DEF Init, PlayingHasLoop
<1> QED
  BY CoreCorrect, PlayingHasLoopStep, <1>1, PTL DEF Spec

(***************************************************************************)
(* game_over.                                                               *)
(***************************************************************************)

\* What makes game_over unique: the game a loop is about to announce has ended
\* and was not announced yet, and no other loop is about to announce it.
Announcing ==
    /\ stopCh <= MaxGames
    /\ hub = "prepare" => stopCh < MaxGames
    /\ \A l \in Loops : pc[l] = "announce" => ch[l] \in closed /\ overs[ch[l]] = 0
    /\ \A k, l \in Loops :
         pc[k] = "announce" /\ pc[l] = "announce" /\ ch[k] = ch[l] => k = l
    /\ GameOverOnce

LEMMA AnnouncingInit == Init => Announcing
BY DEF Init, Announcing, GameOverOnce, Games

LEMMA AnnouncingStep == Core /\ Announcing /\ [Next]_vars => Announcing'
<1> SUFFICES ASSUME Core, Announcing, [Next]_vars PROVE Announcing'
  OBVIOUS
<1> USE DEF Core, TypeOK, LoopTypeOK, gameVars, loopVars, hubVars, Games
<1>0. ASSUME UNCHANGED <<stopCh, closed, pc, ch, overs>>, hub' = "prepare" => stopCh < MaxGames
      PROVE  Announcing'
  BY <1>0 DEF Announcing, GameOverOnce
<1>1. CASE UNCHANGED vars
  BY <1>0, <1>1 DEF vars, Announcing
<1>2. ASSUME NEW p \in Players, Client(p) PROVE Announcing'
  <2>1. CASE PlayerReady(p)
    BY <1>0, <2>1 DEF PlayerReady, CanStart
  <2> QED
    BY <1>0, <1>2, <2>1 DEF Client, CreateRoom, JoinRoom, LeaveRoom, SelectTeam, PlayerMove
<1>3. CASE ReturnToLobby
  BY <1>0, <1>3 DEF ReturnToLobby, Reset
<1>4. CASE HubStep
  <2>1. CASE PrepareGame
    BY <2>1 DEF PrepareGame, Announcing, GameOverOnce
  <2>2. CASE StartGameLoop
    BY <2>2 DEF StartGameLoop, Announcing, GameOverOnce
  <2>3. CASE SetPosition \/ SetRole
    BY <1>0, <2>3 DEF SetPosition, SetRole
  <2> QED
    BY <1>4, <2>1, <2>2, <2>3 DEF HubStep
<1>5. ASSUME NEW l \in Loops, LoopStep(l) PROVE Announcing'
  <2>1. CASE LoopTop(l) \/ LoopExit(l) \/ LoopTick(l) \/ LoopArrest(l) \/ LoopRescue(l)
             \/ LoopCheck(l) \/ LoopTooLate(l)
    <3>1. /\ UNCHANGED <<stopCh, closed, overs, hub>>
          /\ pc'[l] # "announce"
          /\ \A k \in Loops \ {l} : pc'[k] = pc[k] /\ ch'[k] = ch[k]
      BY <2>1 DEF LoopTop, LoopExit, LoopTick, LoopArrest, LoopRescue, LoopCheck, LoopTooLate
    <3> QED
      BY <3>1 DEF Announcing, GameOverOnce
  <2>2. CASE LoopStop(l)
    <3>1. stopCh \in Games /\ stopCh \notin closed
      BY <2>2 DEF LoopStop, ChannelTracksState, Announcing
    <3>2. overs[stopCh] = 0
      BY <3>1 DEF Announcing, GameOverOnce
    <3>3. \A k \in Loops : pc[k] = "announce" => ch[k] # stopCh
      BY <3>1 DEF Announcing
    <3>4. /\ UNCHANGED <<stopCh, overs, hub>>
          /\ closed' = closed \cup {stopCh}
          /\ pc'[l] = "announce" /\ ch'[l] = stopCh
          /\ \A k \in Loops \ {l} : pc'[k] = pc[k] /\ ch'[k] = ch[k]
      BY <2>2 DEF LoopStop
    <3>5. \A k \in Loops : pc'[k] = "announce" => ch'[k] \in closed' /\ overs'[ch'[k]] = 0
      BY <3>2, <3>4 DEF Announcing
    <3>6. \A j, k \in Loops :
            pc'[j] = "announce" /\ pc'[k] = "announce" /\ ch'[j] = ch'[k] => j = k
      BY <3>3, <3>4 DEF Announcing
    <3>7. GameOverOnce'
      BY <3>4 DEF Announcing, GameOverOnce
    <3> QED
      BY <3>4, <3>5, <3>6, <3>7 DEF Announcing
  <2>3. CASE LoopAnnounce(l)
    <3>1. ch[l] \in closed /\ ch[l] \in Games /\ overs[ch[l]] = 0
      BY <2>3 DEF LoopAnnounce, Announcing
    <3>2. overs' = [overs EXCEPT ![ch[l]] = 1]
      BY <2>3, <3>1 DEF LoopAnnounce
    <3>3. /\ UNCHANGED <<stopCh, closed, hub>>
          /\ pc'[l] = "none"
          /\ \A k \in Loops \ {l} : pc'[k] = pc[k] /\ ch'[k] = ch[k]
      BY <2>3 DEF LoopAnnounce
    <3>4. \A k \in Loops \ {l} : pc[k] = "announce" => ch[k] # ch[l]
      BY <2>3 DEF LoopAnnounce, Announcing
    <3>5. GameOverOnce'
      BY <3>1, <3>2, <3>3 DEF Announcing, GameOverOnce
    <3>6. \A k \in Loops : pc'[k] = "announce" => ch'[k] \in closed' /\ overs'[ch'[k]] = 0
      <4> SUFFICES ASSUME NEW k \in Loops, pc'[k] = "announce"
                   PROVE  ch'[k] \in closed' /\ overs'[ch'[k]] = 0
        OBVIOUS
      <4>1. k # l /\ pc[k] = "announce" /\ ch'[k] = ch[k] /\ ch[k] # ch[l]
        BY <3>3, <3>4
      <4>2. ch[k] \in closed /\ ch[k] \in Games /\ overs[ch[k]] = 0
        BY <4>1 DEF Announcing
      <4> QED
        BY <3>2, <3>3, <4>1, <4>2
    <3> QED
      BY <3>3, <3>5, <3>6 DEF Announcing
  <2> QED
    BY <1>5, <2>1, <2>2, <2>3 DEF LoopStep
<1> QED
  BY <1>1, <1>2, <1>3, <1>4, <1>5 DEF Next, Finished

LEMMA AnnouncingCorrect == Spec => []Announcing
BY CoreCorrect, AnnouncingInit, AnnouncingStep, PTL DEF Spec

\* game_over is broadcast at most once for a game, and only for one that ended
\* (room.go:263-291), whatever number of loops comes to StopGame.
THEOREM GameOverOnceCorrect == Spec => []GameOverOnce
<1>1. Announcing => GameOverOnce
  BY DEF Announcing
<1> QED
  BY AnnouncingCorrect, <1>1, PTL

(***************************************************************************)
(* How many loops there are.                                                *)
(***************************************************************************)

LEMMA BusyFinite == Busy \subseteq Loops /\ IsFiniteSet(Busy) /\ Cardinality(Busy) \in Nat
BY FS_Subset, FS_CardinalityType DEF Busy

LEMMA RestartedFinite ==
    ASSUME stopCh \in Nat
    PROVE  IsFiniteSet(Restarted) /\ Cardinality(Restarted) \in Nat
<1>1. stopCh - 1 \in Int /\ IsFiniteSet(1..stopCh - 1)
  BY FS_Interval
<1> QED
  BY <1>1, FS_Subset, FS_CardinalityType DEF Restarted

\* Where the games stand, a step may only take loops away.
LEMMA FewerLoops ==
    ASSUME Core, LoopsCounted, Busy' \subseteq Busy, UNCHANGED <<state, stopCh, closed>>,
           hub' = "start" => hub = "start"
    PROVE  LoopsCounted'
<1>1. Cardinality(Busy') <= Cardinality(Busy) /\ IsFiniteSet(Busy')
  BY BusyFinite, FS_Subset
<1>2. Cardinality(Busy') \in Nat /\ Cardinality(Busy) \in Nat
  BY <1>1, BusyFinite, FS_CardinalityType
<1>3. Cardinality(Restarted) \in Nat /\ Restarted' = Restarted
  BY RestartedFinite DEF Core, TypeOK, LoopTypeOK, Restarted
<1> QED
  BY <1>1, <1>2, <1>3 DEF LoopsCounted, One

\* A restart in the middle of a game adds a game that was restarted over; any
\* other start adds the game that is played.
LEMMA PrepareCounted == Core /\ LoopsCounted /\ PrepareGame => LoopsCounted'
<1> SUFFICES ASSUME Core, LoopsCounted, PrepareGame PROVE LoopsCounted'
  OBVIOUS
<1>1. stopCh \in Nat /\ stopCh' = stopCh + 1 /\ closed' = closed
  BY DEF PrepareGame, Core, TypeOK, LoopTypeOK
<1>2. Busy' = Busy /\ hub = "prepare" /\ hub' = "start" /\ state' = "playing"
  BY DEF PrepareGame, Busy, loopVars
<1>3. Restarted' = (1..stopCh) \ closed
  BY <1>1 DEF Restarted
<1>4. CASE state = "playing"
  <2>1. stopCh > 0 /\ stopCh \notin closed
    BY <1>1, <1>4 DEF Core, ChannelTracksState
  <2>2. Restarted' = Restarted \cup {stopCh} /\ stopCh \notin Restarted
    BY <1>1, <1>3, <2>1 DEF Restarted
  <2>3. Cardinality(Restarted') = Cardinality(Restarted) + 1
    BY <1>1, <2>2, RestartedFinite, FS_AddElement
  <2> QED
    BY <1>1, <1>2, <1>4, <2>3, BusyFinite, RestartedFinite DEF LoopsCounted, One
<1>5. CASE state # "playing"
  <2>1. stopCh = 0 \/ stopCh \in closed
    BY <1>5 DEF Core, ChannelTracksState
  <2>2. Restarted' = Restarted
    BY <1>1, <1>3, <2>1 DEF Restarted
  <2> QED
    BY <1>1, <1>2, <1>5, <2>2, BusyFinite, RestartedFinite DEF LoopsCounted, One
<1> QED
  BY <1>4, <1>5

LEMMA StartCounted == Core /\ LoopsCounted /\ StartGameLoop => LoopsCounted'
<1> SUFFICES ASSUME Core, LoopsCounted, StartGameLoop PROVE LoopsCounted'
  OBVIOUS
<1>1. PICK l \in Loops : pc[l] = "none" /\ pc' = [pc EXCEPT ![l] = "top"]
  BY DEF StartGameLoop
<1>2. Busy' = Busy \cup {l} /\ l \notin Busy
  BY <1>1 DEF Busy, Core, TypeOK, LoopTypeOK
<1>3. Cardinality(Busy') = Cardinality(Busy) + 1
  BY <1>2, BusyFinite, FS_AddElement
<1>4. stopCh \in Nat /\ Restarted' = Restarted /\ state' = state /\ hub = "start" /\ hub' = "idle"
  BY DEF StartGameLoop, Restarted, gameVars, Core, TypeOK, LoopTypeOK
<1> QED
  BY <1>3, <1>4, BusyFinite, RestartedFinite DEF LoopsCounted, One

\* The loop that ends the game goes with it.
LEMMA StopCounted == \A l \in Loops : Core /\ LoopsCounted /\ LoopStop(l) => LoopsCounted'
<1> SUFFICES ASSUME NEW l \in Loops, Core, LoopsCounted, LoopStop(l) PROVE LoopsCounted'
  OBVIOUS
<1>1. Busy' = Busy \ {l} /\ l \in Busy
  BY DEF LoopStop, Busy, Core, TypeOK, LoopTypeOK
<1>2. Cardinality(Busy') = Cardinality(Busy) - 1
  BY <1>1, BusyFinite, FS_RemoveElement
<1>3. stopCh \in Nat /\ UNCHANGED <<hub, stopCh>> /\ state = "playing" /\ state' = "ended"
  BY DEF LoopStop, Core, TypeOK, LoopTypeOK, hubVars
<1>4. Restarted' = Restarted
  BY <1>3 DEF LoopStop, Restarted
<1> QED
  BY <1>2, <1>3, <1>4, BusyFinite, RestartedFinite DEF LoopsCounted, One

\* Every other step of a loop leaves it where it may tick or takes it away.
LEMMA LoopsCountedStep == Core /\ LoopsCounted /\ [Next]_vars => LoopsCounted'
<1> SUFFICES ASSUME Core, LoopsCounted, [Next]_vars PROVE LoopsCounted'
  OBVIOUS
<1> USE DEF gameVars, loopVars, hubVars
<1>0. ASSUME UNCHANGED <<state, stopCh, closed, pc>>, hub' = "start" => hub = "start"
      PROVE  LoopsCounted'
  BY <1>0, FewerLoops DEF Busy
<1>1. CASE UNCHANGED vars
  BY <1>0, <1>1 DEF vars
<1>2. ASSUME NEW p \in Players, Client(p) PROVE LoopsCounted'
  BY <1>0, <1>2 DEF Client, CreateRoom, JoinRoom, LeaveRoom, SelectTeam, PlayerReady, PlayerMove
<1>3. CASE ReturnToLobby
  <2>1. state = "ended" /\ state' = "waiting" /\ UNCHANGED <<stopCh, closed, pc, hub>>
    BY <1>3 DEF ReturnToLobby, Reset
  <2> QED
    BY <2>1 DEF LoopsCounted, Busy, Restarted, One
<1>4. CASE HubStep
  <2>1. CASE SetPosition \/ SetRole
    BY <1>0, <2>1 DEF SetPosition, SetRole
  <2> QED
    BY <1>4, <2>1, PrepareCounted, StartCounted DEF HubStep
<1>5. ASSUME NEW l \in Loops, LoopStep(l) PROVE LoopsCounted'
  <2>1. CASE LoopStop(l)
    BY <2>1, StopCounted
  <2>2. CASE ~LoopStop(l)
    <3>1. UNCHANGED <<state, stopCh, closed, hub>>
      BY <1>5, <2>2 DEF LoopStep, LoopTop, LoopExit, LoopTick, LoopArrest, LoopRescue, LoopCheck,
                        LoopTooLate, LoopAnnounce
    <3>2. /\ \A k \in Loops \ {l} : pc'[k] = pc[k]
          /\ pc'[l] = "none" \/ pc[l] \notin {"none", "announce"}
      BY <1>5, <2>2 DEF LoopStep, LoopTop, LoopExit, LoopTick, LoopArrest, LoopRescue, LoopCheck,
                        LoopTooLate, LoopAnnounce, Core, TypeOK, LoopTypeOK
    <3>3. Busy' \subseteq Busy
      BY <3>2 DEF Busy
    <3> QED
      BY <3>1, <3>3, FewerLoops
  <2> QED
    BY <2>1, <2>2
<1> QED
  BY <1>1, <1>2, <1>3, <1>4, <1>5 DEF Next, Finished

\* Only a restart in the middle of a game leaves a loop behind (lobby.go:192-210,
\* room.go:226-260, 326-335, 447-453).
THEOREM LoopsCountedCorrect == Spec => []LoopsCounted
<1>1. Init => LoopsCounted
  <2> SUFFICES ASSUME Init PROVE LoopsCounted
    OBVIOUS
  <2>1. Busy = {} /\ Cardinality(Busy) = 0
    BY FS_EmptySet DEF Init, Busy
  <2>2. Cardinality(Restarted) \in Nat
    BY RestartedFinite DEF Init
  <2> QED
    BY <2>1, <2>2 DEF Init, LoopsCounted, One
<1> QED
  BY CoreCorrect, LoopsCountedStep, <1>1, PTL DEF Spec

\* Until such a restart a room has one loop at most, which plays its game, and
\* none while no game is played.
LEMMA SingleLoop ==
    ASSUME Core, LoopsCounted, Restarted = {}
    PROVE  /\ \A k, l \in Busy : k = l
           /\ state # "playing" \/ hub = "start" => Busy = {}
<1>1. Cardinality(Restarted) = 0
  BY FS_EmptySet
<1>2. /\ Cardinality(Busy) <= 1
      /\ state # "playing" \/ hub = "start" => Cardinality(Busy) = 0
  BY <1>1, BusyFinite DEF LoopsCounted, One
<1>3. ASSUME NEW k \in Busy, NEW l \in Busy PROVE k = l
  <2>1. IsFiniteSet({k, l}) /\ Cardinality({k, l}) <= Cardinality(Busy)
    BY BusyFinite, FS_Subset
  <2>2. k # l => Cardinality({k, l}) = 2
    <3>1. IsFiniteSet({k}) /\ Cardinality({k}) = 1
      BY FS_Singleton
    <3>2. k # l => Cardinality({k} \cup {l}) = Cardinality({k}) + 1
      BY <3>1, FS_AddElement
    <3>3. Cardinality({k, l}) = Cardinality({k} \cup {l})
      <4>1. {k, l} = {k} \cup {l}
        OBVIOUS
      <4> QED
        BY <4>1, Zenon
    <3> QED
      BY <3>1, <3>2, <3>3
  <2> QED
    BY <1>2, <2>1, <2>2, BusyFinite
<1> QED
  BY <1>2, <1>3, BusyFinite, FS_EmptySet

(***************************************************************************)
(* The time is up.                                                          *)
(***************************************************************************)

\* What a loop carries from its tick to StopGame: the time was up in the game that
\* is still being played.
Timely ==
    /\ \A l \in Loops : expired[l] => pc[l] \in {"arrest", "rescue", "check"}
    /\ Restarted = {} =>
         \A l \in Loops : expired[l] \/ (pc[l] = "stop" /\ verdict[l] = "thief") => remaining <= 0

LEMMA TimelyStep == Core /\ LoopsCounted /\ Timely /\ [Next]_vars => Timely'
<1> SUFFICES ASSUME Core, LoopsCounted, Timely, [Next]_vars PROVE Timely'
  OBVIOUS
<1> USE DEF gameVars, loopVars
<1>0. ASSUME UNCHANGED <<stopCh, closed, remaining, pc, expired, verdict>> PROVE Timely'
  BY <1>0 DEF Timely, Restarted
<1>1. CASE UNCHANGED vars
  BY <1>0, <1>1 DEF vars
<1>2. ASSUME NEW p \in Players, Client(p) PROVE Timely'
  BY <1>0, <1>2 DEF Client, CreateRoom, JoinRoom, LeaveRoom, SelectTeam, PlayerReady, PlayerMove
<1>3. CASE ReturnToLobby
  BY <1>0, <1>3 DEF ReturnToLobby, Reset
<1>4. CASE HubStep
  <2>1. CASE PrepareGame
    <3>1. /\ stopCh \in Nat /\ stopCh' = stopCh + 1 /\ closed' = closed
          /\ UNCHANGED <<pc, expired, verdict>>
      BY <2>1 DEF PrepareGame, Core, TypeOK, LoopTypeOK
    <3>2. ASSUME Restarted' = {} PROVE Restarted = {} /\ state # "playing"
      <4>1. Restarted' = (1..stopCh) \ closed
        BY <3>1 DEF Restarted
      <4>2. state = "playing" => stopCh \in 1..stopCh /\ stopCh \notin closed
        BY <3>1 DEF Core, ChannelTracksState
      <4> QED
        BY <3>1, <3>2, <4>1, <4>2 DEF Restarted
    <3>3. Restarted' = {} => Busy = {}
      BY <3>2, SingleLoop
    <3> QED
      BY <3>1, <3>3 DEF Timely, Busy
  <2>2. CASE StartGameLoop
    <3>1. PICK l \in Loops : pc[l] = "none" /\ pc' = [pc EXCEPT ![l] = "top"]
      BY <2>2 DEF StartGameLoop
    <3>2. UNCHANGED <<stopCh, closed, remaining, expired, verdict>>
      BY <2>2 DEF StartGameLoop
    <3> QED
      BY <3>1, <3>2 DEF Timely, Restarted
  <2>3. CASE SetPosition \/ SetRole
    BY <1>0, <2>3 DEF SetPosition, SetRole
  <2> QED
    BY <1>4, <2>1, <2>2, <2>3 DEF HubStep
<1>5. ASSUME NEW l \in Loops, LoopStep(l) PROVE Timely'
  <2>0. /\ remaining \in Int /\ expired \in [Loops -> BOOLEAN]
        /\ pc \in [Loops -> {"none", "top", "select", "arrest", "rescue", "check", "stop",
                             "announce"}]
        /\ verdict \in [Loops -> {"none", "police", "thief"}]
    BY DEF Core, TypeOK, LoopTypeOK
  <2>1. /\ Restarted' = Restarted
        /\ remaining' \in Int /\ remaining' <= remaining
    <3>1. /\ stopCh' = stopCh /\ closed' \in {closed, closed \cup {stopCh}}
          /\ remaining' \in {remaining, remaining - 1}
      BY <1>5 DEF LoopStep, LoopTop, LoopExit, LoopTick, Countdown, LoopArrest, LoopRescue,
                  LoopCheck, LoopTooLate, LoopStop, LoopAnnounce
    <3>2. stopCh \in Nat
      BY DEF Core, TypeOK, LoopTypeOK
    <3> QED
      BY <2>0, <3>1, <3>2 DEF Restarted
  <2>2. \A k \in Loops \ {l} : UNCHANGED <<pc[k], expired[k], verdict[k]>>
    BY <1>5, <2>0 DEF LoopStep, LoopTop, LoopExit, LoopTick, LoopArrest, LoopRescue,
                LoopCheck, LoopTooLate, LoopStop, LoopAnnounce
  <2>3. /\ expired'[l] => pc'[l] \in {"arrest", "rescue", "check"}
        /\ Restarted = {} /\ (expired'[l] \/ (pc'[l] = "stop" /\ verdict'[l] = "thief"))
              => remaining' <= 0
    <3>1. CASE LoopTick(l)
      BY <2>0, <3>1 DEF LoopTick
    <3>2. CASE LoopCheck(l)
      BY <2>0, <3>2 DEF LoopCheck, Timely
    <3>3. CASE LoopArrest(l) \/ LoopRescue(l)
      BY <2>0, <3>3 DEF LoopArrest, LoopRescue, Timely
    <3>4. CASE LoopTop(l) \/ LoopExit(l) \/ LoopTooLate(l) \/ LoopStop(l) \/ LoopAnnounce(l)
      BY <2>0, <3>4 DEF LoopTop, LoopExit, LoopTooLate, LoopStop, LoopAnnounce, Timely
    <3> QED
      BY <1>5, <3>1, <3>2, <3>3, <3>4 DEF LoopStep
  <2> QED
    BY <2>0, <2>1, <2>2, <2>3 DEF Timely
<1> QED
  BY <1>1, <1>2, <1>3, <1>4, <1>5 DEF Next, Finished

\* Nobody wins by a timer that ran out in an earlier game, as long as no game was
\* restarted over (room.go:337-339, 447-453).
THEOREM TimeoutCorrect == Spec => []TimeoutIsOfThisGame
<1>1. Init => Timely
  BY DEF Init, Timely
<1>2. Timely => TimeoutIsOfThisGame
  BY DEF Timely, TimeoutIsOfThisGame
<1> QED
  BY CoreCorrect, LoopsCountedCorrect, TimelyStep, <1>1, <1>2, PTL DEF Spec

(***************************************************************************)
(* Room implements Match.                                                   *)
(***************************************************************************)

\* What a step of Room does to the four variables of Match: nothing, or one of
\* the actions of Match.
LEMMA InitImplements == Init => Abstract!Init
BY DEF Init, Abstract!Init, Games

LEMMA StepImplements == Core /\ Announcing /\ [Next]_vars => [Abstract!Next]_(Abstract!vars)
<1> SUFFICES ASSUME Core, Announcing, [Next]_vars
             PROVE  Abstract!Next \/ UNCHANGED Abstract!vars
  OBVIOUS
<1> USE DEF Core, TypeOK, LoopTypeOK, gameVars, loopVars, hubVars, Games, Abstract!vars
<1>1. CASE UNCHANGED vars
  BY <1>1 DEF vars
<1>2. ASSUME NEW p \in Players, Client(p) PROVE UNCHANGED Abstract!vars
  BY <1>2 DEF Client, CreateRoom, JoinRoom, LeaveRoom, SelectTeam, PlayerReady, PlayerMove
<1>3. CASE ReturnToLobby
  <2>1. Abstract!Return
    BY <1>3 DEF ReturnToLobby, Reset, Abstract!Return
  <2> QED
    BY <2>1 DEF Abstract!Next
<1>4. CASE HubStep
  <2>1. CASE PrepareGame
    <3>1. Abstract!Begin
      BY <2>1 DEF PrepareGame, Announcing, Abstract!Begin
    <3> QED
      BY <3>1 DEF Abstract!Next
  <2> QED
    BY <1>4, <2>1 DEF HubStep, StartGameLoop, SetPosition, SetRole
<1>5. ASSUME NEW l \in Loops, LoopStep(l) PROVE Abstract!Next \/ UNCHANGED Abstract!vars
  <2>1. CASE LoopStop(l)
    <3>1. Abstract!End
      BY <2>1 DEF LoopStop, Abstract!End
    <3> QED
      BY <3>1 DEF Abstract!Next
  <2>2. CASE LoopAnnounce(l)
    <3>1. ch[l] \in closed /\ ch[l] \in 1..MaxGames /\ overs[ch[l]] = 0
      BY <2>2 DEF LoopAnnounce, Announcing
    <3>2. overs' = [overs EXCEPT ![ch[l]] = 1]
      BY <2>2, <3>1 DEF LoopAnnounce
    <3>3. Abstract!Tell(ch[l])
      BY <2>2, <3>1, <3>2 DEF LoopAnnounce, Abstract!Tell
    <3> QED
      BY <3>1, <3>3 DEF Abstract!Next
  <2> QED
    BY <1>5, <2>1, <2>2 DEF LoopStep, LoopTop, LoopExit, LoopTick, LoopArrest, LoopRescue,
                            LoopCheck, LoopTooLate
<1> QED
  BY <1>1, <1>2, <1>3, <1>4, <1>5 DEF Next, Finished

\* The state of the room, its stop channels and its game_over broadcasts
\* (room.go:226-291) behave as Match says, however many loops, restarts and
\* returns to the lobby run into each other.
THEOREM MatchImplemented == Spec => ImplementsMatch
BY CoreCorrect, AnnouncingCorrect, InitImplements, StepImplements, PTL
   DEF Spec, ImplementsMatch, Abstract!Spec

\* StopGame, entered with the verdict of an earlier game, never moves a room that
\* is back in the lobby to ended (room.go:267).
THEOREM LobbyIsNotEndedCorrect == Spec => LobbyIsNotEnded
<1>1. [Next]_vars => [state = "waiting" => state' # "ended"]_vars
  <2> SUFFICES ASSUME Next, state = "waiting" PROVE state' # "ended" \/ UNCHANGED vars
    OBVIOUS
  <2> USE DEF gameVars
  <2>1. ASSUME NEW p \in Players, Client(p) PROVE state' = state
    BY <2>1 DEF Client, CreateRoom, JoinRoom, LeaveRoom, SelectTeam, PlayerReady, PlayerMove
  <2>2. CASE ReturnToLobby \/ HubStep
    BY <2>2 DEF ReturnToLobby, Reset, HubStep, PrepareGame, StartGameLoop, SetPosition, SetRole
  <2>3. ASSUME NEW l \in Loops, LoopStep(l) PROVE state' = state
    BY <2>3 DEF LoopStep, LoopTop, LoopExit, LoopTick, LoopArrest, LoopRescue, LoopCheck,
                LoopTooLate, LoopStop, LoopAnnounce
  <2> QED
    BY <2>1, <2>2, <2>3 DEF Next, Finished
<1> QED
  BY <1>1, PTL DEF Spec, LobbyIsNotEnded

(***************************************************************************)
(* The host.                                                                *)
(***************************************************************************)

\* Only who joins or leaves touches the members and the host.
LEMMA HostStep == HostIsMember /\ [Next]_vars => HostIsMember'
<1> SUFFICES ASSUME HostIsMember, [Next]_vars PROVE HostIsMember'
  OBVIOUS
<1> USE DEF HostIsMember, lobbyVars
<1>1. CASE UNCHANGED vars
  BY <1>1 DEF vars
<1>2. ASSUME NEW p \in Players, Client(p) PROVE HostIsMember'
  BY <1>2 DEF Client, CreateRoom, JoinRoom, LeaveRoom, AddPlayer, RemovePlayer, SelectTeam,
              PlayerReady, PlayerMove
<1>3. CASE ReturnToLobby \/ HubStep
  BY <1>3 DEF ReturnToLobby, HubStep, PrepareGame, StartGameLoop, SetPosition, SetRole
<1>4. ASSUME NEW l \in Loops, LoopStep(l) PROVE HostIsMember'
  BY <1>4 DEF LoopStep, LoopTop, LoopExit, LoopTick, LoopArrest, LoopRescue, LoopCheck,
              LoopTooLate, LoopStop, LoopAnnounce
<1> QED
  BY <1>1, <1>2, <1>3, <1>4 DEF Next, Finished

\* A room with members has one of them as its host (room.go:59-78).
THEOREM HostCorrect == Spec => []HostIsMember
<1>1. Init => HostIsMember
  BY DEF Init, HostIsMember
<1> QED
  BY <1>1, HostStep, PTL DEF Spec

(***************************************************************************)
(* The conditions of a start.                                               *)
(***************************************************************************)

\* Between PlayerReady and StartGameLoop only loops take steps, and they touch
\* neither the members nor their roles and readiness.
LEMMA StartStep == StartsWithBothTeams /\ [Next]_vars => StartsWithBothTeams'
<1> SUFFICES ASSUME StartsWithBothTeams, [Next]_vars PROVE StartsWithBothTeams'
  OBVIOUS
<1> USE DEF StartsWithBothTeams, lobbyVars, hubVars
<1>1. CASE UNCHANGED vars
  BY <1>1 DEF vars, playerVars
<1>2. ASSUME NEW p \in Players, Client(p) PROVE StartsWithBothTeams'
  <2>1. CASE PlayerReady(p)
    <3>1. SUFFICES ASSUME hub' = "prepare"
                   PROVE  /\ Cardinality(members) >= MinPlayers
                          /\ \A q \in members : ready'[q]
                          /\ \E c, t \in members : role[c] = "police" /\ role[t] = "thief"
      BY <2>1 DEF PlayerReady, playerVars
    <3>2. AllReady(ready')
      BY <2>1, <3>1 DEF PlayerReady
    <3> QED
      BY <3>2 DEF AllReady, Cops, Thieves
  <2> QED
    BY <1>2, <2>1 DEF Client, CreateRoom, JoinRoom, LeaveRoom, SelectTeam, PlayerMove
<1>3. CASE ReturnToLobby \/ HubStep
  BY <1>3 DEF ReturnToLobby, HubStep, PrepareGame, StartGameLoop, SetPosition, SetRole
<1>4. ASSUME NEW l \in Loops, LoopStep(l) PROVE StartsWithBothTeams'
  BY <1>4 DEF LoopStep, LoopTop, LoopExit, LoopTick, LoopArrest, LoopRescue, LoopCheck,
              LoopTooLate, LoopStop, LoopAnnounce, playerVars
<1> QED
  BY <1>1, <1>2, <1>3, <1>4 DEF Next, Finished

\* The game that PrepareGame sets up and StartGameLoop starts has all the players
\* ready and both teams manned, as TogglePlayerReady found it (lobby.go:190-210).
THEOREM StartCorrect == Spec => []StartsWithBothTeams
<1>1. Init => StartsWithBothTeams
  BY DEF Init, StartsWithBothTeams
<1> QED
  BY <1>1, StartStep, PTL DEF Spec

(***************************************************************************)
(* The limits.                                                              *)
(***************************************************************************)

\* A member more is no policeman more: who never was a member has no role, and
\* nobody is a member before the room is made.  The choice that CanSelectRole
\* granted still fits when SetRole stores it.
Newcomers ==
    /\ listing = "none" => members = {} /\ left = {}
    /\ \A p \in Players \ (members \cup left) : role[p] = "none"
    /\ hub = "role" => /\ choice[1] \in members
                       /\ choice[2] = "police" => Cardinality(Cops(members)) < MaxPolice
    /\ WithinLimits

LEMMA NewcomersInit == Init => Newcomers
BY FS_EmptySet DEF Init, NewPlayers, Newcomers, WithinLimits, Cops

LEMMA NewcomersStep == Core /\ Newcomers /\ [Next]_vars => Newcomers'
<1> SUFFICES ASSUME Core, Newcomers, [Next]_vars PROVE Newcomers'
  OBVIOUS
<1> USE DEF Core, TypeOK, LobbyTypeOK, lobbyVars, playerVars, hubVars
<1>0. ASSUME UNCHANGED <<listing, members, left, role>>,
             hub' = "role" => hub = "role" /\ choice' = choice
      PROVE  Newcomers'
  BY <1>0 DEF Newcomers, WithinLimits, Cops
<1>1. CASE UNCHANGED vars
  BY <1>0, <1>1 DEF vars
<1>2. IsFiniteSet(members) /\ IsFiniteSet(Cops(members))
  BY FS_Subset DEF Cops
<1>3. /\ Cardinality(members) \in Nat /\ Cardinality(Cops(members)) \in Nat
  BY <1>2, FS_CardinalityType
<1>4. ASSUME NEW p \in Players, Client(p) PROVE Newcomers'
  <2>1. CASE CreateRoom(p)
    <3>1. /\ members = {} /\ members' = {p} /\ listing' = "listed"
          /\ UNCHANGED <<left, role>> /\ role[p] = "none" /\ hub' # "role"
      BY <2>1 DEF CreateRoom, AddPlayer, Newcomers
    <3>2. Cops(members)' = {}
      BY <3>1 DEF Cops
    <3>3. Cardinality(members') = 1 /\ Cardinality(Cops(members)') = 0
      BY <3>1, <3>2, FS_EmptySet, FS_Singleton
    <3>4. WithinLimits'
      BY <3>3 DEF WithinLimits
    <3> QED
      BY <3>1, <3>4 DEF Newcomers
  <2>2. CASE JoinRoom(p)
    <3>1. /\ members' = members \cup {p} /\ p \notin members
          /\ UNCHANGED <<listing, left, role>> /\ role[p] = "none" /\ hub' # "role"
      BY <2>2 DEF JoinRoom, AddPlayer, Newcomers
    <3>2. Cops(members)' = Cops(members)
      BY <3>1 DEF Cops
    <3>3. Cardinality(members') = Cardinality(members) + 1
      BY <1>2, <3>1, FS_AddElement, Zenon
    <3>4. Cardinality(members) < MaxPlayers
      BY <2>2 DEF JoinRoom
    <3>5. Cardinality(members') <= MaxPlayers
      BY <1>3, <3>3, <3>4
    <3>6. WithinLimits'
      BY <3>2, <3>5 DEF Newcomers, WithinLimits
    <3> QED
      BY <2>2, <3>1, <3>6 DEF JoinRoom, Newcomers
  <2>3. CASE LeaveRoom(p)
    <3>1. /\ members' = members \ {p} /\ left' = left \cup {p} /\ role' = role
          /\ hub' # "role"
      BY <2>3 DEF LeaveRoom, RemovePlayer
    <3>2. Cops(members)' \subseteq Cops(members) /\ members' \subseteq members
      BY <3>1 DEF Cops
    <3>3. /\ Cardinality(members') <= Cardinality(members)
          /\ Cardinality(Cops(members)') <= Cardinality(Cops(members))
      BY <1>2, <3>2, FS_Subset
    <3>4. Cardinality(members') \in Nat /\ Cardinality(Cops(members)') \in Nat
      BY <1>2, <3>2, FS_Subset, FS_CardinalityType
    <3>5. WithinLimits'
      BY <1>3, <3>3, <3>4 DEF Newcomers, WithinLimits
    <3>6. listing # "none" /\ listing' # "none"
      BY <2>3 DEF LeaveRoom, Newcomers
    <3> QED
      BY <3>1, <3>5, <3>6 DEF Newcomers
  <2>4. ASSUME NEW r \in Roles, SelectTeam(p, r) PROVE Newcomers'
    <3>1. /\ UNCHANGED <<listing, members, left, role>> /\ p \in members
          /\ choice' = <<p, r>> /\ CanSelectRole(r)
      BY <2>4 DEF SelectTeam
    <3>2. Cops(members)' = Cops(members)
      BY <3>1 DEF Cops
    <3> QED
      BY <3>1, <3>2 DEF Newcomers, WithinLimits, CanSelectRole
  <2> QED
    BY <1>0, <1>4, <2>1, <2>2, <2>3, <2>4 DEF Client, PlayerReady, PlayerMove
<1>5. CASE ReturnToLobby \/ HubStep
  <2>1. CASE SetRole
    <3> DEFINE p == choice[1]
               r == choice[2]
    <3>1. /\ role' = [role EXCEPT ![p] = r] /\ p \in members /\ hub' # "role"
          /\ UNCHANGED <<listing, members, left>>
      BY <2>1 DEF SetRole, Newcomers
    <3> HIDE DEF p
    <3>2. \A q \in Players \ (members' \cup left') : role'[q] = "none"
      BY <3>1 DEF Newcomers
    <3>3. CASE r = "police"
      <4>1. Cops(members)' = Cops(members) \cup {p}
        BY <3>1, <3>3 DEF Cops, GameTypeOK
      <4>2. Cardinality(Cops(members)) < MaxPolice
        BY <2>1, <3>3 DEF SetRole, Newcomers
      <4>3. Cardinality(Cops(members)') \in {Cardinality(Cops(members)), Cardinality(Cops(members)) + 1}
        BY <1>2, <4>1, FS_AddElement, Zenon
      <4>4. Cardinality(Cops(members)') <= MaxPolice
        BY <1>3, <4>2, <4>3
      <4> QED
        BY <3>1, <3>2, <4>4 DEF Newcomers, WithinLimits
    <3>4. CASE r # "police"
      <4>1. Cops(members)' \subseteq Cops(members)
        BY <3>1, <3>4 DEF Cops, GameTypeOK
      <4>2. /\ Cardinality(Cops(members)') <= Cardinality(Cops(members))
            /\ Cardinality(Cops(members)') \in Nat
        BY <1>2, <4>1, FS_Subset, FS_CardinalityType
      <4>3. Cardinality(Cops(members)') <= MaxPolice
        BY <1>3, <4>2 DEF Newcomers, WithinLimits
      <4> QED
        BY <3>1, <3>2, <4>3 DEF Newcomers, WithinLimits
    <3> QED
      BY <3>3, <3>4
  <2> QED
    BY <1>0, <1>5, <2>1 DEF ReturnToLobby, HubStep, PrepareGame, StartGameLoop, SetPosition
<1>6. ASSUME NEW l \in Loops, LoopStep(l) PROVE Newcomers'
  BY <1>0, <1>6 DEF LoopStep, LoopTop, LoopExit, LoopTick, LoopArrest, LoopRescue, LoopCheck,
                    LoopTooLate, LoopStop, LoopAnnounce
<1> QED
  BY <1>1, <1>4, <1>5, <1>6 DEF Next, Finished

LEMMA NewcomersCorrect == Spec => []Newcomers
BY CoreCorrect, NewcomersInit, NewcomersStep, PTL DEF Spec

\* No sequence of joins, departures and changes of side makes a room larger than
\* MaxPlayers or its police larger than MaxPolice (room.go:52-54, 90-109).
THEOREM LimitsCorrect == Spec => []WithinLimits
<1>1. Newcomers => WithinLimits
  BY DEF Newcomers
<1> QED
  BY NewcomersCorrect, <1>1, PTL

(***************************************************************************)
(* The room as one of Directory.                                            *)
(***************************************************************************)

\* The room is listed while somebody is in it, and nobody is in it twice.
Occupied ==
    /\ members \subseteq Players /\ left \subseteq Players
    /\ members \cap left = {}
    /\ (members # {}) <=> (listing = "listed")
    /\ listing = "none" => left = {}

LEMMA OccupiedInit == Init => Occupied
BY DEF Init, Occupied

LEMMA OccupiedStep == Occupied /\ [Next]_vars => Occupied'
<1> SUFFICES ASSUME Occupied, [Next]_vars PROVE Occupied'
  OBVIOUS
<1> USE DEF Occupied, lobbyVars
<1>1. CASE UNCHANGED vars
  BY <1>1 DEF vars
<1>2. ASSUME NEW p \in Players, Client(p) PROVE Occupied'
  BY <1>2 DEF Client, CreateRoom, JoinRoom, LeaveRoom, AddPlayer, RemovePlayer, SelectTeam,
              PlayerReady, PlayerMove
<1>3. CASE ReturnToLobby \/ HubStep
  BY <1>3 DEF ReturnToLobby, HubStep, PrepareGame, StartGameLoop, SetPosition, SetRole
<1>4. ASSUME NEW l \in Loops, LoopStep(l) PROVE Occupied'
  BY <1>4 DEF LoopStep, LoopTop, LoopExit, LoopTick, LoopArrest, LoopRescue, LoopCheck,
              LoopTooLate, LoopStop, LoopAnnounce
<1> QED
  BY <1>1, <1>2, <1>3, <1>4 DEF Next, Finished

LEMMA OneRoomInit == Init => OneRoom!Init
BY DEF Init, OneRoom!Init

\* The occupants of Directory's room are the members.
LEMMA OccupantsAreMembers ==
    ASSUME Occupied PROVE OneRoom!Occupants("room") = members
BY DEF Occupied, OneRoom!Occupants

LEMMA SameOccupants ==
    UNCHANGED <<listing, members, left>> => UNCHANGED OneRoom!vars
BY DEF OneRoom!vars

\* A join, a departure and the making of the room are those of Directory; all
\* else leaves the members alone.
LEMMA OneRoomStep == Occupied /\ [Next]_vars => [OneRoom!Next]_(OneRoom!vars)
<1> SUFFICES ASSUME Occupied, [Next]_vars PROVE [OneRoom!Next]_(OneRoom!vars)
  OBVIOUS
<1> USE DEF lobbyVars
<1>1. CASE UNCHANGED vars
  BY <1>1, SameOccupants DEF vars
<1>2. ASSUME NEW p \in Players, Client(p) PROVE [OneRoom!Next]_(OneRoom!vars)
  <2>1. CASE CreateRoom(p)
    <3>1. /\ members = {} /\ members' = {p} /\ left = {} /\ left' = {}
          /\ listing = "none" /\ listing' = "listed"
      BY <2>1 DEF CreateRoom, AddPlayer, Occupied
    <3>2. OneRoom!Open(p, "room")
      BY <3>1 DEF OneRoom!Open
    <3> QED
      BY <3>2 DEF OneRoom!Next
  <2>2. CASE JoinRoom(p)
    <3>1. /\ p \notin members \cup left /\ members' = members \cup {p} /\ left' = left
          /\ listing = "listed" /\ listing' = listing
          /\ Cardinality(members) < MaxPlayers
      BY <2>2 DEF JoinRoom, AddPlayer
    <3>2. OneRoom!Cardinality(OneRoom!Occupants("room")) < MaxPlayers
      BY <3>1, OccupantsAreMembers DEF OneRoom!Cardinality, Cardinality
    <3>3. OneRoom!Enter(p, "room")
      BY <3>1, <3>2 DEF OneRoom!Enter
    <3> QED
      BY <3>3 DEF OneRoom!Next
  <2>3. CASE LeaveRoom(p)
    <3>1. /\ p \in members /\ members' = members \ {p} /\ left' = left \cup {p}
          /\ listing' = IF members' = {} THEN "removed" ELSE listing
          /\ listing = "listed"
      BY <2>3 DEF LeaveRoom, RemovePlayer, Occupied
    <3>2. (OneRoom!Occupants("room") = {p}) <=> (members' = {})
      BY <3>1, OccupantsAreMembers
    <3>3. OneRoom!Leave(p, "room")
      BY <3>1, <3>2 DEF OneRoom!Leave
    <3> QED
      BY <3>3 DEF OneRoom!Next
  <2> QED
    BY <1>2, <2>1, <2>2, <2>3, SameOccupants DEF Client, SelectTeam, PlayerReady, PlayerMove
<1>3. CASE ReturnToLobby \/ HubStep
  BY <1>3, SameOccupants
     DEF ReturnToLobby, HubStep, PrepareGame, StartGameLoop, SetPosition, SetRole
<1>4. ASSUME NEW l \in Loops, LoopStep(l) PROVE [OneRoom!Next]_(OneRoom!vars)
  BY <1>4, SameOccupants
     DEF LoopStep, LoopTop, LoopExit, LoopTick, LoopArrest, LoopRescue, LoopCheck,
         LoopTooLate, LoopStop, LoopAnnounce
<1> QED
  BY <1>1, <1>2, <1>3, <1>4 DEF Next, Finished

\* A room in any state takes players in and lets them go as Directory says, and is
\* listed while it has any (lobby.go:35-92, 238-266).
THEOREM DirectoryImplemented == Spec => ImplementsDirectory
<1>1. Spec => []Occupied
  BY OccupiedInit, OccupiedStep, PTL DEF Spec
<1> QED
  BY <1>1, OneRoomInit, OneRoomStep, PTL DEF Spec, ImplementsDirectory, OneRoom!Spec

(***************************************************************************)
(* A removed room winds down.                                               *)
(***************************************************************************)

\* Nobody is left to begin anything, in the room or in the middle of a handler.
Abandoned == listing = "removed" => members = {} /\ hub = "idle"

LEMMA AbandonedStep == Abandoned /\ Occupied /\ [Next]_vars => Abandoned'
<1> SUFFICES ASSUME Abandoned, Occupied, [Next]_vars PROVE Abandoned'
  OBVIOUS
<1> USE DEF Abandoned, Occupied, lobbyVars, hubVars
<1>1. CASE UNCHANGED vars
  BY <1>1 DEF vars
<1>2. ASSUME NEW p \in Players, Client(p) PROVE Abandoned'
  BY <1>2 DEF Client, CreateRoom, JoinRoom, LeaveRoom, AddPlayer, RemovePlayer, SelectTeam,
              PlayerReady, PlayerMove
<1>3. CASE ReturnToLobby \/ HubStep
  BY <1>3 DEF ReturnToLobby, HubStep, PrepareGame, StartGameLoop, SetPosition, SetRole
<1>4. ASSUME NEW l \in Loops, LoopStep(l) PROVE Abandoned'
  BY <1>4 DEF LoopStep, LoopTop, LoopExit, LoopTick, LoopArrest, LoopRescue, LoopCheck,
              LoopTooLate, LoopStop, LoopAnnounce
<1> QED
  BY <1>1, <1>2, <1>3, <1>4 DEF Next, Finished

\* Only loops go on in such a room.
LEMMA OnlyLoops ==
    ASSUME Abandoned, listing = "removed", Next, ~UNCHANGED vars
    PROVE  \E l \in Loops : LoopStep(l)
<1> USE DEF Abandoned
<1>1. ASSUME NEW p \in Players, Client(p) PROVE FALSE
  BY <1>1 DEF Client, CreateRoom, JoinRoom, LeaveRoom, SelectTeam, PlayerReady, PlayerMove
<1>2. ~ReturnToLobby /\ ~HubStep
  BY DEF ReturnToLobby, HubStep, PrepareGame, StartGameLoop, SetPosition, SetRole
<1> QED
  BY <1>1, <1>2 DEF Next, Finished

\* A loop that stays where it is gets no further from its return while the clock
\* does not rise.
LEMMA WaitingCloser ==
    ASSUME LoopTypeOK, NEW l \in Loops, remaining' \in Int, remaining' <= remaining,
           pc'[l] = pc[l], expired'[l] = expired[l]
    PROVE  StepsAhead(l)' <= StepsAhead(l)
<1>1. RestOfRound[pc[l]] \in 0..7 /\ remaining \in Int
  BY DEF LoopTypeOK, RestOfRound
<1> QED
  BY <1>1 DEF StepsAhead

\* What the step of a loop does to its place, to its flag and to the clock.
LEMMA StepCloser ==
    ASSUME LoopTypeOK, NEW l \in Loops, LoopStep(l)
    PROVE  /\ remaining' \in Int /\ remaining' <= remaining
           /\ \A k \in Loops \ {l} : pc'[k] = pc[k] /\ expired'[k] = expired[k]
           /\ StepsAhead(l)' < StepsAhead(l)
<1> USE DEF LoopTypeOK, gameVars, StepsAhead, RestOfRound
<1>1. CASE LoopTop(l)
  BY <1>1 DEF LoopTop
<1>2. CASE LoopExit(l)
  BY <1>2 DEF LoopExit
<1>3. CASE LoopTick(l)
  <2>1. /\ pc[l] = "select" /\ pc' = [pc EXCEPT ![l] = "arrest"]
        /\ remaining' = remaining - 1 /\ remaining \in Int
        /\ expired' = [expired EXCEPT ![l] = (remaining - 1 <= 0)]
    BY <1>3 DEF LoopTick, Countdown
  <2>2. StepsAhead(l) = 8 * (IF remaining > 0 THEN remaining ELSE 0) + 6
    BY <2>1
  <2>3. pc'[l] = "arrest" /\ (expired'[l] <=> remaining - 1 <= 0)
    BY <2>1
  <2>4. StepsAhead(l)' = 8 * (IF remaining - 1 > 0 THEN remaining - 1 ELSE 0)
                         + (IF remaining - 1 <= 0 THEN 0 ELSE 8) + 5
    BY <2>1, <2>3
  <2>5. StepsAhead(l)' < StepsAhead(l)
    <3> HIDE DEF StepsAhead
    <3> QED
      BY <2>1, <2>2, <2>4
  <2> QED
    BY <2>1, <2>5
<1>4. CASE LoopArrest(l) \/ LoopRescue(l)
  BY <1>4 DEF LoopArrest, LoopRescue
<1>5. CASE LoopCheck(l)
  <2>1. CASE pc'[l] = "top"
    <3>1. ~expired[l]
      BY <1>5, <2>1 DEF LoopCheck
    <3> QED
      BY <1>5, <2>1, <3>1 DEF LoopCheck
  <2>2. CASE pc'[l] = "stop"
    BY <1>5, <2>2 DEF LoopCheck
  <2> QED
    BY <1>5, <2>1, <2>2 DEF LoopCheck
<1>6. CASE LoopTooLate(l) \/ LoopStop(l)
  BY <1>6 DEF LoopTooLate, LoopStop
<1>7. CASE LoopAnnounce(l)
  BY <1>7 DEF LoopAnnounce
<1> QED
  BY <1>1, <1>2, <1>3, <1>4, <1>5, <1>6, <1>7 DEF LoopStep

\* Whatever game a room was in when its last player left, and however many loops it
\* had by then, its goroutines have a bounded number of steps before them and take
\* no other: they do not wait for a channel that nobody closes any more
\* (lobby.go:254-262, room.go:324-457).
THEOREM WindsDownCorrect == Spec => WindsDown
<1>1. Spec => [](Occupied /\ Abandoned)
  <2>1. Init => Abandoned
    BY DEF Init, Abandoned
  <2> QED
    BY <2>1, OccupiedInit, OccupiedStep, AbandonedStep, PTL DEF Spec
<1>2. Core /\ Occupied /\ Abandoned /\ Abandoned' /\ [Next]_vars =>
        [listing = "removed" =>
           /\ listing' = "removed" /\ members' = {}
           /\ \A l \in Loops : StepsAhead(l)' <= StepsAhead(l)
           /\ \E l \in Loops : StepsAhead(l)' < StepsAhead(l)]_vars
  <2> SUFFICES ASSUME Core, Abandoned, Abandoned', Next, ~UNCHANGED vars, listing = "removed"
               PROVE  /\ listing' = "removed" /\ members' = {}
                      /\ \A l \in Loops : StepsAhead(l)' <= StepsAhead(l)
                      /\ \E l \in Loops : StepsAhead(l)' < StepsAhead(l)
    OBVIOUS
  <2>1. PICK l \in Loops : LoopStep(l)
    BY OnlyLoops
  <2>2. LoopTypeOK
    BY DEF Core, TypeOK
  <2>3. /\ remaining' \in Int /\ remaining' <= remaining
        /\ \A k \in Loops \ {l} : pc'[k] = pc[k] /\ expired'[k] = expired[k]
        /\ StepsAhead(l)' < StepsAhead(l)
    BY <2>1, <2>2, StepCloser
  <2>4. ASSUME NEW k \in Loops PROVE StepsAhead(k)' <= StepsAhead(k)
    <3>1. CASE k = l
      <4>1. StepsAhead(l) \in Int /\ StepsAhead(l)' \in Int
        <5>1. /\ RestOfRound[pc[l]] \in 0..7 /\ remaining \in Int
          BY <2>2 DEF LoopTypeOK, RestOfRound
        <5>2. RestOfRound[pc'[l]] \in 0..7 \/ pc'[l] = "none"
          BY <2>1, <2>2 DEF LoopTypeOK, RestOfRound, LoopStep, LoopTop, LoopExit, LoopTick,
                            LoopArrest, LoopRescue, LoopCheck, LoopTooLate, LoopStop, LoopAnnounce
        <5> QED
          BY <2>3, <5>1, <5>2 DEF StepsAhead
      <4> QED
        BY <2>3, <3>1, <4>1
    <3>2. CASE k # l
      BY <2>2, <2>3, <3>2, WaitingCloser
    <3> QED
      BY <3>1, <3>2
  <2>5. listing' = "removed"
    BY <2>1 DEF LoopStep, LoopTop, LoopExit, LoopTick, LoopArrest, LoopRescue, LoopCheck,
                LoopTooLate, LoopStop, LoopAnnounce, lobbyVars
  <2> QED
    BY <2>3, <2>4, <2>5 DEF Abandoned
<1> QED
  BY CoreCorrect, <1>1, <1>2, PTL DEF Spec, WindsDown

(***************************************************************************)
(* The boosters and the stones: what ItemsProofs shows of one manager, for  *)
(* the two that PrepareGame makes and gameLoop ticks.                       *)
(***************************************************************************)

BoosterFacts == INSTANCE ItemsProofs WITH
    Runners <- Players, Spots <- Positions, Item <- Boosters, PickupReach <- BoosterReach,
    RespawnTicks <- BoosterRespawnTicks, EffectTicks <- BoosterTicks,
    active <- boosters, queue <- boosterQueue, effect <- boost

StoneFacts == INSTANCE ItemsProofs WITH
    Runners <- Players, Spots <- Positions, Item <- Stones, PickupReach <- StoneReach,
    RespawnTicks <- StoneRespawnTicks, EffectTicks <- SlowTicks,
    active <- stones, queue <- stoneQueue, effect <- slow

(***************************************************************************)
(* No item is lost or doubled.                                              *)
(***************************************************************************)

LEMMA RanksAreNats == Ranks \subseteq Nat
BY FS_CardinalityType DEF Ranks

LEMMA BoosterTick ==
    ASSUME BoosterManager!ItemsTypeOK, NEW turn, BoosterManager!Tick(members, pos, cond, turn)
    PROVE  /\ BoosterManager!ItemsTypeOK'
           /\ BoosterManager!Conserved => BoosterManager!Conserved'
<1>1. ASSUME BoosterFacts!ItemsTypeOK, BoosterFacts!Tick(members, pos, cond, turn)
      PROVE  /\ BoosterFacts!ItemsTypeOK'
             /\ BoosterFacts!Conserved => BoosterFacts!Conserved'
  BY <1>1, RanksAreNats, BoosterFacts!TickKeeps
<1> QED
  BY <1>1 DEF BoosterManager!ItemsTypeOK, BoosterManager!Conserved, BoosterManager!Tick,
              BoosterManager!Takers, BoosterManager!Requeue, BoosterManager!Due,
              BoosterFacts!ItemsTypeOK, BoosterFacts!Conserved, BoosterFacts!Tick,
              BoosterFacts!Takers, BoosterFacts!Requeue, BoosterFacts!Due

LEMMA StoneTick ==
    ASSUME StoneManager!ItemsTypeOK, NEW turn, StoneManager!Tick(members, pos, cond, turn)
    PROVE  /\ StoneManager!ItemsTypeOK'
           /\ StoneManager!Conserved => StoneManager!Conserved'
<1>1. ASSUME StoneFacts!ItemsTypeOK, StoneFacts!Tick(members, pos, cond, turn)
      PROVE  /\ StoneFacts!ItemsTypeOK'
             /\ StoneFacts!Conserved => StoneFacts!Conserved'
  BY <1>1, RanksAreNats, StoneFacts!TickKeeps
<1> QED
  BY <1>1 DEF StoneManager!ItemsTypeOK, StoneManager!Conserved, StoneManager!Tick,
              StoneManager!Takers, StoneManager!Requeue, StoneManager!Due,
              StoneFacts!ItemsTypeOK, StoneFacts!Conserved, StoneFacts!Tick,
              StoneFacts!Takers, StoneFacts!Requeue, StoneFacts!Due

\* A step that makes no game and does not tick.
LEMMA SameItems ==
    ASSUME ItemsConserved, UNCHANGED <<boosters, boosterQueue, stones, stoneQueue, stopCh>>,
           boost' \in [Players -> 0..BoosterTicks], slow' \in [Players -> 0..SlowTicks]
    PROVE  ItemsConserved'
BY DEF ItemsConserved, BoosterManager!ItemsTypeOK, BoosterManager!Conserved,
       StoneManager!ItemsTypeOK, StoneManager!Conserved

LEMMA ItemsConservedStep == Core /\ ItemsConserved /\ [Next]_vars => ItemsConserved'
<1> SUFFICES ASSUME Core, ItemsConserved, [Next]_vars PROVE ItemsConserved'
  OBVIOUS
<1> USE DEF gameVars, itemVars
<1>0. boost \in [Players -> 0..BoosterTicks] /\ slow \in [Players -> 0..SlowTicks]
  BY DEF ItemsConserved, BoosterManager!ItemsTypeOK, StoneManager!ItemsTypeOK
<1>a. ASSUME UNCHANGED <<itemVars, stopCh>> PROVE ItemsConserved'
  BY <1>0, <1>a, SameItems
<1>1. CASE UNCHANGED vars
  BY <1>1, <1>a DEF vars
<1>2. ASSUME NEW p \in Players, Client(p) PROVE ItemsConserved'
  BY <1>2, <1>a DEF Client, CreateRoom, JoinRoom, LeaveRoom, SelectTeam, PlayerReady, PlayerMove
<1>3. CASE ReturnToLobby
  BY <1>0, <1>3, SameItems DEF ReturnToLobby, Reset
<1>4. CASE HubStep
  <2>1. CASE PrepareGame
    <3>1. BoosterManager!ItemsTypeOK' /\ BoosterManager!Conserved'
      BY <1>0, <2>1 DEF PrepareGame, BoosterManager!New, BoosterManager!EmptyFcn,
                        BoosterManager!ItemsTypeOK, BoosterManager!Conserved
    <3>2. StoneManager!ItemsTypeOK' /\ StoneManager!Conserved'
      BY <1>0, <2>1 DEF PrepareGame, StoneManager!New, StoneManager!EmptyFcn,
                        StoneManager!ItemsTypeOK, StoneManager!Conserved
    <3> QED
      BY <3>1, <3>2 DEF ItemsConserved
  <2> QED
    BY <1>4, <1>a, <2>1 DEF HubStep, StartGameLoop, SetPosition, SetRole
<1>5. ASSUME NEW l \in Loops, LoopStep(l) PROVE ItemsConserved'
  <2>1. CASE LoopTick(l)
    <3>1. PICK turn : /\ BoosterManager!Tick(members, pos, cond, turn)
                      /\ StoneManager!Tick(members, pos, cond, turn)
      BY <2>1 DEF LoopTick
    <3>2. stopCh' = stopCh
      BY <2>1 DEF LoopTick
    <3> QED
      BY <3>1, <3>2, BoosterTick, StoneTick DEF ItemsConserved
  <2> QED
    BY <1>5, <1>a, <2>1 DEF LoopStep, LoopTop, LoopExit, LoopArrest, LoopRescue, LoopCheck,
                            LoopTooLate, LoopStop, LoopAnnounce
<1> QED
  BY <1>1, <1>2, <1>3, <1>4, <1>5 DEF Next, Finished

\* The boosters and stones of a game are all there, on the map or in the queue,
\* through any number of games, loops and ticks (room.go:249-253, 354-359).
THEOREM ItemsConservedCorrect == Spec => []ItemsConserved
<1>1. Init => ItemsConserved
  BY DEF Init, ItemsConserved, BoosterManager!NoManager, BoosterManager!EmptyFcn,
         BoosterManager!ItemsTypeOK, StoneManager!NoManager, StoneManager!EmptyFcn,
         StoneManager!ItemsTypeOK
<1> QED
  BY CoreCorrect, ItemsConservedStep, <1>1, PTL DEF Spec

(***************************************************************************)
(* Pickups.                                                                 *)
(***************************************************************************)

LEMMA BoosterSwept ==
    ASSUME BoosterManager!ItemsTypeOK, members \in SUBSET Players,
           NEW turn \in BoosterManager!Turns(members), BoosterManager!Tick(members, pos, cond, turn)
    PROVE  Swept(boosters', BoosterReach) /\ Paid(boosters, boosters', boost', BoosterTicks)
<1>1. ASSUME BoosterFacts!ItemsTypeOK, turn \in BoosterFacts!Turns(members),
             BoosterFacts!Tick(members, pos, cond, turn)
      PROVE  /\ \A i \in DOMAIN boosters' : BoosterFacts!Takers(members, pos, cond, boosters'[i]) = {}
             /\ DOMAIN boosters \ DOMAIN boosters' # {} => \E p \in members : boost'[p] = BoosterTicks
  BY <1>1, RanksAreNats, BoosterFacts!TickSweeps
<1>2. BoosterManager!Turns(members) = BoosterFacts!Turns(members)
  BY DEF BoosterManager!Turns, BoosterFacts!Turns
<1>3. BoosterManager!Tick(members, pos, cond, turn) => BoosterFacts!Tick(members, pos, cond, turn)
  BY DEF BoosterManager!Tick, BoosterManager!Takers, BoosterManager!Requeue, BoosterManager!Due,
         BoosterFacts!Tick, BoosterFacts!Takers, BoosterFacts!Requeue, BoosterFacts!Due
<1>4. BoosterManager!ItemsTypeOK => BoosterFacts!ItemsTypeOK
  BY DEF BoosterManager!ItemsTypeOK, BoosterFacts!ItemsTypeOK
<1>5. \A i \in DOMAIN boosters', p \in members :
        <<pos[p], boosters'[i]>> \in BoosterReach => cond[p] = "arrested"
  BY <1>1, <1>2, <1>3, <1>4 DEF BoosterFacts!Takers
<1> QED
  BY <1>1, <1>2, <1>3, <1>4, <1>5 DEF Swept, Paid

LEMMA StoneSwept ==
    ASSUME StoneManager!ItemsTypeOK, members \in SUBSET Players,
           NEW turn \in StoneManager!Turns(members), StoneManager!Tick(members, pos, cond, turn)
    PROVE  Swept(stones', StoneReach) /\ Paid(stones, stones', slow', SlowTicks)
<1>1. ASSUME StoneFacts!ItemsTypeOK, turn \in StoneFacts!Turns(members),
             StoneFacts!Tick(members, pos, cond, turn)
      PROVE  /\ \A i \in DOMAIN stones' : StoneFacts!Takers(members, pos, cond, stones'[i]) = {}
             /\ DOMAIN stones \ DOMAIN stones' # {} => \E p \in members : slow'[p] = SlowTicks
  BY <1>1, RanksAreNats, StoneFacts!TickSweeps
<1>2. StoneManager!Turns(members) = StoneFacts!Turns(members)
  BY DEF StoneManager!Turns, StoneFacts!Turns
<1>3. StoneManager!Tick(members, pos, cond, turn) => StoneFacts!Tick(members, pos, cond, turn)
  BY DEF StoneManager!Tick, StoneManager!Takers, StoneManager!Requeue, StoneManager!Due,
         StoneFacts!Tick, StoneFacts!Takers, StoneFacts!Requeue, StoneFacts!Due
<1>4. StoneManager!ItemsTypeOK => StoneFacts!ItemsTypeOK
  BY DEF StoneManager!ItemsTypeOK, StoneFacts!ItemsTypeOK
<1>5. \A i \in DOMAIN stones', p \in members :
        <<pos[p], stones'[i]>> \in StoneReach => cond[p] = "arrested"
  BY <1>1, <1>2, <1>3, <1>4 DEF StoneFacts!Takers
<1> QED
  BY <1>1, <1>2, <1>3, <1>4, <1>5 DEF Swept, Paid

\* Both managers are ticked with the same list in the same order, with the
\* positions of before the tick and the states of before it.
LEMMA SweptStep ==
    ASSUME Core, ItemsConserved, [Next]_vars, NEW l \in Loops, pc[l] = "select", pc'[l] = "arrest"
    PROVE  /\ Swept(boosters', BoosterReach) /\ Paid(boosters, boosters', boost', BoosterTicks)
           /\ Swept(stones', StoneReach) /\ Paid(stones, stones', slow', SlowTicks)
<1> USE DEF Core, TypeOK, LoopTypeOK, LobbyTypeOK, loopVars
<1>1. LoopTick(l)
  <2>1. CASE UNCHANGED vars
    BY <2>1 DEF vars
  <2>2. ASSUME NEW p \in Players, Client(p) PROVE FALSE
    BY <2>2 DEF Client, CreateRoom, JoinRoom, LeaveRoom, SelectTeam, PlayerReady, PlayerMove
  <2>3. CASE ReturnToLobby \/ HubStep
    BY <2>3 DEF ReturnToLobby, HubStep, PrepareGame, StartGameLoop, SetPosition, SetRole
  <2>4. ASSUME NEW k \in Loops, LoopStep(k) PROVE LoopTick(l)
    BY <2>4 DEF LoopStep, LoopTop, LoopExit, LoopTick, LoopArrest, LoopRescue, LoopCheck,
                LoopTooLate, LoopStop, LoopAnnounce
  <2> QED
    BY <2>1, <2>2, <2>3, <2>4 DEF Next, Finished, vars
<1>2. PICK turn \in BoosterManager!Turns(members) :
        /\ BoosterManager!Tick(members, pos, cond, turn)
        /\ StoneManager!Tick(members, pos, cond, turn)
  BY <1>1 DEF LoopTick
<1>3. turn \in StoneManager!Turns(members)
  BY <1>2 DEF BoosterManager!Turns, StoneManager!Turns
<1> QED
  BY <1>2, <1>3, BoosterSwept, StoneSwept DEF ItemsConserved

\* No tick leaves an item to a player that could have taken it, and none takes an
\* item for nothing (booster.go:97-130, stumble_stone.go:96-128).
THEOREM ItemsSweptCorrect == Spec => ItemsSwept
<1>1. Core /\ ItemsConserved /\ [Next]_vars =>
        [\A l \in Loops : pc[l] = "select" /\ pc'[l] = "arrest" =>
           /\ Swept(boosters', BoosterReach) /\ Paid(boosters, boosters', boost', BoosterTicks)
           /\ Swept(stones', StoneReach) /\ Paid(stones, stones', slow', SlowTicks)]_vars
  BY SweptStep
<1> QED
  BY CoreCorrect, ItemsConservedCorrect, <1>1, PTL DEF Spec, ItemsSwept
(***************************************************************************)
(* The two managers of a room are managers.                                 *)
(***************************************************************************)

LEMMA BoosterTickIsAnyTick ==
    ASSUME members \in SUBSET Players, pos \in [Players -> Positions],
           NEW turn \in BoosterManager!Turns(members), BoosterManager!Tick(members, pos, cond, turn)
    PROVE  BoosterManager!AnyTick
<1>1. ASSUME turn \in BoosterFacts!Turns(members), BoosterFacts!Tick(members, pos, cond, turn)
      PROVE  BoosterFacts!AnyTick
  BY <1>1, RanksAreNats, BoosterFacts!TickIsAnyTick
<1>2. BoosterManager!Turns(members) = BoosterFacts!Turns(members)
  BY DEF BoosterManager!Turns, BoosterFacts!Turns
<1>3. BoosterManager!Tick(members, pos, cond, turn) => BoosterFacts!Tick(members, pos, cond, turn)
  BY DEF BoosterManager!Tick, BoosterManager!Takers, BoosterManager!Requeue, BoosterManager!Due,
         BoosterFacts!Tick, BoosterFacts!Takers, BoosterFacts!Requeue, BoosterFacts!Due
<1>4. BoosterFacts!AnyTick => BoosterManager!AnyTick
  BY DEF BoosterManager!AnyTick, BoosterManager!Turns, BoosterManager!Tick, BoosterManager!Takers, BoosterManager!Requeue, BoosterManager!Due,
         BoosterFacts!AnyTick, BoosterFacts!Turns, BoosterFacts!Tick, BoosterFacts!Takers, BoosterFacts!Requeue, BoosterFacts!Due
<1> QED
  BY <1>1, <1>2, <1>3, <1>4

LEMMA StoneTickIsAnyTick ==
    ASSUME members \in SUBSET Players, pos \in [Players -> Positions],
           NEW turn \in StoneManager!Turns(members), StoneManager!Tick(members, pos, cond, turn)
    PROVE  StoneManager!AnyTick
<1>1. ASSUME turn \in StoneFacts!Turns(members), StoneFacts!Tick(members, pos, cond, turn)
      PROVE  StoneFacts!AnyTick
  BY <1>1, RanksAreNats, StoneFacts!TickIsAnyTick
<1>2. StoneManager!Turns(members) = StoneFacts!Turns(members)
  BY DEF StoneManager!Turns, StoneFacts!Turns
<1>3. StoneManager!Tick(members, pos, cond, turn) => StoneFacts!Tick(members, pos, cond, turn)
  BY DEF StoneManager!Tick, StoneManager!Takers, StoneManager!Requeue, StoneManager!Due,
         StoneFacts!Tick, StoneFacts!Takers, StoneFacts!Requeue, StoneFacts!Due
<1>4. StoneFacts!AnyTick => StoneManager!AnyTick
  BY DEF StoneManager!AnyTick, StoneManager!Turns, StoneManager!Tick, StoneManager!Takers, StoneManager!Requeue, StoneManager!Due,
         StoneFacts!AnyTick, StoneFacts!Turns, StoneFacts!Tick, StoneFacts!Takers, StoneFacts!Requeue, StoneFacts!Due
<1> QED
  BY <1>1, <1>2, <1>3, <1>4

LEMMA ManagersStep ==
    Core /\ [Next]_vars =>
        /\ [BoosterManager!ItemsNext]_(BoosterManager!itemsVars)
        /\ [StoneManager!ItemsNext]_(StoneManager!itemsVars)
<1> SUFFICES ASSUME Core, [Next]_vars
             PROVE  /\ BoosterManager!ItemsNext \/ UNCHANGED BoosterManager!itemsVars
                    /\ StoneManager!ItemsNext \/ UNCHANGED StoneManager!itemsVars
  OBVIOUS
<1> USE DEF BoosterManager!ItemsNext, StoneManager!ItemsNext
<1>0. members \in SUBSET Players /\ pos \in [Players -> Positions]
  BY DEF Core, TypeOK, LobbyTypeOK, GameTypeOK
<1>a. ASSUME UNCHANGED itemVars
      PROVE  UNCHANGED BoosterManager!itemsVars /\ UNCHANGED StoneManager!itemsVars
  BY <1>a DEF itemVars, BoosterManager!itemsVars, StoneManager!itemsVars
<1>1. CASE UNCHANGED vars
  BY <1>1, <1>a DEF vars
<1>2. ASSUME NEW p \in Players, Client(p) PROVE UNCHANGED itemVars
  BY <1>2 DEF Client, CreateRoom, JoinRoom, LeaveRoom, SelectTeam, PlayerReady, PlayerMove
<1>3. CASE ReturnToLobby
  <2>1. BoosterManager!Reset(members)
    BY <1>3 DEF ReturnToLobby, Reset, BoosterManager!Reset
  <2>2. StoneManager!Reset(members)
    BY <1>3 DEF ReturnToLobby, Reset, StoneManager!Reset
  <2> QED
    BY <1>0, <2>1, <2>2
<1>4. CASE PrepareGame
  BY <1>4 DEF PrepareGame, BoosterManager!NewGame, StoneManager!NewGame
<1>5. ASSUME NEW l \in Loops, LoopTick(l)
      PROVE  BoosterManager!AnyTick /\ StoneManager!AnyTick
  <2>1. PICK turn \in BoosterManager!Turns(members) :
          /\ BoosterManager!Tick(members, pos, cond, turn)
          /\ StoneManager!Tick(members, pos, cond, turn)
    BY <1>5 DEF LoopTick
  <2>2. turn \in StoneManager!Turns(members)
    BY <2>1 DEF BoosterManager!Turns, StoneManager!Turns
  <2> QED
    BY <1>0, <2>1, <2>2, BoosterTickIsAnyTick, StoneTickIsAnyTick
<1>6. ASSUME NEW l \in Loops, LoopStep(l), ~LoopTick(l) PROVE UNCHANGED itemVars
  BY <1>6 DEF LoopStep, LoopTop, LoopExit, LoopArrest, LoopRescue, LoopCheck, LoopTooLate,
              LoopStop, LoopAnnounce
<1>7. ASSUME HubStep, ~PrepareGame PROVE UNCHANGED itemVars
  BY <1>7 DEF HubStep, StartGameLoop, SetPosition, SetRole
<1>8. Finished => UNCHANGED vars
  BY DEF Finished
<1> QED
  BY <1>1, <1>2, <1>3, <1>4, <1>5, <1>6, <1>7, <1>8, <1>a DEF Next

\* What Items says of a manager by itself holds of the boosters and of the stones of
\* a room, and so do its proofs: PrepareGame makes new ones, Reset ends the effects
\* of the members, gameLoop ticks them with its list of players, and nothing else in
\* the room touches them (room.go:216-224, 249-253, 354-366).
THEOREM ManagersImplemented == Spec => BoosterManager!ItemsSpec /\ StoneManager!ItemsSpec
<1>1. Init => BoosterManager!Init /\ StoneManager!Init
  BY DEF Init, BoosterManager!Init, StoneManager!Init, BoosterManager!NoManager,
         StoneManager!NoManager, BoosterManager!EmptyFcn, StoneManager!EmptyFcn
<1> QED
  BY CoreCorrect, ManagersStep, <1>1, PTL
  DEF Spec, BoosterManager!ItemsSpec, StoneManager!ItemsSpec

==============================================================================
