-------------------------------- MODULE Room ---------------------------------
(***************************************************************************)
(* One room: room/room.go, the handlers of handler/lobby.go and            *)
(* handler/gameplay.go that act on it, and its game loops.                  *)
(*                                                                          *)
(* Two kinds of goroutines meet here.  The hub goroutine runs every handler *)
(* to its end before the next one; the steps between which it lets go of    *)
(* Room.mu and the loops can tell are separate actions, and hub says where  *)
(* it is.  StartGameLoop starts a goroutine of its own for every game; pc   *)
(* says where each one is.  Room.mu is held by a loop in the middle of a    *)
(* tick, between its actions LoopTick and LoopRescue; every other critical   *)
(* section is a single action.  Every handler takes the lock to find its    *)
(* room; SetRole and SetPosition then write without it, and neither the read *)
(* of Room.stopCh in the select nor CheckPoliceWin in the loop takes it:     *)
(* those actions do not wait for the lock.                                   *)
(***************************************************************************)
EXTENDS Game

CONSTANTS NoPlayer,
          MinPlayers, MaxPlayers,
          GameTicks,            \* GameDuration
          Loops,                \* names for the goroutines; a bound on how many live at once
          MaxGames,             \* bound on the games started
          Boosters, BoosterReach, BoosterRespawnTicks, BoosterTicks,
          Stones, StoneReach, StoneRespawnTicks, SlowTicks

ASSUME RoomAssumption ==
    /\ NoPlayer \notin Players
    /\ MinPlayers \in Nat \ {0}
    /\ MaxPlayers \in Nat /\ MaxPlayers >= MinPlayers
    /\ GameTicks \in Nat \ {0}
    /\ IsFiniteSet(Loops)
    /\ MaxGames \in Nat
    /\ BoosterReach \subseteq Positions \X Positions
    /\ StoneReach \subseteq Positions \X Positions
    /\ {BoosterRespawnTicks, BoosterTicks, StoneRespawnTicks, SlowTicks} \subseteq Nat \ {0}

VARIABLES
    listing,    \* the room in Manager.rooms: "none" yet, "listed", "removed"
    members,    \* the keys of Room.Players
    left,       \* players that were members; their ids never come back
    host,       \* Room.HostID
    ready,      \* Player.Ready
    state,      \* Room.State
    remaining,  \* Room.remainingTime in ticks
    stopCh,     \* Room.stopCh: the number of the game it was made for, 0 for nil
    closed,     \* the channels that are closed
    hub,        \* what is left of the handler the hub goroutine is in
    choice,     \* the player and role of a choice the hub is about to store
    move,       \* the player and position of a move the hub is about to store
    pc,         \* per loop: where it is
    ch,         \* per loop: the channel its select evaluated; once it has ended
                \* a game, that game
    list,       \* per loop: playerList, the members when the tick began
    expired,    \* per loop: timerExpired
    verdict,    \* per loop: the result it is about to call StopGame with
    overs,      \* per game: how often game_over was broadcast (history)
    boosters, boosterQueue, boost,
    stones, stoneQueue, slow

playerVars == <<role, cond, pos, arrestGauge, rescueGauge, invincible>>
gaugeVars == <<arrestGauge, rescueGauge, invincible>>
lobbyVars == <<listing, members, left, host, ready>>
gameVars == <<state, remaining, stopCh, closed>>
hubVars == <<hub, choice, move>>
loopVars == <<pc, ch, list, expired, verdict>>
itemVars == <<boosters, boosterQueue, boost, stones, stoneQueue, slow>>
vars == <<playerVars, lobbyVars, gameVars, hubVars, loopVars, overs, itemVars>>

\* playerList has an order, the same for both managers.
Ranks == 1..Cardinality(Players)

BoosterManager == INSTANCE Items WITH
    Runners <- Players, Spots <- Positions, Item <- Boosters, PickupReach <- BoosterReach,
    RespawnTicks <- BoosterRespawnTicks, EffectTicks <- BoosterTicks,
    active <- boosters, queue <- boosterQueue, effect <- boost

StoneManager == INSTANCE Items WITH
    Runners <- Players, Spots <- Positions, Item <- Stones, PickupReach <- StoneReach,
    RespawnTicks <- StoneRespawnTicks, EffectTicks <- SlowTicks,
    active <- stones, queue <- stoneQueue, effect <- slow

Games == 1..MaxGames
NoChoice == <<NoPlayer, "none">>
NoMove == <<NoPlayer, Origin>>

Init ==
    /\ NewPlayers
    /\ listing = "none" /\ members = {} /\ left = {} /\ host = NoPlayer
    /\ ready = [p \in Players |-> FALSE]
    /\ state = "waiting" /\ remaining = 0 /\ stopCh = 0 /\ closed = {}
    /\ hub = "idle" /\ choice = NoChoice /\ move = NoMove
    /\ pc = [l \in Loops |-> "none"]
    /\ ch = [l \in Loops |-> 0]
    /\ list = [l \in Loops |-> {}]
    /\ expired = [l \in Loops |-> FALSE]
    /\ verdict = [l \in Loops |-> "none"]
    /\ overs = [g \in Games |-> 0]
    /\ BoosterManager!NoManager /\ boost = [p \in Players |-> 0]
    /\ StoneManager!NoManager /\ slow = [p \in Players |-> 0]

\* Room.mu is free.
MuFree == \A l \in Loops : pc[l] \notin {"arrest", "rescue"}

(***************************************************************************)
(* The lobby handlers, run by the hub goroutine.                            *)
(***************************************************************************)

\* Room.AddPlayer, where there is room for p.
AddPlayer(p) ==
    /\ members' = members \cup {p}
    /\ host' = IF members = {} THEN p ELSE host

\* (Mutant of RemovePlayer: the host is not handed over.)
RemovePlayerKeepsHost(p) ==
    /\ members' = members \ {p}
    /\ UNCHANGED host

\* Room.RemovePlayer: any of the others may become the host.
RemovePlayer(p) ==
    /\ members' = members \ {p}
    /\ IF host = p /\ members' # {} THEN host' \in members' ELSE UNCHANGED host

\* HandleCreateRoom: CreateRoom of the manager, NewRoom, AddPlayer.
CreateRoom(p) ==
    /\ hub = "idle" /\ listing = "none"
    /\ listing' = "listed"
    /\ AddPlayer(p)
    /\ UNCHANGED <<playerVars, left, ready, gameVars, hubVars, loopVars, overs, itemVars>>

\* (Mutant of JoinRoom: the room found a moment ago may be removed by now.)
JoinRoomFoundBefore(p) ==
    /\ hub = "idle" /\ listing # "none" /\ MuFree
    /\ p \notin members \cup left
    /\ Cardinality(members) < MaxPlayers
    /\ AddPlayer(p)
    /\ UNCHANGED <<playerVars, listing, left, ready, gameVars, hubVars, loopVars,
                   overs, itemVars>>

\* HandleJoinRoom: neither it nor AddPlayer looks at the state of the room.
\* HandleRandomJoin does the same to a room that is waiting.
JoinRoom(p) ==
    /\ hub = "idle" /\ listing = "listed" /\ MuFree
    /\ p \notin members \cup left
    /\ Cardinality(members) < MaxPlayers
    /\ AddPlayer(p)
    /\ UNCHANGED <<playerVars, listing, left, ready, gameVars, hubVars, loopVars,
                   overs, itemVars>>

\* removePlayer, for leave_room and for a disconnect: RemovePlayer, then
\* RemoveRoom when nobody is left.  The loops of the room are not told.
LeaveRoom(p) ==
    /\ hub = "idle" /\ MuFree
    /\ p \in members
    /\ RemovePlayer(p)
    /\ left' = left \cup {p}
    /\ listing' = IF members' = {} THEN "removed" ELSE listing
    /\ UNCHANGED <<playerVars, ready, gameVars, hubVars, loopVars, overs, itemVars>>

\* (Mutant of CanSelectRole: off by one.)
CanSelectRoleLoosely(r) == r = "police" => Cardinality(Cops(members)) <= MaxPolice

\* CanSelectRole: the player itself is counted too.
CanSelectRole(r) == r = "police" => Cardinality(Cops(members)) < MaxPolice

\* HandleSelectTeam up to the answer of CanSelectRole, in any state of the room.
\* Choosing the role one has changes nothing and is left out.
SelectTeam(p, r) ==
    /\ hub = "idle" /\ MuFree
    /\ p \in members
    /\ r \in {"police", "thief"} /\ r # role[p]
    /\ CanSelectRole(r)
    /\ hub' = "role"
    /\ choice' = <<p, r>>
    /\ UNCHANGED <<playerVars, lobbyVars, gameVars, move, loopVars, overs, itemVars>>

\* Its SetRole: a loop may hold the lock by now.
SetRole ==
    /\ hub = "role"
    /\ role' = [role EXCEPT ![choice[1]] = choice[2]]
    /\ hub' = "idle"
    /\ choice' = NoChoice
    /\ UNCHANGED <<cond, pos, gaugeVars, lobbyVars, gameVars, move, loopVars, overs, itemVars>>

\* (Mutant of AllReady: the number of policemen is not looked at.)
AllReadyNoPolice(rdy) ==
    /\ Cardinality(members) >= MinPlayers
    /\ \A p \in members : rdy[p] /\ role[p] # "none"
    /\ Thieves(members) # {}

\* allReady, for the flags rdy.
AllReady(rdy) ==
    /\ Cardinality(members) >= MinPlayers
    /\ \A p \in members : rdy[p] /\ role[p] # "none"
    /\ Cops(members) # {}
    /\ Thieves(members) # {}

\* What the bounds leave room for: one more game and one more goroutine.
CanStart == stopCh < MaxGames /\ \E l \in Loops : pc[l] = "none"

\* HandlePlayerReady up to its test of allReady, in any state of the room.
PlayerReady(p) ==
    /\ hub = "idle" /\ MuFree
    /\ p \in members
    /\ ready' = [ready EXCEPT ![p] = ~ready[p]]
    /\ hub' = IF AllReady(ready') THEN "prepare" ELSE "idle"
    /\ AllReady(ready') => CanStart
    /\ UNCHANGED <<playerVars, listing, members, left, host, gameVars, choice, move, loopVars,
                   overs, itemVars>>

\* PrepareGame.  Neither the State nor the gauges of the players are reset, and
\* neither are the Boosted and Slowed timers.
PrepareGame ==
    /\ hub = "prepare" /\ MuFree
    /\ state' = "playing"
    /\ remaining' = GameTicks
    /\ stopCh' = stopCh + 1
    /\ Spawn(members)
    /\ BoosterManager!New
    /\ StoneManager!New
    /\ hub' = "start"
    /\ UNCHANGED <<role, cond, gaugeVars, lobbyVars, closed, choice, move, loopVars, overs,
                   boost, slow>>

\* (Mutant of StartGameLoop: none is started while an earlier one is running.)
StartUnlessRunning ==
    /\ hub = "start" /\ MuFree
    /\ IF \A l \in Loops : pc[l] = "none"
       THEN \E l \in Loops : pc' = [pc EXCEPT ![l] = "top"]
       ELSE UNCHANGED pc
    /\ hub' = "idle"
    /\ UNCHANGED <<playerVars, lobbyVars, gameVars, choice, move, ch, list, expired, verdict,
                   overs, itemVars>>

\* The end of HandlePlayerReady: the game_start broadcast, then StartGameLoop.
StartGameLoop ==
    /\ hub = "start" /\ MuFree
    /\ \E l \in Loops : /\ pc[l] = "none"
                        /\ pc' = [pc EXCEPT ![l] = "top"]
    /\ hub' = "idle"
    /\ UNCHANGED <<playerVars, lobbyVars, gameVars, choice, move, ch, list, expired, verdict,
                   overs, itemVars>>

\* Room.Reset.
Reset ==
    /\ state' = "waiting"
    /\ ResetPlayers(members)
    /\ ready' = [p \in Players |-> ready[p] /\ p \notin members]
    /\ boost' = [p \in Players |-> IF p \in members THEN 0 ELSE boost[p]]
    /\ slow' = [p \in Players |-> IF p \in members THEN 0 ELSE slow[p]]

\* (Mutant of ReturnToLobby: the state is not looked at.)
ReturnToLobbyAnyTime ==
    /\ hub = "idle" /\ MuFree
    /\ members # {}
    /\ Reset
    /\ UNCHANGED <<role, listing, members, left, host, remaining, stopCh, closed, hubVars,
                   loopVars, overs, boosters, boosterQueue, stones, stoneQueue>>

\* HandleReturnToLobby: a player of a room that is
\* waiting or playing only gets a message back.
ReturnToLobby ==
    /\ hub = "idle" /\ MuFree
    /\ members # {}
    /\ state = "ended"
    /\ Reset
    /\ UNCHANGED <<role, listing, members, left, host, remaining, stopCh, closed, hubVars,
                   loopVars, overs, boosters, boosterQueue, stones, stoneQueue>>

\* HandlePlayerMove up to the check of Room.State; a move to where one is
\* changes nothing and is left out.  The speed check compares the
\* distance with the time since the last accepted move, which has no bound: any
\* move may pass.  A player may be arrested and still move.
PlayerMove(p, x) ==
    /\ hub = "idle" /\ MuFree
    /\ p \in members
    /\ state = "playing"
    /\ x # pos[p]
    /\ hub' = "move"
    /\ move' = <<p, x>>
    /\ UNCHANGED <<playerVars, lobbyVars, gameVars, choice, loopVars, overs, itemVars>>

\* Its SetPosition: a loop may hold the lock by now, or have ended the game.
SetPosition ==
    /\ hub = "move"
    /\ pos' = [pos EXCEPT ![move[1]] = move[2]]
    /\ hub' = "idle"
    /\ move' = NoMove
    /\ UNCHANGED <<role, cond, gaugeVars, lobbyVars, gameVars, choice, loopVars, overs,
                   itemVars>>

(***************************************************************************)
(* gameLoop, one goroutine per started game.                                *)
(***************************************************************************)

\* Entering the select evaluates r.stopCh, without the lock: from now on this
\* round listens to the channel of that moment.
LoopTop(l) ==
    /\ pc[l] = "top"
    /\ ch' = [ch EXCEPT ![l] = stopCh]
    /\ pc' = [pc EXCEPT ![l] = "select"]
    /\ UNCHANGED <<playerVars, lobbyVars, gameVars, hubVars, list, expired, verdict,
                   overs, itemVars>>

\* The channel is closed: return.
LoopExit(l) ==
    /\ pc[l] = "select"
    /\ ch[l] \in closed
    /\ pc' = [pc EXCEPT ![l] = "none"]
    /\ ch' = [ch EXCEPT ![l] = 0]
    /\ UNCHANGED <<playerVars, lobbyVars, gameVars, hubVars, list, expired, verdict,
                   overs, itemVars>>

\* (Mutant of Countdown: time stands still in a room without players.)
CountdownWhileOccupied == IF members = {} THEN remaining ELSE remaining - 1

\* What a tick leaves of the time, whatever the state of the room.
Countdown == remaining - 1

\* The ticker fired: lock, count the time down, take the list of players, run
\* the timers and the items.  When the channel is closed as well, select is free
\* to choose the ticker.
LoopTick(l) ==
    /\ pc[l] = "select" /\ MuFree
    /\ remaining' = Countdown
    /\ expired' = [expired EXCEPT ![l] = (Countdown <= 0)]
    /\ list' = [list EXCEPT ![l] = members]
    /\ InvincibilityPhase(members)
    /\ \E turn \in BoosterManager!Turns(members) :
         /\ BoosterManager!Tick(members, pos, cond, turn)
         /\ StoneManager!Tick(members, pos, cond, turn)
    /\ pc' = [pc EXCEPT ![l] = "arrest"]
    /\ ch' = [ch EXCEPT ![l] = 0]
    /\ UNCHANGED <<role, pos, arrestGauge, rescueGauge, lobbyVars, state, stopCh, closed,
                   hubVars, verdict, overs>>

LoopArrest(l) ==
    /\ pc[l] = "arrest"
    /\ ArrestPhase(list[l])
    /\ pc' = [pc EXCEPT ![l] = "rescue"]
    /\ UNCHANGED <<role, pos, rescueGauge, invincible, lobbyVars, gameVars, hubVars, ch,
                   list, expired, verdict, overs, itemVars>>

\* The rescue mechanics and the unlock.
LoopRescue(l) ==
    /\ pc[l] = "rescue"
    /\ RescuePhase(list[l])
    /\ pc' = [pc EXCEPT ![l] = "check"]
    /\ UNCHANGED <<role, pos, lobbyVars, gameVars, hubVars, ch, list, expired, verdict,
                   overs, itemVars>>

\* After the game_state broadcast: CheckPoliceWin on the players the tick began
\* with, as they are now, without the lock; then the timer, as it was found in
\* the tick.
LoopCheck(l) ==
    /\ pc[l] = "check"
    /\ LET result == IF PoliceWin(list[l]) THEN "police"
                     ELSE IF expired[l] THEN "thief" ELSE "none"
       IN /\ verdict' = [verdict EXCEPT ![l] = result]
          /\ pc' = [pc EXCEPT ![l] = IF result = "none" THEN "top" ELSE "stop"]
    /\ list' = [list EXCEPT ![l] = {}]
    /\ expired' = [expired EXCEPT ![l] = FALSE]
    /\ UNCHANGED <<playerVars, lobbyVars, gameVars, hubVars, ch, overs, itemVars>>

\* StopGame in its critical section, on a room that is not playing: the loop
\* returns.
LoopTooLate(l) ==
    /\ pc[l] = "stop" /\ MuFree
    /\ state # "playing"
    /\ pc' = [pc EXCEPT ![l] = "none"]
    /\ verdict' = [verdict EXCEPT ![l] = "none"]
    /\ UNCHANGED <<playerVars, lobbyVars, gameVars, hubVars, ch, list, expired, overs,
                   itemVars>>

\* (Mutant of LoopStop: the channel is not closed.)
LoopStopWithoutClose(l) ==
    /\ pc[l] = "stop" /\ MuFree
    /\ state = "playing"
    /\ state' = "ended"
    /\ pc' = [pc EXCEPT ![l] = "announce"]
    /\ ch' = [ch EXCEPT ![l] = stopCh]
    /\ UNCHANGED <<playerVars, lobbyVars, remaining, stopCh, closed, hubVars, list,
                   expired, verdict, overs, itemVars>>

\* StopGame in its critical section: end whatever game the room is playing now.
\* A channel that is closed already is not closed again.
LoopStop(l) ==
    /\ pc[l] = "stop" /\ MuFree
    /\ state = "playing"
    /\ state' = "ended"
    /\ closed' = closed \cup {stopCh}
    /\ pc' = [pc EXCEPT ![l] = "announce"]
    /\ ch' = [ch EXCEPT ![l] = stopCh]
    /\ UNCHANGED <<playerVars, lobbyVars, remaining, stopCh, hubVars, list, expired,
                   verdict, overs, itemVars>>

\* (Mutant of LoopAnnounce: nothing is told once the room has moved on.)
LoopAnnounceIfEnded(l) ==
    /\ pc[l] = "announce" /\ MuFree
    /\ overs' = IF state = "ended" THEN [overs EXCEPT ![ch[l]] = @ + 1] ELSE overs
    /\ pc' = [pc EXCEPT ![l] = "none"]
    /\ ch' = [ch EXCEPT ![l] = 0]
    /\ verdict' = [verdict EXCEPT ![l] = "none"]
    /\ UNCHANGED <<playerVars, lobbyVars, gameVars, hubVars, list, expired, itemVars>>

\* (Mutant of LoopAnnounce: the loop does not return after StopGame.)
LoopAnnounceGoesOn(l) ==
    /\ pc[l] = "announce" /\ MuFree
    /\ overs' = [overs EXCEPT ![ch[l]] = @ + 1]
    /\ pc' = [pc EXCEPT ![l] = "top"]
    /\ ch' = [ch EXCEPT ![l] = 0]
    /\ verdict' = [verdict EXCEPT ![l] = "none"]
    /\ UNCHANGED <<playerVars, lobbyVars, gameVars, hubVars, list, expired, itemVars>>

\* StopGame after the unlock: broadcast game_over to those who are in the room by
\* now; the loop returns.
LoopAnnounce(l) ==
    /\ pc[l] = "announce" /\ MuFree
    /\ overs' = [overs EXCEPT ![ch[l]] = @ + 1]
    /\ pc' = [pc EXCEPT ![l] = "none"]
    /\ ch' = [ch EXCEPT ![l] = 0]
    /\ verdict' = [verdict EXCEPT ![l] = "none"]
    /\ UNCHANGED <<playerVars, lobbyVars, gameVars, hubVars, list, expired, itemVars>>

LoopStep(l) ==
    \/ LoopTop(l) \/ LoopExit(l) \/ LoopTick(l) \/ LoopArrest(l) \/ LoopRescue(l)
    \/ LoopCheck(l) \/ LoopTooLate(l) \/ LoopStop(l) \/ LoopAnnounce(l)

Client(p) ==
    \/ CreateRoom(p) \/ JoinRoom(p) \/ LeaveRoom(p)
    \/ \E r \in Roles : SelectTeam(p, r)
    \/ PlayerReady(p)
    \/ \E x \in Positions : PlayerMove(p, x)

\* The hub goroutine goes on with the handler it is in.
HubStep == SetRole \/ PrepareGame \/ StartGameLoop \/ SetPosition

\* Everybody has left and every goroutine of the room has returned.
Finished ==
    /\ listing = "removed" /\ hub = "idle"
    /\ \A l \in Loops : pc[l] = "none"
    /\ UNCHANGED vars

Next ==
    \/ \E p \in Players : Client(p)
    \/ ReturnToLobby
    \/ HubStep
    \/ \E l \in Loops : LoopStep(l)
    \/ Finished

Spec == Init /\ [][Next]_vars

\* The scheduler runs every goroutine that can run, and the ticker keeps firing.
\* Clients owe nothing.
FairSpec == Spec /\ WF_vars(HubStep) /\ \A l \in Loops : WF_vars(LoopStep(l))

(***************************************************************************)
(* Invariants.                                                              *)
(***************************************************************************)

LobbyTypeOK ==
    /\ listing \in {"none", "listed", "removed"}
    /\ members \subseteq Players
    /\ left \subseteq Players
    /\ host \in Players \cup {NoPlayer}
    /\ ready \in [Players -> BOOLEAN]
    /\ hub \in {"idle", "role", "prepare", "start", "move"}
    /\ choice \in (Players \cup {NoPlayer}) \X Roles
    /\ hub = "role" => choice[1] \in Players
    /\ move \in (Players \cup {NoPlayer}) \X Positions
    /\ hub = "move" => move[1] \in Players

LoopTypeOK ==
    /\ state \in {"waiting", "playing", "ended"}
    /\ remaining \in Int
    /\ stopCh \in Nat
    /\ closed \subseteq 1..stopCh
    /\ pc \in [Loops -> {"none", "top", "select", "arrest", "rescue", "check", "stop",
                         "announce"}]
    /\ ch \in [Loops -> 0..stopCh]
    /\ list \in [Loops -> SUBSET Players]
    /\ expired \in [Loops -> BOOLEAN]
    /\ verdict \in [Loops -> {"none", "police", "thief"}]
    /\ overs \in [Games -> Nat]

\* Every variable has its type; the gauges never hold a full gauge, and the
\* channels that are closed were made.
TypeOK == GameTypeOK /\ LobbyTypeOK /\ LoopTypeOK

\* Room.HostID names a member as long as the room has one, whoever left and in
\* whatever order (AddPlayer, RemovePlayer).
HostIsMember == members # {} => host \in members

\* A room never has more than MaxPlayers members (AddPlayer), nor more than
\* MaxPolice policemen (CanSelectRole), in whatever state players join it, leave
\* it and change sides.
WithinLimits == /\ Cardinality(members) <= MaxPlayers
                /\ Cardinality(Cops(members)) <= MaxPolice

\* A game is prepared and started only for a room where everybody is ready and
\* both teams are manned, although PrepareGame takes the lock anew after
\* TogglePlayerReady has let go of it.
StartsWithBothTeams ==
    hub \in {"prepare", "start"} =>
        /\ Cardinality(members) >= MinPlayers
        /\ \A p \in members : ready[p]
        /\ \E p, q \in members : role[p] = "police" /\ role[q] = "thief"

\* The stop channel tells what the state says: open exactly while a game is
\* played.  So a loop of a playing room never returns through its channel, no
\* loop waits on a nil channel, and StopGame never finds the channel of a
\* playing room closed (closing it twice would panic).
ChannelTracksState ==
    /\ state = "playing" => stopCh # 0 /\ stopCh \notin closed
    /\ state # "playing" => stopCh = 0 \/ stopCh \in closed

\* The loop will tick or stop the room again before it returns.
Live(l) ==
    \/ pc[l] \in {"top", "arrest", "rescue", "check", "stop"}
    \/ pc[l] = "select" /\ ch[l] \notin closed

\* A playing room is never left without a goroutine that will end its game: not
\* by a restart in the middle of a game, not by a loop that returns because
\* another one ended a game.
PlayingHasLoop == state = "playing" => hub = "start" \/ \E l \in Loops : Live(l)

\* game_over is broadcast at most once for a game, although several loops may
\* reach StopGame with a verdict, and only for a game whose channel was closed.
GameOverOnce ==
    \A g \in Games : overs[g] <= IF g \in closed THEN 1 ELSE 0

\* Loops that may still tick or stop the room, and games that were restarted over:
\* their channel was replaced without being closed.
Busy == {l \in Loops : pc[l] \notin {"none", "announce"}}
Restarted == (1..stopCh - 1) \ closed

One(b) == IF b THEN 1 ELSE 0

\* A room never has more loops than the game it plays and one for each restart in
\* the middle of a game, whatever loop ended which game: nothing but such a
\* restart leaves a stray loop, and no other one starts beside it.
LoopsCounted ==
    Cardinality(Busy) + One(hub = "start") <= Cardinality(Restarted) + One(state = "playing")

\* In a room that was never restarted in the middle of a game, a loop that is about
\* to end the game because the time is up does so when it is: the verdict was
\* taken from a tick of this game, although it was found in a critical section
\* that is over.
TimeoutIsOfThisGame ==
    Restarted = {} => \A l \in Loops : pc[l] = "stop" /\ verdict[l] = "thief" => remaining <= 0

\* A player is invincible exactly as long as its timer runs: the timer of a
\* player is never dropped by a reset, a restart or a change of role, which would
\* leave it invincible for ever.
InvincibleHasTimer == \A p \in Players : cond[p] = "invincible" <=> invincible[p] > 0

\* Who has chosen no side plays no part in arrests and rescues: a player that
\* joins in the middle of a game stands at (0,0) among the others, and is neither
\* arrested, nor does it count time towards an arrest or a rescue.
RolelessStayOut ==
    \A p \in Players : role[p] = "none" =>
        /\ cond[p] = "free" /\ invincible[p] = 0
        /\ arrestGauge[p] = 0 /\ rescueGauge[p] = 0

\* Boosters and stones are neither lost nor doubled: each one is on the map or in
\* the respawn queue (there are none before the first game), and no timer in the
\* queue is left behind at zero or runs longer than a respawn.
ItemsConserved ==
    /\ BoosterManager!ItemsTypeOK /\ StoneManager!ItemsTypeOK
    /\ stopCh > 0 => BoosterManager!Conserved /\ StoneManager!Conserved

(***************************************************************************)
(* Action properties.                                                       *)
(***************************************************************************)

\* A room that waits in the lobby is not moved to ended by a loop that is still
\* on its way with the verdict of an earlier game.
LobbyIsNotEnded == [][state = "waiting" => state' # "ended"]_vars

\* A tick leaves no item within reach of a player that could take it, and what it
\* takes off the map is not wasted: somebody starts a full effect.
Swept(items, reach) ==
    \A i \in DOMAIN items, p \in members :
        <<pos[p], items[i]>> \in reach => cond[p] = "arrested"
Paid(before, after, effect, ticks) ==
    DOMAIN before \ DOMAIN after # {} => \E p \in members : effect[p] = ticks

ItemsSwept ==
    [][\A l \in Loops : pc[l] = "select" /\ pc'[l] = "arrest" =>
         /\ Swept(boosters', BoosterReach) /\ Paid(boosters, boosters', boost', BoosterTicks)
         /\ Swept(stones', StoneReach) /\ Paid(stones, stones', slow', SlowTicks)]_vars

\* What the goroutine l has before it at most, while nobody restarts the game: the
\* rounds that are left on the clock, one more if it is in a round in which the clock
\* had not run out, and the rest of its round.
RestOfRound == [none |-> 0, announce |-> 1, stop |-> 2, check |-> 3, rescue |-> 4,
                arrest |-> 5, select |-> 6, top |-> 7]
StepsAhead(l) ==
    IF pc[l] = "none" THEN 0
    ELSE 8 * (IF remaining > 0 THEN remaining ELSE 0)
         + (IF pc[l] \in {"arrest", "rescue", "check"} /\ ~expired[l] THEN 8 ELSE 0)
         + RestOfRound[pc[l]]

\* A room that is gone from the manager only winds down: nobody comes back to it, no
\* step brings a goroutine further from its return and every step brings one nearer,
\* so that their number is bounded whatever the scheduler does.
WindsDown ==
    [][listing = "removed" =>
         /\ listing' = "removed" /\ members' = {}
         /\ \A l \in Loops : StepsAhead(l)' <= StepsAhead(l)
         /\ \E l \in Loops : StepsAhead(l)' < StepsAhead(l)]_vars

\* The loop l runs its rescue mechanics; Reset brings the room back to the lobby;
\* p gets out of jail.
Rescuing(l) == pc[l] = "rescue" /\ pc'[l] = "check"
Resetting == state = "ended" /\ state' = "waiting"
Freed(p) == cond[p] = "arrested" /\ cond'[p] # "arrested"

\* A rescue takes a free thief at the jail and frees every arrested thief of the
\* room at once; nothing else but the return to the lobby frees anybody.
RescueFreesAll ==
    [][\A p \in Players : Freed(p) /\ ~Resetting =>
         \E l \in Loops : /\ Rescuing(l)
                          /\ Rescuers(list[l]) # {}
                          /\ \A t \in Thieves(list[l]) : cond'[t] # "arrested"]_vars

(***************************************************************************)
(* Liveness, under FairSpec.                                                *)
(***************************************************************************)

\* Once the room is gone from the manager, all of its goroutines return: a room
\* leaks none.
LoopsReturn == listing = "removed" ~> \A l \in Loops : pc[l] = "none"

(***************************************************************************)
(* Refinement.                                                              *)
(***************************************************************************)
Abstract == INSTANCE Match WITH
    phase <- state, game <- stopCh, over <- closed, told <- overs

\* Room.State, the stop channel and the game_over broadcasts behave as Match
\* says; with FairSpec they also make the progress it says.
ImplementsMatch == Abstract!Spec
ImplementsFairMatch == Abstract!FairSpec

OneRoom == INSTANCE Directory WITH
    Codes <- {"room"},
    listed <- IF listing = "listed" THEN {"room"} ELSE {},
    place <- [p \in Players |-> IF p \in members THEN "room"
                                ELSE IF p \in left THEN "gone" ELSE "new"]

\* The members come and go as Directory says, in whatever state the room is: it
\* is listed while somebody is in it, nobody joins it after it was removed, and
\* nobody who left comes back.
ImplementsDirectory == OneRoom!Spec
==============================================================================
