-------------------------------- MODULE Items --------------------------------
(***************************************************************************)
(* One item manager of a room: the BoosterManager of game/booster.go or    *)
(* the StumbleStoneManager of game/stumble_stone.go, which differ only in  *)
(* their constants and in the effect a pickup has on the player.  Room     *)
(* takes this module twice by INSTANCE.                                     *)
(*                                                                          *)
(* An item is either on the map or waiting in the respawn queue.  The code *)
(* gives a respawned item a new id; here an item keeps its name, which     *)
(* makes the queue and the map two partial functions of the same set.      *)
(* Queue order is left out: timers are independent of each other.          *)
(***************************************************************************)
EXTENDS Integers

CONSTANTS Item,          \* as many as MaxBoosters (MaxStumbleStones)
          Runners,       \* the players, those to come included
          Ranks,         \* numbers for the order in which a tick meets the players;
                         \* at least as many as there are players
          Spots,         \* the positions
          PickupReach,   \* pairs <<player position, item position>> in pickup range
          RespawnTicks,  \* BoosterRespawnTime (StumbleRespawnTime) in ticks
          EffectTicks    \* BoosterDuration (StumbleSlowDuration) in ticks

ASSUME ItemsAssumption ==
    /\ Ranks \subseteq Nat
    /\ PickupReach \subseteq Spots \X Spots
    /\ RespawnTicks \in Nat \ {0}
    /\ EffectTicks \in Nat \ {0}

VARIABLES active,  \* Active: item -> position, for the items on the map
          queue,   \* RespawnQueue: item -> ticks left, for the others
          effect   \* BoostTimer (SlowTimer) of each player in ticks; Boosted
                   \* (Slowed) is effect > 0, the two are always set together

EmptyFcn == [i \in {} |-> 0]

\* The room has no manager before its first game.
NoManager == /\ active = EmptyFcn
             /\ queue = EmptyFcn

\* NewBoosterManager: every item is spawned.  spawnBooster draws positions
\* until one is clear of the others and keeps its last draw when it runs out of
\* attempts, so that any position may come out.
New == /\ active' \in [Item -> Spots]
       /\ queue' = EmptyFcn

\* The items whose respawn timer runs out in this tick.
Due == {i \in DOMAIN queue : queue[i] <= 1}

\* (Mutant of Takers: who has an effect already takes nothing.)
TakersWithoutEffect(players, pos, cond, x) ==
    {p \in players : /\ cond[p] # "arrested"
                     /\ effect[p] = 0
                     /\ <<pos[p], x>> \in PickupReach}

\* The players of the list that can take an item lying at x.
Takers(players, pos, cond, x) ==
    {p \in players : cond[p] # "arrested" /\ <<pos[p], x>> \in PickupReach}

\* (Mutant of Requeue: a picked item is not queued.)
NoRequeue(picked) == [i \in DOMAIN queue \ Due |-> queue[i] - 1]

\* The queue after a tick: the timers that go on, and a full one for every item
\* that was picked up.
Requeue(picked) ==
    [i \in (DOMAIN queue \ Due) \cup picked |->
        IF i \in picked THEN RespawnTicks ELSE queue[i] - 1]

\* The orders in which CheckPickup may range over the players.
Turns(players) ==
    {t \in [players -> Ranks] : \A p, q \in players : t[p] = t[q] => p = q}

\* One tick: UpdatePlayerBoosts, then Update, then CheckPickup.  turn is the
\* order in which CheckPickup meets the players: the first one in range takes
\* the item, and one player may take several.
Tick(players, pos, cond, turn) ==
    \E spot \in [Due -> Spots] :
      LET onMap == [i \in DOMAIN active \cup Due |->
                      IF i \in Due THEN spot[i] ELSE active[i]]
          takers == [i \in DOMAIN onMap |-> Takers(players, pos, cond, onMap[i])]
          picked == {i \in DOMAIN onMap : takers[i] # {}}
          lucky == {p \in players :
                      \E i \in picked : /\ p \in takers[i]
                                        /\ \A q \in takers[i] : turn[p] <= turn[q]}
      IN /\ active' = [i \in DOMAIN onMap \ picked |-> onMap[i]]
         /\ queue' = Requeue(picked)
         /\ effect' = [p \in Runners |->
                         IF p \in lucky THEN EffectTicks
                         ELSE IF p \in players /\ effect[p] > 0 THEN effect[p] - 1
                         ELSE effect[p]]

(***************************************************************************)
(* The manager by itself: between two ticks any player may move, be         *)
(* arrested or set free, join or leave, and a new game brings new managers. *)
(***************************************************************************)

Init == NoManager /\ effect = [p \in Runners |-> 0]

NewGame == New /\ UNCHANGED effect

\* Player.Reset of some players.
Reset(players) == /\ effect' = [p \in Runners |-> IF p \in players THEN 0 ELSE effect[p]]
                  /\ UNCHANGED <<active, queue>>

AnyTick ==
    \E players \in SUBSET Runners :
      \E pos \in [players -> Spots], cond \in [players -> {"free", "arrested"}],
         turn \in Turns(players) : Tick(players, pos, cond, turn)

itemsVars == <<active, queue, effect>>

ItemsNext == NewGame \/ (\E players \in SUBSET Runners : Reset(players)) \/ AnyTick

ItemsSpec == Init /\ [][ItemsNext]_itemsVars

\* Both partial functions are on the items, every timer in the queue is running,
\* and no effect is longer than a full one.
ItemsTypeOK ==
    /\ DOMAIN active \subseteq Item
    /\ DOMAIN queue \subseteq Item
    /\ active \in [DOMAIN active -> Spots]
    /\ queue \in [DOMAIN queue -> 1..RespawnTicks]
    /\ effect \in [Runners -> 0..EffectTicks]

\* No item is lost and none is doubled: each one is on the map or in the
\* respawn queue, never in both, whatever is picked up and respawned in one
\* tick.
Conserved ==
    /\ DOMAIN active \cup DOMAIN queue = Item
    /\ DOMAIN active \cap DOMAIN queue = {}

\* The same for a room, which has no items before its first game.
ConservedOnceMade == active # EmptyFcn \/ queue # EmptyFcn => Conserved
==============================================================================
