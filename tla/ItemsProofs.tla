----------------------------- MODULE ItemsProofs -----------------------------
(***************************************************************************)
(* An item manager keeps its items, for any items, map and durations.       *)
(***************************************************************************)
EXTENDS Items, WellFoundedInduction, TLAPS

USE ItemsAssumption

\* What a tick leaves of the two partial functions, without how it picks.
LEMMA TickEffect ==
    ASSUME ItemsTypeOK, NEW players, NEW pos, NEW cond, NEW turn,
           Tick(players, pos, cond, turn)
    PROVE  \E onMap \in [DOMAIN active \cup Due -> Spots], picked \in SUBSET (DOMAIN active \cup Due) :
             /\ active' = [i \in DOMAIN onMap \ picked |-> onMap[i]]
             /\ queue' = Requeue(picked)
             /\ effect' \in [Runners -> 0..EffectTicks]
<1>1. PICK spot \in [Due -> Spots] :
        LET onMap == [i \in DOMAIN active \cup Due |->
                        IF i \in Due THEN spot[i] ELSE active[i]]
            takers == [i \in DOMAIN onMap |-> Takers(players, pos, cond, onMap[i])]
            picked == {i \in DOMAIN onMap : takers[i] # {}}
            lucky == {p \in players :
                        \E i \in picked : /\ p \in takers[i]
                                          /\ \A q \in takers[i] : turn[p] <= turn[q]}
        IN /\ active' = [i \in DOMAIN onMap \ picked |-> onMap[i]]
           /\ queue' = Requeue(picked)
           /\ effect' = [p \in Runners |->
                           IF p \in lucky THEN EffectTicks
                           ELSE IF p \in players /\ effect[p] > 0 THEN effect[p] - 1
                           ELSE effect[p]]
  BY DEF Tick
<1> DEFINE onMap == [i \in DOMAIN active \cup Due |->
                       IF i \in Due THEN spot[i] ELSE active[i]]
           takers == [i \in DOMAIN onMap |-> Takers(players, pos, cond, onMap[i])]
           picked == {i \in DOMAIN onMap : takers[i] # {}}
           lucky == {p \in players :
                       \E i \in picked : /\ p \in takers[i]
                                         /\ \A q \in takers[i] : turn[p] <= turn[q]}
<1>2. /\ active' = [i \in DOMAIN onMap \ picked |-> onMap[i]]
      /\ queue' = Requeue(picked)
      /\ effect' = [p \in Runners |->
                      IF p \in lucky THEN EffectTicks
                      ELSE IF p \in players /\ effect[p] > 0 THEN effect[p] - 1
                      ELSE effect[p]]
  BY <1>1
<1>3. onMap \in [DOMAIN active \cup Due -> Spots]
  BY DEF ItemsTypeOK
<1>4. picked \in SUBSET (DOMAIN active \cup Due)
  OBVIOUS
<1>5. effect' \in [Runners -> 0..EffectTicks]
  <2> HIDE DEF lucky
  <2> QED
    BY <1>2 DEF ItemsTypeOK
<1> HIDE DEF onMap, picked, lucky
<1> QED
  BY <1>2, <1>3, <1>4, <1>5

\* A tick (booster.go:81-141, stumble_stone.go:81-140) keeps the types, and loses
\* and doubles no item.
LEMMA TickKeeps ==
    ASSUME ItemsTypeOK, NEW players, NEW pos, NEW cond, NEW turn,
           Tick(players, pos, cond, turn)
    PROVE  ItemsTypeOK' /\ (Conserved => Conserved')
<1>1. PICK onMap \in [DOMAIN active \cup Due -> Spots],
           picked \in SUBSET (DOMAIN active \cup Due) :
             /\ active' = [i \in DOMAIN onMap \ picked |-> onMap[i]]
             /\ queue' = Requeue(picked)
             /\ effect' \in [Runners -> 0..EffectTicks]
  BY TickEffect
<1>2. /\ DOMAIN active' = (DOMAIN active \cup Due) \ picked
      /\ active' \in [DOMAIN active' -> Spots]
  BY <1>1
<1>3. Due \subseteq DOMAIN queue
  BY DEF Due
<1>4. DOMAIN queue' = (DOMAIN queue \ Due) \cup picked
  BY <1>1 DEF Requeue
<1>5. queue' \in [DOMAIN queue' -> 1..RespawnTicks]
  <2>1. ASSUME NEW i \in DOMAIN queue', i \notin picked PROVE queue'[i] \in 1..RespawnTicks
    <3>1. i \in DOMAIN queue /\ i \notin Due /\ queue'[i] = queue[i] - 1
      BY <1>1, <1>4, <2>1 DEF Requeue
    <3>2. queue[i] \in 1..RespawnTicks /\ ~(queue[i] <= 1)
      BY <3>1 DEF Due, ItemsTypeOK
    <3> QED
      BY <3>1, <3>2
  <2>2. ASSUME NEW i \in DOMAIN queue', i \in picked PROVE queue'[i] \in 1..RespawnTicks
    BY <1>1, <1>4, <2>2 DEF Requeue
  <2>3. queue' = [i \in DOMAIN queue' |-> queue'[i]]
    BY <1>1, <1>4 DEF Requeue
  <2> QED
    BY <2>1, <2>2, <2>3
<1>6. DOMAIN active' \subseteq Item /\ DOMAIN queue' \subseteq Item
  BY <1>2, <1>3, <1>4 DEF ItemsTypeOK
<1>7. ItemsTypeOK'
  BY <1>1, <1>2, <1>5, <1>6 DEF ItemsTypeOK
<1>8. ASSUME Conserved PROVE Conserved'
  BY <1>2, <1>3, <1>4, <1>8 DEF Conserved
<1> QED
  BY <1>7, <1>8

\* A new manager has all the items on the map.
LEMMA NewKeeps == ASSUME ItemsTypeOK, New, UNCHANGED effect PROVE ItemsTypeOK' /\ Conserved'
BY DEF ItemsTypeOK, New, EmptyFcn, Conserved

ItemsInv == ItemsTypeOK /\ ConservedOnceMade

LEMMA ItemsInit == Init => ItemsInv
BY DEF Init, NoManager, EmptyFcn, ItemsInv, ItemsTypeOK, ConservedOnceMade

LEMMA ItemsStep == ItemsInv /\ [ItemsNext]_itemsVars => ItemsInv'
<1> SUFFICES ASSUME ItemsInv, [ItemsNext]_itemsVars PROVE ItemsInv'
  OBVIOUS
<1> USE DEF ItemsInv
<1>1. CASE UNCHANGED itemsVars
  BY <1>1 DEF itemsVars, ItemsTypeOK, ConservedOnceMade, Conserved
<1>2. CASE NewGame
  BY <1>2, NewKeeps DEF NewGame, ConservedOnceMade
<1>3. ASSUME NEW players \in SUBSET Runners, Reset(players) PROVE ItemsInv'
  BY <1>3 DEF Reset, ItemsTypeOK, ConservedOnceMade, Conserved
<1>4. CASE AnyTick
  <2>1. PICK players, pos, cond, turn : Tick(players, pos, cond, turn)
    BY <1>4 DEF AnyTick
  <2>2. ItemsTypeOK' /\ (Conserved => Conserved')
    BY <2>1, TickKeeps
  <2>3. CASE Conserved
    BY <2>2, <2>3 DEF ConservedOnceMade
  <2>4. CASE ~Conserved
    <3>1. active = EmptyFcn /\ queue = EmptyFcn
      BY <2>4 DEF ConservedOnceMade
    <3>2. Due = {}
      BY <3>1 DEF Due, EmptyFcn
    <3>3. PICK onMap \in [DOMAIN active \cup Due -> Spots],
               picked \in SUBSET (DOMAIN active \cup Due) :
                 /\ active' = [i \in DOMAIN onMap \ picked |-> onMap[i]]
                 /\ queue' = Requeue(picked)
      BY <2>1, TickEffect
    <3>4. active' = EmptyFcn /\ queue' = EmptyFcn
      BY <3>1, <3>2, <3>3 DEF EmptyFcn, Requeue
    <3> QED
      BY <2>2, <3>4 DEF ConservedOnceMade, EmptyFcn
  <2> QED
    BY <2>2, <2>3, <2>4
<1> QED
  BY <1>1, <1>2, <1>3, <1>4 DEF ItemsNext

\* The map and the queue stay partial functions of the items with running timers,
\* and no effect is longer than a full one.
THEOREM ItemsTypeCorrect == ItemsSpec => []ItemsTypeOK
<1>1. ItemsInv => ItemsTypeOK
  BY DEF ItemsInv
<1> QED
  BY ItemsInit, ItemsStep, <1>1, PTL DEF ItemsSpec

\* No booster and no stone is lost or doubled, whatever is picked up and
\* respawned in one tick (booster.go:81-130).
THEOREM ConservedCorrect == ItemsSpec => []ConservedOnceMade
<1>1. ItemsInv => ConservedOnceMade
  BY DEF ItemsInv
<1> QED
  BY ItemsInit, ItemsStep, <1>1, PTL DEF ItemsSpec

\* In a nonempty set of naturals there is a smallest one.
LEMMA SmallestOne ==
    ASSUME NEW S \in SUBSET Nat, S # {}
    PROVE  \E n \in S : \A k \in S : n <= k
<1>1. PICK n \in S : \A k \in S : <<k, n>> \notin OpToRel(<, Nat)
  BY NatLessThanWellFounded, WFMin, Zenon
<1>2. \A k \in S : <<k, n>> \in Nat \X Nat
  OBVIOUS
<1>3. \A k \in S : ~ (k < n)
  BY <1>1, <1>2, Zenon DEF OpToRel
<1>4. \A k \in S : n <= k
  BY <1>3
<1> QED
  BY <1>4

(***************************************************************************)
(* Pickups.                                                                 *)
(***************************************************************************)

\* A tick leaves on the map only what nobody in the list can take, and who comes
\* first among the takers of an item that goes off the map starts a full effect.
LEMMA TickSweeps ==
    ASSUME ItemsTypeOK, NEW players \in SUBSET Runners, NEW pos, NEW cond,
           NEW turn \in Turns(players), Tick(players, pos, cond, turn)
    PROVE  /\ \A i \in DOMAIN active' : Takers(players, pos, cond, active'[i]) = {}
           /\ DOMAIN active \ DOMAIN active' # {} => \E p \in players : effect'[p] = EffectTicks
<1>1. PICK spot \in [Due -> Spots] :
        LET onMap == [i \in DOMAIN active \cup Due |->
                        IF i \in Due THEN spot[i] ELSE active[i]]
            takers == [i \in DOMAIN onMap |-> Takers(players, pos, cond, onMap[i])]
            picked == {i \in DOMAIN onMap : takers[i] # {}}
            lucky == {p \in players :
                        \E i \in picked : /\ p \in takers[i]
                                          /\ \A q \in takers[i] : turn[p] <= turn[q]}
        IN /\ active' = [i \in DOMAIN onMap \ picked |-> onMap[i]]
           /\ effect' = [p \in Runners |->
                           IF p \in lucky THEN EffectTicks
                           ELSE IF p \in players /\ effect[p] > 0 THEN effect[p] - 1
                           ELSE effect[p]]
  BY DEF Tick
<1> DEFINE onMap == [i \in DOMAIN active \cup Due |->
                       IF i \in Due THEN spot[i] ELSE active[i]]
           takers == [i \in DOMAIN onMap |-> Takers(players, pos, cond, onMap[i])]
           picked == {i \in DOMAIN onMap : takers[i] # {}}
           lucky == {p \in players :
                       \E i \in picked : /\ p \in takers[i]
                                         /\ \A q \in takers[i] : turn[p] <= turn[q]}
<1>2. /\ active' = [i \in DOMAIN onMap \ picked |-> onMap[i]]
      /\ effect' = [p \in Runners |->
                      IF p \in lucky THEN EffectTicks
                      ELSE IF p \in players /\ effect[p] > 0 THEN effect[p] - 1
                      ELSE effect[p]]
  BY <1>1
<1>3. ASSUME NEW i \in DOMAIN active' PROVE Takers(players, pos, cond, active'[i]) = {}
  <2>1. i \in DOMAIN onMap /\ i \notin picked /\ active'[i] = onMap[i]
    BY <1>2
  <2> QED
    BY <2>1
<1>4. ASSUME DOMAIN active \ DOMAIN active' # {}
      PROVE  \E p \in players : effect'[p] = EffectTicks
  <2>1. PICK i \in picked : takers[i] # {}
    BY <1>2, <1>4
  <2>2. takers[i] \subseteq players
    BY <2>1 DEF Takers
  <2>3. \A q \in players : turn[q] \in Nat
    BY DEF Turns
  <2>4. PICK p \in takers[i] : \A q \in takers[i] : turn[p] <= turn[q]
    <3> DEFINE T == takers[i]
               turns == {turn[q] : q \in T}
    <3> HIDE DEF takers
    <3>1. T # {} /\ T \subseteq players
      BY <2>1, <2>2
    <3> HIDE DEF T
    <3>2. turns \in SUBSET Nat /\ turns # {}
      BY <2>3, <3>1
    <3>3. \E n \in turns : \A k \in turns : n <= k
      BY <3>2, SmallestOne
    <3>4. \E p \in T : \A q \in T : turn[p] <= turn[q]
      BY <3>3
    <3> QED
      BY <3>4 DEF T
  <2>5. p \in lucky
    BY <2>1, <2>2, <2>4
  <2>6. p \in players /\ p \in Runners
    BY <2>2, <2>4
  <2> HIDE DEF lucky
  <2>7. effect'[p] = EffectTicks
    BY <1>2, <2>5, <2>6
  <2> QED
    BY <2>6, <2>7
<1> QED
  BY <1>3, <1>4
(***************************************************************************)
(* A room's tick is a tick of its manager.                                  *)
(***************************************************************************)

\* Of a room's positions and states a tick sees where the listed players stand and
\* who of them is arrested.
LEMMA TickIsAnyTick ==
    ASSUME NEW players \in SUBSET Runners, NEW where, NEW how, NEW turn \in Turns(players),
           \A p \in players : where[p] \in Spots,
           Tick(players, where, how, turn)
    PROVE  AnyTick
<1> DEFINE spotOf == [p \in players |-> where[p]]
           stateOf == [p \in players |-> IF how[p] = "arrested" THEN "arrested" ELSE "free"]
<1>1. spotOf \in [players -> Spots] /\ stateOf \in [players -> {"free", "arrested"}]
  OBVIOUS
<1>2. \A x : Takers(players, where, how, x) = Takers(players, spotOf, stateOf, x)
  BY DEF Takers
<1> HIDE DEF spotOf, stateOf
<1>3. PICK spot \in [Due -> Spots] :
        LET onMap == [i \in DOMAIN active \cup Due |->
                        IF i \in Due THEN spot[i] ELSE active[i]]
            takers == [i \in DOMAIN onMap |-> Takers(players, where, how, onMap[i])]
            picked == {i \in DOMAIN onMap : takers[i] # {}}
            lucky == {p \in players :
                        \E i \in picked : /\ p \in takers[i]
                                          /\ \A q \in takers[i] : turn[p] <= turn[q]}
        IN /\ active' = [i \in DOMAIN onMap \ picked |-> onMap[i]]
           /\ queue' = Requeue(picked)
           /\ effect' = [p \in Runners |->
                           IF p \in lucky THEN EffectTicks
                           ELSE IF p \in players /\ effect[p] > 0 THEN effect[p] - 1
                           ELSE effect[p]]
  BY DEF Tick
<1> DEFINE onMap == [i \in DOMAIN active \cup Due |->
                       IF i \in Due THEN spot[i] ELSE active[i]]
           takers == [i \in DOMAIN onMap |-> Takers(players, where, how, onMap[i])]
           seen == [i \in DOMAIN onMap |-> Takers(players, spotOf, stateOf, onMap[i])]
<1>4. takers = seen
  BY <1>2
<1>5. LET picked == {i \in DOMAIN onMap : seen[i] # {}}
          lucky == {p \in players :
                      \E i \in picked : /\ p \in seen[i]
                                        /\ \A q \in seen[i] : turn[p] <= turn[q]}
      IN /\ active' = [i \in DOMAIN onMap \ picked |-> onMap[i]]
         /\ queue' = Requeue(picked)
         /\ effect' = [p \in Runners |->
                         IF p \in lucky THEN EffectTicks
                         ELSE IF p \in players /\ effect[p] > 0 THEN effect[p] - 1
                         ELSE effect[p]]
  <2> HIDE DEF seen
  <2> QED
    BY <1>3, <1>4, Zenon
<1>6. Tick(players, spotOf, stateOf, turn)
  BY <1>5, Zenon DEF Tick
<1> QED
  BY <1>1, <1>6 DEF AnyTick

==============================================================================
