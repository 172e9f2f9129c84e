---------------------------- MODULE PhasesProofs -----------------------------
(***************************************************************************)
(* The iterations of the arrest and rescue loops add up to the phases of    *)
(* Game, for any players, map, durations and order; those of an item        *)
(* manager to the tick of Items, for any items, players and durations.      *)
(***************************************************************************)
EXTENDS Phases, ItemLoops, FiniteSetTheorems, TLAPS

USE GameAssumption

(***************************************************************************)
(* Arithmetic of a gauge that starts again when it is full.                 *)
(***************************************************************************)

LEMMA ModSmall == ASSUME NEW n \in Nat \ {0}, NEW x \in 0..n - 1 PROVE x % n = x
OBVIOUS

LEMMA ModOnce == ASSUME NEW n \in Nat \ {0}, NEW x \in 0..n - 1 PROVE (x + n) % n = x
OBVIOUS

LEMMA ModFull == ASSUME NEW n \in Nat \ {0} PROVE n % n = 0
OBVIOUS

(***************************************************************************)
(* The invariant: what the iterations so far have done to the players the   *)
(* loop began with.                                                         *)
(***************************************************************************)

PhasesTypeOK ==
    /\ role \in [Players -> Roles]
    /\ cond \in [Players -> Conditions]
    /\ arrestGauge \in [Players -> 0..ArrestTicks - 1]
    /\ rescueGauge \in [Players -> 0..RescueTicks - 1]
    /\ invincible \in [Players -> 0..InvincibleTicks]
    /\ was \in [cond : [Players -> Conditions],
                arrestGauge : [Players -> 0..ArrestTicks - 1],
                rescueGauge : [Players -> 0..RescueTicks - 1],
                invincible : [Players -> 0..InvincibleTicks]]
    /\ stage \in {"arrest", "rescue", "clear"}
    /\ Cardinality(Cops(Players)) <= MaxPolice

\* The policemen whose pair with t is still to come.
Coming(t) == {c \in Players : <<c, t>> \in todo}

\* The pairs are those of the players the loop began with; the gauge of a thief
\* and the pairs still to come make its whole exposure, once the gauge that was
\* emptied at its arrest is counted.
Arresting ==
    /\ \A pair \in todo : \E t \in Whole!Chased(Players) :
         \E c \in Chasers(Players, t) : pair = <<c, t>>
    /\ rescueGauge = was.rescueGauge /\ invincible = was.invincible
    /\ \A t \in Players \ Whole!Chased(Players) :
         cond[t] = was.cond[t] /\ arrestGauge[t] = was.arrestGauge[t]
    /\ \A t \in Whole!Chased(Players) :
         LET exposure == was.arrestGauge[t] + Cardinality(Chasers(Players, t))
         IN \/ cond[t] = "free"
               /\ arrestGauge[t] + Cardinality(Coming(t)) = exposure
            \/ cond[t] = "arrested"
               /\ arrestGauge[t] + ArrestTicks + Cardinality(Coming(t)) = exposure

\* The thieves that the rescuers in the set have released.
Out(rescuers) ==
    IF \E p \in rescuers : was.rescueGauge[p] + 1 >= RescueTicks
    THEN {q \in Thieves(Players) : was.cond[q] = "arrested"} ELSE {}

RescuedBy(rescuers) ==
    /\ cond = [q \in Players |-> IF q \in Out(rescuers) THEN "invincible" ELSE was.cond[q]]
    /\ invincible = [q \in Players |-> IF q \in Out(rescuers) THEN InvincibleTicks
                                       ELSE was.invincible[q]]
    /\ arrestGauge = [q \in Players |-> IF q \in Out(rescuers) THEN 0 ELSE was.arrestGauge[q]]
    /\ rescueGauge = [q \in Players |->
                        IF q \in rescuers THEN (was.rescueGauge[q] + 1) % RescueTicks
                        ELSE IF q \in Out(rescuers) THEN 0
                        ELSE was.rescueGauge[q]]

\* The rescuers that are not to come any more have done their part.
Rescuing == /\ todo \subseteq Whole!Rescuers(Players)
            /\ RescuedBy(Whole!Rescuers(Players) \ todo)

\* All that the rescue loops do has been done.
Rescued ==
    LET away == {p \in Thieves(Players) \ Whole!Rescuers(Players) : was.cond[p] = "free"}
        out == Out(Whole!Rescuers(Players))
    IN /\ cond = [q \in Players |-> IF q \in out THEN "invincible" ELSE was.cond[q]]
       /\ invincible = [q \in Players |-> IF q \in out THEN InvincibleTicks
                                          ELSE was.invincible[q]]
       /\ arrestGauge = [q \in Players |-> IF q \in out THEN 0 ELSE was.arrestGauge[q]]
       /\ rescueGauge = [q \in Players |->
                           IF q \in Whole!Rescuers(Players)
                           THEN (was.rescueGauge[q] + 1) % RescueTicks
                           ELSE IF q \in out \cup away THEN 0
                           ELSE was.rescueGauge[q]]

PhasesInv ==
    /\ PhasesTypeOK
    /\ stage = "arrest" => Arresting
    /\ stage = "rescue" => Rescuing
    /\ stage = "clear" => Rescued

LEMMA ChasersFinite ==
    ASSUME PhasesTypeOK, NEW t \in Players
    PROVE  /\ Chasers(Players, t) \subseteq Players
           /\ IsFiniteSet(Chasers(Players, t))
           /\ Cardinality(Chasers(Players, t)) \in 0..MaxPolice
<1>1. /\ Chasers(Players, t) \subseteq Cops(Players)
      /\ Cops(Players) \subseteq Players
  BY DEF Chasers, Cops
<1>2. IsFiniteSet(Cops(Players)) /\ IsFiniteSet(Chasers(Players, t))
  BY <1>1, FS_Subset
<1>3. /\ Cardinality(Chasers(Players, t)) <= Cardinality(Cops(Players))
      /\ Cardinality(Chasers(Players, t)) \in Nat /\ Cardinality(Cops(Players)) \in Nat
  BY <1>1, <1>2, FS_Subset, FS_CardinalityType
<1> QED
  BY <1>1, <1>2, <1>3 DEF PhasesTypeOK

LEMMA ComingFinite ==
    ASSUME NEW t \in Players
    PROVE  IsFiniteSet(Coming(t)) /\ Cardinality(Coming(t)) \in Nat
<1>1. Coming(t) \subseteq Players
  BY DEF Coming
<1> QED
  BY <1>1, FS_Subset, FS_CardinalityType

\* Role and position do not change in a tick, so that the pairs the loop found
\* are the chasers of the chased thieves.
LEMMA AllPairs == PhasesTypeOK /\ was = Snapshot /\ todo = ArrestPairs => Arresting
<1> SUFFICES ASSUME PhasesTypeOK, was = Snapshot, todo = ArrestPairs
             PROVE  Arresting
  OBVIOUS
<1> USE DEF Whole!Chased, Whole!Thieves, Whole!Chasers, Whole!Cops, Thieves, Cops, Chasers
<1>1. \A t \in Whole!Chased(Players) : t \in Players /\ was.cond[t] = "free"
  OBVIOUS
<1>2. \A pair \in todo : \E t \in Whole!Chased(Players) :
         \E c \in Chasers(Players, t) : pair = <<c, t>>
  BY DEF ArrestPairs, Snapshot
<1>3. ASSUME NEW t \in Whole!Chased(Players)
      PROVE  Coming(t) = Chasers(Players, t)
  BY DEF ArrestPairs, Snapshot, Coming
<1> QED
  BY <1>1, <1>2, <1>3 DEF Arresting, Snapshot

LEMMA PhasesInitInv == PhasesInit => PhasesInv
<1> SUFFICES ASSUME PhasesInit PROVE PhasesInv
  OBVIOUS
<1>1. PhasesTypeOK
  BY DEF PhasesInit, PhasesTypeOK, Snapshot, Roles, Conditions
<1> QED
  BY <1>1, AllPairs DEF PhasesInit, PhasesInv

\* One pair.
LEMMA VisitPairStep == PhasesInv /\ VisitPair => PhasesInv'
<1> SUFFICES ASSUME PhasesInv, VisitPair PROVE PhasesInv'
  OBVIOUS
<1>1. PhasesTypeOK /\ Arresting /\ stage = "arrest"
  BY DEF PhasesInv, VisitPair
<1>2. PICK pair \in todo : Hit(pair) /\ todo' = todo \ {pair}
  BY DEF VisitPair
<1>3. PICK t \in Whole!Chased(Players), c \in Players :
         c \in Chasers(Players, t) /\ pair = <<c, t>>
  BY <1>1, <1>2 DEF Arresting, Chasers, Cops
<1>4. t \in Players /\ c \in Players
  BY DEF Whole!Chased, Whole!Thieves
<1>5. UNCHANGED <<role, pos, stage, was, rescueGauge, invincible>>
  BY <1>2 DEF VisitPair, Hit
<1>6. /\ cond' = [cond EXCEPT ![t] = IF arrestGauge[t] + 1 >= ArrestTicks THEN "arrested" ELSE @]
      /\ arrestGauge' = [arrestGauge EXCEPT ![t] = IF arrestGauge[t] + 1 >= ArrestTicks THEN 0
                                                   ELSE @ + 1]
  BY <1>2, <1>3 DEF Hit
<1>7. PhasesTypeOK'
  <2>1. cond' \in [Players -> Conditions]
    BY <1>1, <1>6 DEF PhasesTypeOK, Conditions
  <2>2. arrestGauge' \in [Players -> 0..ArrestTicks - 1]
    BY <1>1, <1>4, <1>6 DEF PhasesTypeOK
  <2> QED
    BY <1>1, <1>5, <2>1, <2>2 DEF PhasesTypeOK, Cops
<1>8. /\ Whole!Chased(Players)' = Whole!Chased(Players)
      /\ \A u \in Players : Chasers(Players, u)' = Chasers(Players, u)
  BY <1>5 DEF Whole!Chased, Whole!Thieves, Whole!Chasers, Whole!Cops, Chasers, Cops
<1>9. c \in Coming(t) /\ Coming(t)' = Coming(t) \ {c}
  BY <1>2, <1>3, <1>4 DEF Coming
<1>10. \A u \in Players \ {t} : Coming(u)' = Coming(u)
  BY <1>2, <1>3 DEF Coming
<1>11. Cardinality(Coming(t)') = Cardinality(Coming(t)) - 1
  BY <1>4, <1>9, ComingFinite, FS_RemoveElement, Zenon
<1>12. /\ Cardinality(Coming(t)) \in Nat /\ Cardinality(Coming(t)) >= 1
  BY <1>4, <1>9, ComingFinite, FS_EmptySet
<1> DEFINE exposure == was.arrestGauge[t] + Cardinality(Chasers(Players, t))
<1>13. /\ Cardinality(Chasers(Players, t)) \in 0..MaxPolice
       /\ was.arrestGauge[t] \in 0..ArrestTicks - 1 /\ arrestGauge[t] \in 0..ArrestTicks - 1
  BY <1>1, <1>4, ChasersFinite DEF PhasesTypeOK
<1>14. \/ cond[t] = "free" /\ arrestGauge[t] + Cardinality(Coming(t)) = exposure
       \/ cond[t] = "arrested"
          /\ arrestGauge[t] + ArrestTicks + Cardinality(Coming(t)) = exposure
  BY <1>1 DEF Arresting
<1>15. \/ cond'[t] = "free" /\ arrestGauge'[t] + Cardinality(Coming(t)') = exposure
       \/ cond'[t] = "arrested"
          /\ arrestGauge'[t] + ArrestTicks + Cardinality(Coming(t)') = exposure
  <2>1. /\ cond'[t] = IF arrestGauge[t] + 1 >= ArrestTicks THEN "arrested" ELSE cond[t]
        /\ arrestGauge'[t] = IF arrestGauge[t] + 1 >= ArrestTicks THEN 0 ELSE arrestGauge[t] + 1
    BY <1>1, <1>4, <1>6 DEF PhasesTypeOK
  <2> HIDE DEF exposure
  <2>2. exposure \in Nat /\ exposure < 2 * ArrestTicks
    BY <1>13 DEF exposure
  <2> QED
    BY <1>11, <1>12, <1>13, <1>14, <2>1, <2>2
<1>16. Arresting'
  <2>1. ASSUME NEW u \in Players, u # t
        PROVE  cond'[u] = cond[u] /\ arrestGauge'[u] = arrestGauge[u]
    BY <1>1, <1>6, <2>1 DEF PhasesTypeOK
  <2>2. \A q \in todo' : \E u \in Whole!Chased(Players)' : \E d \in Chasers(Players, u)' : q = <<d, u>>
    BY <1>1, <1>2, <1>8 DEF Arresting, Whole!Chased, Whole!Thieves
  <2>3. \A u \in Whole!Chased(Players) : u \in Players
    BY DEF Whole!Chased, Whole!Thieves
  <2>4. \A u \in Players \ Whole!Chased(Players)' :
           cond'[u] = was'.cond[u] /\ arrestGauge'[u] = was'.arrestGauge[u]
    BY <1>1, <1>5, <1>8, <2>1 DEF Arresting
  <2>5. ASSUME NEW u \in Whole!Chased(Players)
        PROVE  LET e == was'.arrestGauge[u] + Cardinality(Chasers(Players, u)')
               IN \/ cond'[u] = "free" /\ arrestGauge'[u] + Cardinality(Coming(u)') = e
                  \/ cond'[u] = "arrested"
                     /\ arrestGauge'[u] + ArrestTicks + Cardinality(Coming(u)') = e
    <3>1. CASE u = t
      BY <1>4, <1>5, <1>8, <1>15, <3>1
    <3>2. CASE u # t
      BY <1>1, <1>5, <1>8, <1>10, <2>1, <2>3, <3>2 DEF Arresting
    <3> QED
      BY <3>1, <3>2
  <2> QED
    BY <1>1, <1>5, <1>8, <2>2, <2>4, <2>5 DEF Arresting
<1> QED
  BY <1>1, <1>5, <1>7, <1>16 DEF PhasesInv

\* What is left of the arrest loop when all its pairs have been visited.
LEMMA ArrestsAddUp ==
    ASSUME PhasesTypeOK, Arresting, todo = {}, was' = Snapshot,
           UNCHANGED <<role, pos, gaugesAndConds>>
    PROVE  /\ Whole!ArrestPhase(Players)
           /\ UNCHANGED <<was.rescueGauge, was.invincible>>
<1>1. /\ was'.cond = cond /\ was'.arrestGauge = arrestGauge
      /\ was'.rescueGauge = rescueGauge /\ was'.invincible = invincible
  BY DEF Snapshot
<1>2. \A t \in Players : Cardinality(Coming(t)) = 0
  BY FS_EmptySet DEF Coming
<1>3. \A t \in Whole!Chased(Players) : t \in Players /\ was.cond[t] = "free"
  BY DEF Whole!Chased, Whole!Thieves
<1>4. \A t \in Players : Whole!Exposure(Players, t)
                            = was.arrestGauge[t] + Cardinality(Chasers(Players, t))
  <2>1. \A S : Whole!Cardinality(S) = Cardinality(S)
    BY DEF Whole!Cardinality, Cardinality
  <2> QED
    BY <2>1 DEF Whole!Exposure, Whole!Chasers, Whole!Cops, Chasers, Cops
<1>5. ASSUME NEW t \in Whole!Chased(Players)
      PROVE  /\ cond[t] = IF Whole!Exposure(Players, t) >= ArrestTicks
                          THEN "arrested" ELSE was.cond[t]
             /\ arrestGauge[t] = Whole!Exposure(Players, t) % ArrestTicks
  <2>1. t \in Players /\ was.cond[t] = "free"
    BY <1>3
  <2>2. arrestGauge[t] \in 0..ArrestTicks - 1
    BY <2>1 DEF PhasesTypeOK
  <2> DEFINE e == Whole!Exposure(Players, t)
  <2>3. \/ cond[t] = "free" /\ arrestGauge[t] = e
        \/ cond[t] = "arrested" /\ arrestGauge[t] + ArrestTicks = e
    <3>1. \/ cond[t] = "free" /\ arrestGauge[t] + Cardinality(Coming(t)) = e
          \/ cond[t] = "arrested"
             /\ arrestGauge[t] + ArrestTicks + Cardinality(Coming(t)) = e
      BY <1>4, <2>1 DEF Arresting
    <3> HIDE DEF e
    <3> QED
      BY <1>2, <2>1, <2>2, <3>1
  <2> HIDE DEF e
  <2>4. ArrestTicks \in Nat \ {0}
    OBVIOUS
  <2>5. e % ArrestTicks = arrestGauge[t]
    BY <2>2, <2>3, <2>4, ModSmall, ModOnce
  <2>6. cond[t] = IF e >= ArrestTicks THEN "arrested" ELSE was.cond[t]
    BY <2>1, <2>2, <2>3
  <2> QED
    BY <2>5, <2>6 DEF e
<1>6. cond = [p \in Players |->
                IF p \in Whole!Chased(Players) /\ Whole!Exposure(Players, p) >= ArrestTicks
                THEN "arrested" ELSE was.cond[p]]
  BY <1>5 DEF PhasesTypeOK, Arresting
<1>7. arrestGauge = [p \in Players |->
                       IF p \in Whole!Chased(Players)
                       THEN Whole!Exposure(Players, p) % ArrestTicks
                       ELSE was.arrestGauge[p]]
  BY <1>5 DEF PhasesTypeOK, Arresting
<1> QED
  BY <1>1, <1>6, <1>7 DEF Whole!ArrestPhase, Arresting

\* The rescue loop begins with nobody rescued.
LEMMA NobodyOut == PhasesTypeOK /\ was = Snapshot /\ todo = Rescuers(Players) => Rescuing
<1> SUFFICES ASSUME PhasesTypeOK, was = Snapshot, todo = Rescuers(Players)
             PROVE  Rescuing
  OBVIOUS
<1>1. Whole!Rescuers(Players) = todo
  BY DEF Whole!Rescuers, Whole!Thieves, Rescuers, Thieves, Snapshot
<1>2. Out({}) = {}
  BY DEF Out
<1>3. RescuedBy({})
  BY <1>2 DEF RescuedBy, PhasesTypeOK, Snapshot
<1> QED
  BY <1>1, <1>3 DEF Rescuing

LEMMA ArrestsDoneStep == PhasesInv /\ ArrestsDone => PhasesInv'
<1> SUFFICES ASSUME PhasesInv, ArrestsDone PROVE PhasesInv'
  OBVIOUS
<1>1. PhasesTypeOK'
  BY DEF PhasesInv, PhasesTypeOK, ArrestsDone, Snapshot, Cops, gaugesAndConds
<1>2. (was = Snapshot)' /\ (todo = Rescuers(Players))' /\ stage' = "rescue"
  BY DEF ArrestsDone, Snapshot, Rescuers, Thieves, gaugesAndConds
<1>3. Rescuing'
  BY <1>1, <1>2, NobodyOut, PTL
<1> QED
  BY <1>1, <1>2, <1>3 DEF PhasesInv

\* One rescuer: nobody the loop began with as arrested is left in jail after the
\* first one that fills its gauge, so that the next one releases nobody.
LEMMA VisitRescuerStep == PhasesInv /\ VisitRescuer => PhasesInv'
<1> SUFFICES ASSUME PhasesInv, VisitRescuer PROVE PhasesInv'
  OBVIOUS
<1>1. PhasesTypeOK /\ Rescuing /\ stage = "rescue"
  BY DEF PhasesInv, VisitRescuer
<1>2. PICK p \in todo : Pick(p) /\ todo' = todo \ {p}
  BY DEF VisitRescuer
<1>3. UNCHANGED <<role, pos, stage, was>>
  BY DEF VisitRescuer
<1> DEFINE all == Whole!Rescuers(Players)
           done == all \ todo
           full == was.rescueGauge[p] + 1 >= RescueTicks
<1>4. /\ p \in all /\ p \notin done /\ p \in Players
      /\ was.cond[p] = "free"
      /\ all \subseteq Players /\ \A q \in all : was.cond[q] = "free"
  BY <1>1, <1>2 DEF Rescuing, Whole!Rescuers, Whole!Thieves
<1>5. all' = all /\ all' \ todo' = done \cup {p} /\ todo' \subseteq all
  BY <1>1, <1>2, <1>3, <1>4 DEF Rescuing, Whole!Rescuers, Whole!Thieves
<1>6. RescuedBy(done)
  BY <1>1 DEF Rescuing
<1> HIDE DEF all, done
<1>7. p \notin Out(done) /\ Out(done) \subseteq Players
  BY <1>4 DEF Out, Thieves
<1>8. rescueGauge[p] = was.rescueGauge[p]
  BY <1>4, <1>6, <1>7 DEF RescuedBy
<1>9. Out(done \cup {p}) = IF full THEN {q \in Thieves(Players) : was.cond[q] = "arrested"}
                           ELSE Out(done)
  BY DEF Out
<1> DEFINE freed == IF full THEN {q \in Thieves(Players) : cond[q] = "arrested"} ELSE {}
<1>10. \A q \in Players : cond[q] = IF q \in Out(done) THEN "invincible" ELSE was.cond[q]
  BY <1>6 DEF RescuedBy
<1>11. /\ Out(done \cup {p}) = Out(done) \cup freed
       /\ freed \subseteq Players /\ p \notin freed
  BY <1>4, <1>9, <1>10 DEF Out, Thieves
<1>12. /\ cond' = [q \in Players |-> IF q \in freed THEN "invincible" ELSE cond[q]]
       /\ invincible' = [q \in Players |-> IF q \in freed THEN InvincibleTicks
                                           ELSE invincible[q]]
       /\ arrestGauge' = [q \in Players |-> IF q \in freed THEN 0 ELSE arrestGauge[q]]
       /\ rescueGauge' = [q \in Players |->
                            IF q = p THEN IF full THEN 0 ELSE was.rescueGauge[p] + 1
                            ELSE IF q \in freed THEN 0
                            ELSE rescueGauge[q]]
  BY <1>2, <1>8 DEF Pick
<1>13. (was.rescueGauge[p] + 1) % RescueTicks = IF full THEN 0 ELSE was.rescueGauge[p] + 1
  <2>1. was.rescueGauge[p] \in 0..RescueTicks - 1 /\ RescueTicks \in Nat \ {0}
    BY <1>1, <1>4 DEF PhasesTypeOK
  <2>2. CASE full
    BY <2>1, <2>2, ModFull
  <2>3. CASE ~full
    BY <2>1, <2>3, ModSmall
  <2> QED
    BY <2>2, <2>3
<1> HIDE DEF freed, full
<1>14. PhasesTypeOK'
  <2>1. /\ cond' \in [Players -> Conditions]
        /\ invincible' \in [Players -> 0..InvincibleTicks]
        /\ arrestGauge' \in [Players -> 0..ArrestTicks - 1]
    BY <1>1, <1>12 DEF PhasesTypeOK, Conditions
  <2>2. (IF full THEN 0 ELSE was.rescueGauge[p] + 1) \in 0..RescueTicks - 1
    BY <1>1, <1>4 DEF PhasesTypeOK, full
  <2>3. rescueGauge' \in [Players -> 0..RescueTicks - 1]
    BY <1>1, <1>12, <2>2 DEF PhasesTypeOK
  <2> QED
    BY <1>1, <1>3, <2>1, <2>3 DEF PhasesTypeOK, Cops
<1>15. LET out == Out(done \cup {p})
       IN /\ cond' = [q \in Players |-> IF q \in out THEN "invincible" ELSE was.cond[q]]
          /\ invincible' = [q \in Players |-> IF q \in out THEN InvincibleTicks
                                              ELSE was.invincible[q]]
          /\ arrestGauge' = [q \in Players |-> IF q \in out THEN 0 ELSE was.arrestGauge[q]]
          /\ rescueGauge' = [q \in Players |->
                               IF q \in done \cup {p}
                               THEN (was.rescueGauge[q] + 1) % RescueTicks
                               ELSE IF q \in out THEN 0
                               ELSE was.rescueGauge[q]]
  <2> DEFINE out == Out(done \cup {p})
  <2>1. out = Out(done) \cup freed
    BY <1>11
  <2> HIDE DEF out
  <2>2. cond' = [q \in Players |-> IF q \in out THEN "invincible" ELSE was.cond[q]]
    BY <1>6, <1>12, <2>1 DEF RescuedBy
  <2>3. invincible' = [q \in Players |-> IF q \in out THEN InvincibleTicks
                                         ELSE was.invincible[q]]
    BY <1>6, <1>12, <2>1 DEF RescuedBy
  <2>4. arrestGauge' = [q \in Players |-> IF q \in out THEN 0 ELSE was.arrestGauge[q]]
    BY <1>6, <1>12, <2>1 DEF RescuedBy
  <2>5. ASSUME NEW q \in Players
        PROVE  rescueGauge'[q] = IF q \in done \cup {p}
                                 THEN (was.rescueGauge[q] + 1) % RescueTicks
                                 ELSE IF q \in out THEN 0
                                 ELSE was.rescueGauge[q]
    <3>1. CASE q = p
      BY <1>12, <1>13, <3>1
    <3>2. CASE q # p /\ q \in freed
      <4>1. q \notin done /\ q \in out /\ rescueGauge'[q] = 0
        BY <1>4, <1>10, <1>12, <2>1, <3>2 DEF freed, done
      <4> QED
        BY <3>2, <4>1
    <3>3. CASE q # p /\ q \notin freed
      BY <1>6, <1>12, <2>1, <3>3 DEF RescuedBy
    <3> QED
      BY <3>1, <3>2, <3>3
  <2>6. rescueGauge' = [q \in Players |->
                         IF q \in done \cup {p}
                         THEN (was.rescueGauge[q] + 1) % RescueTicks
                         ELSE IF q \in out THEN 0
                         ELSE was.rescueGauge[q]]
    BY <1>12, <2>5
  <2> QED
    BY <2>2, <2>3, <2>4, <2>6 DEF out
<1>16. Rescuing'
  <2>1. Out(all \ todo)' = Out(done \cup {p})
    BY <1>3, <1>5 DEF Out, Thieves
  <2>2. RescuedBy(all \ todo)'
    BY <1>3, <1>5, <1>15, <2>1 DEF RescuedBy
  <2> QED
    BY <1>5, <2>2 DEF Rescuing, all
<1> QED
  BY <1>1, <1>3, <1>14, <1>16 DEF PhasesInv

\* The last loop empties the gauges of the free thieves away from the jail.
LEMMA RescuesDoneStep == PhasesInv /\ RescuesDone => PhasesInv'
<1> SUFFICES ASSUME PhasesInv, RescuesDone PROVE PhasesInv'
  OBVIOUS
<1>1. PhasesTypeOK /\ RescuedBy(Whole!Rescuers(Players)) /\ Relax
  BY DEF PhasesInv, RescuesDone, Rescuing
<1>2. UNCHANGED <<role, pos, cond, arrestGauge, invincible, todo, was>> /\ stage' = "clear"
  BY DEF RescuesDone
<1>3. PhasesTypeOK'
  <2>1. rescueGauge' \in [Players -> 0..RescueTicks - 1]
    BY <1>1 DEF Relax, PhasesTypeOK
  <2> QED
    BY <1>1, <1>2, <2>1 DEF PhasesTypeOK, Cops
<1> DEFINE all == Whole!Rescuers(Players)
           away == {p \in Thieves(Players) \ all : was.cond[p] = "free"}
<1>4. all = {p \in Thieves(Players) : was.cond[p] = "free" /\ pos[p] \in JailReach}
  BY DEF Whole!Rescuers, Whole!Thieves, Thieves
<1>5. ASSUME NEW q \in Players
      PROVE  rescueGauge'[q] = IF q \in all THEN (was.rescueGauge[q] + 1) % RescueTicks
                               ELSE IF q \in Out(all) \cup away THEN 0
                               ELSE was.rescueGauge[q]
  <2>1. cond[q] = IF q \in Out(all) THEN "invincible" ELSE was.cond[q]
    BY <1>1 DEF RescuedBy
  <2>2. q \in Out(all) => was.cond[q] = "arrested"
    BY DEF Out
  <2>3. q \in away <=> q \in Thieves(Players) /\ cond[q] = "free" /\ pos[q] \notin JailReach
    BY <1>4, <2>1, <2>2
  <2>4. rescueGauge'[q] = IF q \in away THEN 0 ELSE rescueGauge[q]
    BY <2>3 DEF PhasesInv, RescuesDone, Relax
  <2>5. rescueGauge[q] = IF q \in all THEN (was.rescueGauge[q] + 1) % RescueTicks
                         ELSE IF q \in Out(all) THEN 0
                         ELSE was.rescueGauge[q]
    BY <1>1 DEF RescuedBy
  <2> HIDE DEF all
  <2> QED
    BY <2>4, <2>5
<1>6. Rescued'
  <2>1. all' = all /\ Out(all)' = Out(all) /\ Thieves(Players)' = Thieves(Players)
    BY <1>2 DEF Out, Thieves, Whole!Rescuers, Whole!Thieves
  <2>2. rescueGauge' = [q \in Players |->
                          IF q \in all THEN (was.rescueGauge[q] + 1) % RescueTicks
                          ELSE IF q \in Out(all) \cup away THEN 0
                          ELSE was.rescueGauge[q]]
    <3>1. rescueGauge' = [q \in Players |-> rescueGauge'[q]]
      BY <1>1 DEF Relax
    <3> HIDE DEF all, away
    <3> QED
      BY <1>5, <3>1
  <2>3. /\ cond' = [q \in Players |-> IF q \in Out(all) THEN "invincible" ELSE was.cond[q]]
        /\ invincible' = [q \in Players |-> IF q \in Out(all) THEN InvincibleTicks
                                            ELSE was.invincible[q]]
        /\ arrestGauge' = [q \in Players |-> IF q \in Out(all) THEN 0
                                             ELSE was.arrestGauge[q]]
    BY <1>1, <1>2 DEF RescuedBy
  <2>4. away' = away /\ was' = was
    BY <1>2, <2>1
  <2> QED
    BY <2>1, <2>2, <2>3, <2>4 DEF Rescued
<1> QED
  BY <1>2, <1>3, <1>6 DEF PhasesInv

\* The outcome of the rescue loops is RescuePhase.
LEMMA RescuesAddUp ==
    ASSUME Rescued, was' = Snapshot, UNCHANGED <<role, pos>>
    PROVE  Whole!RescuePhase(Players)
<1>1. /\ was'.cond = cond /\ was'.arrestGauge = arrestGauge
      /\ was'.rescueGauge = rescueGauge /\ was'.invincible = invincible
  BY DEF Snapshot
<1>2. Whole!Released(Players) = Out(Whole!Rescuers(Players))
  BY DEF Whole!Released, Whole!Thieves, Thieves, Out
<1>3. Whole!Thieves(Players) = Thieves(Players)
  BY DEF Whole!Thieves, Thieves
<1> QED
  BY <1>1, <1>2, <1>3 DEF Rescued, Whole!RescuePhase

LEMMA TickDoneStep == PhasesInv /\ TickDone => PhasesInv'
<1> SUFFICES ASSUME PhasesInv, TickDone PROVE PhasesInv'
  OBVIOUS
<1>1. PhasesTypeOK'
  BY DEF PhasesInv, PhasesTypeOK, TickDone, Snapshot, Cops, gaugesAndConds
<1>2. (was = Snapshot)' /\ (todo = ArrestPairs)' /\ stage' = "arrest"
  BY DEF TickDone, Snapshot, ArrestPairs, Thieves, Cops, gaugesAndConds
<1>3. Arresting'
  BY <1>1, <1>2, AllPairs, PTL
<1> QED
  BY <1>1, <1>2, <1>3 DEF PhasesInv

LEMMA PhasesStep == PhasesInv /\ [PhasesNext]_phasesVars => PhasesInv'
<1> SUFFICES ASSUME PhasesInv, [PhasesNext]_phasesVars PROVE PhasesInv'
  OBVIOUS
<1>1. CASE UNCHANGED phasesVars
  <2> USE <1>1 DEF phasesVars, gaugesAndConds
  <2>1. PhasesTypeOK => PhasesTypeOK'
    BY DEF PhasesTypeOK, Cops
  <2>2. /\ Whole!Chased(Players)' = Whole!Chased(Players)
        /\ Whole!Rescuers(Players)' = Whole!Rescuers(Players)
        /\ Thieves(Players)' = Thieves(Players)
        /\ \A t : Chasers(Players, t)' = Chasers(Players, t) /\ Coming(t)' = Coming(t)
    BY DEF Whole!Chased, Whole!Thieves, Whole!Chasers, Whole!Cops, Whole!Rescuers,
           Thieves, Chasers, Cops, Coming
  <2>3. Arresting => Arresting'
    BY <2>2 DEF Arresting
  <2>4. Rescuing => Rescuing'
    BY <2>2 DEF Rescuing, RescuedBy, Out
  <2>5. Rescued => Rescued'
    BY <2>2 DEF Rescued, Out
  <2> QED
    BY <2>1, <2>3, <2>4, <2>5 DEF PhasesInv
<1> QED
  BY <1>1, VisitPairStep, ArrestsDoneStep, VisitRescuerStep, RescuesDoneStep, TickDoneStep
  DEF PhasesNext

\* In any order of the players, the iterations of the arrest loop (room.go:368-381)
\* add up to ArrestPhase and those of the rescue loops (room.go:383-405) to
\* RescuePhase.
THEOREM PhasesAddUpCorrect == PhasesSpec => PhasesAddUp
<1>1. ASSUME PhasesInv, [PhasesNext]_phasesVars
      PROVE  [/\ stage = "arrest" /\ stage' = "rescue" =>
                   /\ Whole!ArrestPhase(Players)
                   /\ UNCHANGED <<was.rescueGauge, was.invincible>>
              /\ stage = "clear" => Whole!RescuePhase(Players)]_phasesVars
  <2>1. CASE UNCHANGED phasesVars
    BY <2>1
  <2>2. CASE VisitPair
    BY <2>2 DEF VisitPair
  <2>3. CASE ArrestsDone
    <3>1. /\ PhasesTypeOK /\ Arresting /\ todo = {} /\ was' = Snapshot
          /\ UNCHANGED <<role, pos, gaugesAndConds>> /\ stage = "arrest"
      BY <1>1, <2>3 DEF PhasesInv, ArrestsDone
    <3> QED
      BY <3>1, ArrestsAddUp
  <2>4. CASE VisitRescuer
    BY <2>4 DEF VisitRescuer
  <2>5. CASE RescuesDone
    BY <2>5 DEF RescuesDone
  <2>6. CASE TickDone
    <3>1. Rescued /\ was' = Snapshot /\ UNCHANGED <<role, pos>> /\ stage = "clear"
      BY <1>1, <2>6 DEF PhasesInv, TickDone
    <3> QED
      BY <3>1, RescuesAddUp
  <2> QED
    BY <1>1, <2>1, <2>2, <2>3, <2>4, <2>5, <2>6 DEF PhasesNext
<1> QED
  BY PhasesInitInv, PhasesStep, <1>1, PTL DEF PhasesSpec, PhasesAddUp

(***************************************************************************)
(* The loops of an item manager.                                            *)
(***************************************************************************)

USE ItemsAssumption

\* What the loops so far have made of the manager and the effects the tick began
\* with: the effects are counted down, the timers in done are, the first takers of
\* the items that were looked at have the effect.
WasDue == {i \in DOMAIN before.queue : before.queue[i] <= 1}

Counted(players) ==
    [p \in Runners |-> IF p \in players /\ before.effect[p] > 0 THEN before.effect[p] - 1
                       ELSE before.effect[p]]

MapAfter(done) ==
    /\ DOMAIN active = DOMAIN before.active \cup (WasDue \cap done)
    /\ \A i \in DOMAIN before.active \ (WasDue \cap done) : active[i] = before.active[i]

QueueAfter(done) ==
    /\ DOMAIN queue = DOMAIN before.queue \ (WasDue \cap done)
    /\ \A i \in DOMAIN queue : queue[i] = IF i \in done THEN before.queue[i] - 1
                                          ELSE before.queue[i]

TakersOf(i) == Takers(args.players, args.pos, args.cond, active[i])

First(p, i) == p \in TakersOf(i) /\ \A q \in TakersOf(i) : args.turn[p] <= args.turn[q]

Looked == DOMAIN active \ (ahead \cup IF line = {} THEN {} ELSE {item})

PickedUp ==
    /\ line # {} => /\ item \in DOMAIN active \ ahead
                    /\ \A p \in args.players \ line : p \notin TakersOf(item)
    /\ picked = {i \in Looked : TakersOf(i) # {}}
    /\ effect = [p \in Runners |-> IF \E i \in picked : First(p, i) THEN EffectTicks
                                   ELSE Counted(args.players)[p]]

ManagerOK(a, q, e) ==
    /\ a \in [DOMAIN a -> Spots]
    /\ q \in [DOMAIN q -> Int]
    /\ e \in [Runners -> Nat]

ArgsOK ==
    /\ args.players \in SUBSET Runners
    /\ args.pos \in [args.players -> Spots]
    /\ args.cond \in [args.players -> {"free", "arrested"}]
    /\ args.turn \in Turns(args.players)

LoopsInv ==
    /\ ManagerOK(active, queue, effect)
    /\ at \in {"none", "effects", "queue", "pickup"}
    /\ at # "none" => ArgsOK /\ ManagerOK(before.active, before.queue, before.effect)
    /\ at # "pickup" => line = {} /\ picked = {}
    /\ at = "effects" => /\ active = before.active /\ queue = before.queue
                         /\ ahead \subseteq args.players
                         /\ effect = Counted(args.players \ ahead)
    /\ at = "queue" => /\ effect = Counted(args.players)
                       /\ ahead \subseteq DOMAIN before.queue
                       /\ MapAfter(DOMAIN before.queue \ ahead)
                       /\ QueueAfter(DOMAIN before.queue \ ahead)
    /\ at = "pickup" => /\ ahead \subseteq DOMAIN active /\ line \subseteq args.players
                        /\ MapAfter(DOMAIN before.queue) /\ QueueAfter(DOMAIN before.queue)
                        /\ PickedUp

LEMMA LoopsInvInit == ItemLoopsInit => LoopsInv
BY DEF ItemLoopsInit, Init, NoManager, EmptyFcn, LoopsInv, ManagerOK

LEMMA BetweenTicksStep == LoopsInv /\ BetweenTicks => LoopsInv'
<1> SUFFICES ASSUME LoopsInv, BetweenTicks PROVE LoopsInv'
  OBVIOUS
<1>1. at = "none" /\ UNCHANGED tickVars
  BY DEF BetweenTicks
<1>2. ManagerOK(active, queue, effect)'
  <2>1. CASE NewGame
    BY <2>1 DEF NewGame, New, EmptyFcn, LoopsInv, ManagerOK
  <2>2. ASSUME NEW players \in SUBSET Runners, Reset(players)
        PROVE  ManagerOK(active, queue, effect)'
    BY <2>2 DEF Reset, LoopsInv, ManagerOK
  <2> QED
    BY <2>1, <2>2 DEF BetweenTicks
<1> QED
  BY <1>1, <1>2 DEF LoopsInv, tickVars

LEMMA BeginTickStep == LoopsInv /\ BeginTick => LoopsInv'
<1> SUFFICES ASSUME LoopsInv, BeginTick PROVE LoopsInv'
  OBVIOUS
<1>1. ArgsOK'
  BY DEF BeginTick, ArgsOK
<1>2. /\ at' = "effects" /\ ahead' = args'.players /\ before' = State
      /\ UNCHANGED <<active, queue, effect, line, picked>>
  BY DEF BeginTick, itemsVars
<1>3. /\ before'.active = active /\ before'.queue = queue /\ before'.effect = effect
  BY <1>2 DEF State
<1>4. ManagerOK(active, queue, effect) /\ line = {} /\ picked = {}
  BY DEF LoopsInv, BeginTick
<1>5. effect' = Counted(args.players \ ahead)'
  <2>1. (args.players \ ahead)' = {}
    BY <1>2
  <2>2. effect = [p \in Runners |-> effect[p]]
    BY <1>4 DEF ManagerOK
  <2> QED
    BY <1>2, <1>3, <2>1, <2>2 DEF Counted
<1> QED
  BY <1>1, <1>2, <1>3, <1>4, <1>5 DEF LoopsInv

LEMMA CountEffectStep == LoopsInv /\ CountEffect => LoopsInv'
<1> SUFFICES ASSUME LoopsInv, CountEffect PROVE LoopsInv'
  OBVIOUS
<1>1. /\ at = "effects" /\ ahead \subseteq args.players /\ args.players \subseteq Runners
      /\ effect = Counted(args.players \ ahead) /\ effect \in [Runners -> Nat]
      /\ before.effect \in [Runners -> Nat]
  BY DEF CountEffect, LoopsInv, ArgsOK, ManagerOK
<1>2. PICK p \in ahead :
        /\ effect' = [effect EXCEPT ![p] = IF effect[p] > 0 THEN effect[p] - 1 ELSE 0]
        /\ ahead' = ahead \ {p}
  BY DEF CountEffect
<1>3. UNCHANGED <<active, queue, at, args, item, line, picked, before>>
  BY DEF CountEffect
<1>4. effect' \in [Runners -> Nat]
  <2>1. effect \in [Runners -> Nat] /\ p \in Runners
    BY <1>1, <1>2
  <2>2. (IF effect[p] > 0 THEN effect[p] - 1 ELSE 0) \in Nat
    BY <2>1
  <2> QED
    BY <1>2, <2>1, <2>2
<1>5. effect' = Counted(args.players \ ahead')
  <2>1. ASSUME NEW q \in Runners PROVE effect'[q] = Counted(args.players \ ahead')[q]
    BY <1>1, <1>2, <2>1 DEF Counted
  <2> QED
    BY <1>4, <2>1 DEF Counted
<1> QED
  BY <1>1, <1>2, <1>3, <1>4, <1>5 DEF LoopsInv, ArgsOK, ManagerOK, Counted

LEMMA EffectsDoneStep == LoopsInv /\ EffectsDone => LoopsInv'
<1> SUFFICES ASSUME LoopsInv, EffectsDone PROVE LoopsInv'
  OBVIOUS
<1>1. /\ active = before.active /\ queue = before.queue /\ ahead = {}
      /\ effect = Counted(args.players \ ahead)
  BY DEF LoopsInv, EffectsDone
<1>2. /\ at' = "queue" /\ ahead' = DOMAIN before.queue
      /\ UNCHANGED <<active, queue, effect, args, item, line, picked, before>>
  BY <1>1 DEF EffectsDone, itemsVars
<1>3. args.players \ ahead = args.players
  BY <1>1
<1>4. DOMAIN before.queue \ ahead' = {}
  BY <1>2
<1>5. (MapAfter(DOMAIN before.queue \ ahead) /\ QueueAfter(DOMAIN before.queue \ ahead))'
  BY <1>1, <1>2, <1>4 DEF MapAfter, QueueAfter
<1>6. effect' = Counted(args.players)'
  BY <1>1, <1>2, <1>3 DEF Counted
<1>7. at = "effects" /\ (ArgsOK /\ ManagerOK(before.active, before.queue, before.effect))'
  BY <1>2 DEF EffectsDone, LoopsInv, ArgsOK, ManagerOK, Turns
<1>8. (ManagerOK(active, queue, effect) /\ line = {} /\ picked = {})'
  BY <1>2, <1>7 DEF LoopsInv, ManagerOK
<1> QED
  BY <1>2, <1>5, <1>6, <1>7, <1>8 DEF LoopsInv

\* A timer that runs out puts its item on the map, wherever; another goes on.
LEMMA CountTimerStep == LoopsInv /\ CountTimer => LoopsInv'
<1> SUFFICES ASSUME LoopsInv, CountTimer PROVE LoopsInv'
  OBVIOUS
<1>1. /\ at = "queue" /\ effect = Counted(args.players) /\ ahead \subseteq DOMAIN before.queue
      /\ MapAfter(DOMAIN before.queue \ ahead) /\ QueueAfter(DOMAIN before.queue \ ahead)
      /\ ManagerOK(active, queue, effect)
      /\ ManagerOK(before.active, before.queue, before.effect)
      /\ ArgsOK /\ line = {} /\ picked = {}
  BY DEF CountTimer, LoopsInv
<1>2. UNCHANGED <<effect, at, args, item, line, picked, before>>
  BY DEF CountTimer
<1>3. PICK i \in ahead :
        /\ IF queue[i] <= 1
           THEN /\ \E x \in Spots :
                     active' = [j \in DOMAIN active \cup {i} |-> IF j = i THEN x ELSE active[j]]
                /\ queue' = [j \in DOMAIN queue \ {i} |-> queue[j]]
           ELSE queue' = [queue EXCEPT ![i] = @ - 1] /\ UNCHANGED active
        /\ ahead' = ahead \ {i}
  BY DEF CountTimer
<1> DEFINE done == DOMAIN before.queue \ ahead
<1>4. /\ i \in DOMAIN before.queue /\ i \notin done /\ i \in DOMAIN queue
      /\ queue[i] = before.queue[i] /\ queue[i] \in Int
  BY <1>1, <1>3 DEF QueueAfter, ManagerOK
<1>5. /\ UNCHANGED before /\ WasDue' = WasDue
      /\ (DOMAIN before.queue \ ahead)' = done \cup {i}
  BY <1>1, <1>2, <1>3 DEF WasDue
<1>6. ASSUME queue[i] <= 1
      PROVE  (/\ MapAfter(DOMAIN before.queue \ ahead) /\ QueueAfter(DOMAIN before.queue \ ahead)
               /\ ManagerOK(active, queue, effect))'
  <2>1. PICK x \in Spots :
          active' = [j \in DOMAIN active \cup {i} |-> IF j = i THEN x ELSE active[j]]
    BY <1>3, <1>6
  <2>2. queue' = [j \in DOMAIN queue \ {i} |-> queue[j]]
    BY <1>3, <1>6
  <2>3. WasDue \cap (done \cup {i}) = (WasDue \cap done) \cup {i}
    BY <1>4, <1>6 DEF WasDue
  <2>4. MapAfter(DOMAIN before.queue \ ahead)'
    BY <1>1, <1>5, <2>1, <2>3 DEF MapAfter
  <2>5. QueueAfter(DOMAIN before.queue \ ahead)'
    BY <1>1, <1>5, <2>2, <2>3 DEF QueueAfter
  <2>6. ManagerOK(active, queue, effect)'
    BY <1>1, <1>2, <2>1, <2>2 DEF ManagerOK
  <2> QED
    BY <2>4, <2>5, <2>6
<1>7. ASSUME ~(queue[i] <= 1)
      PROVE  (/\ MapAfter(DOMAIN before.queue \ ahead) /\ QueueAfter(DOMAIN before.queue \ ahead)
               /\ ManagerOK(active, queue, effect))'
  <2>1. queue' = [queue EXCEPT ![i] = @ - 1] /\ active' = active
    BY <1>3, <1>7
  <2>2. WasDue \cap (done \cup {i}) = WasDue \cap done
    BY <1>4, <1>7 DEF WasDue
  <2>3. MapAfter(DOMAIN before.queue \ ahead)'
    BY <1>1, <1>5, <2>1, <2>2 DEF MapAfter
  <2>4. QueueAfter(DOMAIN before.queue \ ahead)'
    BY <1>1, <1>4, <1>5, <2>1, <2>2 DEF QueueAfter, ManagerOK
  <2>5. ManagerOK(active, queue, effect)'
    BY <1>1, <1>2, <1>4, <2>1 DEF ManagerOK
  <2> QED
    BY <2>3, <2>4, <2>5
<1>8. (/\ MapAfter(DOMAIN before.queue \ ahead) /\ QueueAfter(DOMAIN before.queue \ ahead)
       /\ ManagerOK(active, queue, effect))'
  BY <1>6, <1>7
<1>9. (ArgsOK /\ ManagerOK(before.active, before.queue, before.effect))'
  BY <1>1, <1>2 DEF ArgsOK, ManagerOK, Turns
<1>10. effect' = Counted(args.players)'
  BY <1>1, <1>2 DEF Counted
<1>11. ahead' \subseteq DOMAIN before'.queue
  BY <1>1, <1>2, <1>3
<1> QED
  BY <1>1, <1>2, <1>8, <1>9, <1>10, <1>11 DEF LoopsInv

LEMMA QueueDoneStep == LoopsInv /\ QueueDone => LoopsInv'
<1> SUFFICES ASSUME LoopsInv, QueueDone PROVE LoopsInv'
  OBVIOUS
<1>1. /\ at = "queue" /\ ahead = {} /\ effect = Counted(args.players)
      /\ MapAfter(DOMAIN before.queue \ ahead) /\ QueueAfter(DOMAIN before.queue \ ahead)
      /\ ManagerOK(active, queue, effect)
      /\ ManagerOK(before.active, before.queue, before.effect)
      /\ ArgsOK /\ line = {} /\ picked = {}
  BY DEF QueueDone, LoopsInv
<1>2. /\ at' = "pickup" /\ ahead' = DOMAIN active
      /\ UNCHANGED <<active, queue, effect, args, item, line, picked, before>>
  BY DEF QueueDone, itemsVars
<1>3. (MapAfter(DOMAIN before.queue) /\ QueueAfter(DOMAIN before.queue))'
  BY <1>1, <1>2 DEF MapAfter, QueueAfter, WasDue
<1>4. (ArgsOK /\ ManagerOK(before.active, before.queue, before.effect)
       /\ ManagerOK(active, queue, effect))'
  BY <1>1, <1>2 DEF ArgsOK, ManagerOK, Turns
<1>5. PickedUp'
  <2>1. Looked' = {}
    BY <1>2 DEF Looked
  <2>2. effect' = Counted(args.players)'
    BY <1>1, <1>2 DEF Counted
  <2>3. Counted(args.players)' = [p \in Runners |-> Counted(args.players)'[p]]
    BY DEF Counted
  <2> QED
    BY <1>1, <1>2, <2>1, <2>2, <2>3 DEF PickedUp
<1> QED
  BY <1>1, <1>2, <1>3, <1>4, <1>5 DEF LoopsInv

\* What the iterations of CheckPickup leave alone.
LEMMA PickupFrame ==
    ASSUME LoopsInv, at = "pickup",
           UNCHANGED <<active, queue, at, args, before>>
    PROVE  /\ (ArgsOK /\ ManagerOK(before.active, before.queue, before.effect))'
           /\ (MapAfter(DOMAIN before.queue) /\ QueueAfter(DOMAIN before.queue))'
           /\ active' \in [DOMAIN active' -> Spots] /\ queue' \in [DOMAIN queue' -> Int]
           /\ \A i \in DOMAIN active : TakersOf(i)' = TakersOf(i)
           /\ \A i \in DOMAIN active, p \in Runners : First(p, i)' = First(p, i)
           /\ Counted(args.players)' = Counted(args.players)
<1> USE DEF LoopsInv
<1>1. (ArgsOK /\ ManagerOK(before.active, before.queue, before.effect))'
  BY DEF ArgsOK, ManagerOK, Turns
<1>2. (MapAfter(DOMAIN before.queue) /\ QueueAfter(DOMAIN before.queue))'
  BY DEF MapAfter, QueueAfter, WasDue
<1>3. active' \in [DOMAIN active' -> Spots] /\ queue' \in [DOMAIN queue' -> Int]
  BY DEF ManagerOK
<1>4. \A i \in DOMAIN active : TakersOf(i)' = TakersOf(i)
  BY DEF TakersOf, Takers
<1>5. \A i \in DOMAIN active, p \in Runners : First(p, i)' = First(p, i)
  BY <1>4 DEF First
<1>6. Counted(args.players)' = Counted(args.players)
  BY DEF Counted
<1> QED
  BY <1>1, <1>2, <1>3, <1>4, <1>5, <1>6

LEMMA NextItemStep == LoopsInv /\ NextItem => LoopsInv'
<1> SUFFICES ASSUME LoopsInv, NextItem PROVE LoopsInv'
  OBVIOUS
<1>1. /\ at = "pickup" /\ line = {} /\ item' \in ahead /\ ahead' = ahead \ {item'}
      /\ line' = args.players
      /\ UNCHANGED <<active, queue, effect, at, args, picked, before>>
  BY DEF NextItem, itemsVars
<1>2. /\ ahead \subseteq DOMAIN active /\ PickedUp /\ ManagerOK(active, queue, effect)
  BY <1>1 DEF LoopsInv
<1>3. /\ \A i \in DOMAIN active : TakersOf(i)' = TakersOf(i)
      /\ \A i \in DOMAIN active, p \in Runners : First(p, i)' = First(p, i)
      /\ Counted(args.players)' = Counted(args.players)
  BY <1>1, PickupFrame
<1>4. {i \in Looked' : TakersOf(i) # {}} = {i \in Looked : TakersOf(i) # {}}
  <2>1. CASE args.players = {}
    <3>1. Looked' = Looked \cup {item'}
      BY <1>1, <1>2, <2>1 DEF Looked
    <3>2. TakersOf(item') = {}
      BY <2>1 DEF TakersOf, Takers
    <3> QED
      BY <3>1, <3>2
  <2>2. CASE args.players # {}
    BY <1>1, <1>2, <2>2 DEF Looked
  <2> QED
    BY <2>1, <2>2
<1>5. picked \subseteq DOMAIN active /\ Looked' \subseteq DOMAIN active
  BY <1>1, <1>2 DEF PickedUp, Looked
<1>6. PickedUp'
  <2>1. line' # {} => /\ item' \in DOMAIN active' \ ahead'
                      /\ \A p \in args'.players \ line' : p \notin TakersOf(item)'
    BY <1>1, <1>2
  <2>2. picked' = {i \in Looked' : TakersOf(i)' # {}}
    BY <1>1, <1>2, <1>3, <1>4, <1>5 DEF PickedUp
  <2>3. effect' = [p \in Runners |-> IF \E i \in picked' : First(p, i)' THEN EffectTicks
                                     ELSE Counted(args.players)'[p]]
    BY <1>1, <1>2, <1>3, <1>5 DEF PickedUp
  <2> QED
    BY <2>1, <2>2, <2>3 DEF PickedUp
<1>7. ManagerOK(active, queue, effect)'
  BY <1>1, <1>2 DEF ManagerOK
<1> QED
  BY <1>1, <1>2, <1>6, <1>7, PickupFrame DEF LoopsInv

\* The first player of the list in range of the item is the only one it is given to.
LEMMA TryStep == LoopsInv /\ Try => LoopsInv'
<1> SUFFICES ASSUME LoopsInv, Try PROVE LoopsInv'
  OBVIOUS
<1>1. /\ at = "pickup" /\ UNCHANGED <<active, queue, at, args, ahead, item, before>>
  BY DEF Try
<1>2. /\ ahead \subseteq DOMAIN active /\ line \subseteq args.players /\ PickedUp
      /\ ManagerOK(active, queue, effect) /\ ArgsOK
  BY <1>1 DEF LoopsInv
<1>3. /\ \A i \in DOMAIN active : TakersOf(i)' = TakersOf(i)
      /\ \A i \in DOMAIN active, p \in Runners : First(p, i)' = First(p, i)
      /\ Counted(args.players)' = Counted(args.players)
  BY <1>1, PickupFrame
<1>4. PICK p \in line :
        /\ \A q \in line : args.turn[p] <= args.turn[q]
        /\ IF CanTake(p, item)
           THEN /\ effect' = [effect EXCEPT ![p] = EffectTicks]
                /\ picked' = picked \cup {item}
                /\ line' = {}
           ELSE line' = line \ {p} /\ UNCHANGED <<effect, picked>>
  BY DEF Try
<1>5. /\ item \in DOMAIN active /\ item \notin ahead
      /\ \A q \in args.players \ line : q \notin TakersOf(item)
      /\ picked = {i \in Looked : TakersOf(i) # {}}
      /\ Looked = DOMAIN active \ (ahead \cup {item})
      /\ effect = [q \in Runners |-> IF \E i \in picked : First(q, i) THEN EffectTicks
                                     ELSE Counted(args.players)[q]]
  BY <1>4, <1>2 DEF PickedUp, Looked
<1>6. CanTake(p, item) <=> p \in TakersOf(item)
  BY <1>2, <1>4 DEF CanTake, TakersOf, Takers
<1>7. TakersOf(item) \subseteq line /\ p \in Runners
  BY <1>2, <1>4, <1>5 DEF TakersOf, Takers, ArgsOK
<1>8. picked' \subseteq DOMAIN active /\ Looked' \subseteq DOMAIN active
  BY <1>1, <1>4, <1>5 DEF Looked
<1>9. line' # {} => /\ item' \in DOMAIN active' \ ahead'
                    /\ \A q \in args'.players \ line' : q \notin TakersOf(item)'
  <2>1. TakersOf(item)' = TakersOf(item)
    BY <1>1 DEF TakersOf, Takers
  <2> QED
    BY <1>1, <1>4, <1>5, <1>6, <2>1
<1>10. picked' = {i \in Looked' : TakersOf(i) # {}}
  <2>1. CASE p \in TakersOf(item)
    <3>1. Looked' = Looked \cup {item} /\ picked' = picked \cup {item}
      BY <1>1, <1>4, <1>5, <1>6, <2>1 DEF Looked
    <3> QED
      BY <1>5, <2>1, <3>1
  <2>2. CASE p \notin TakersOf(item)
    <3>1. picked' = picked /\ line' = line \ {p}
      BY <1>4, <1>6, <2>2
    <3>2. CASE line' = {}
      <4>1. Looked' = Looked \cup {item}
        BY <1>1, <1>5, <3>2 DEF Looked
      <4>2. TakersOf(item) = {}
        BY <1>7, <2>2, <3>1, <3>2
      <4> QED
        BY <1>5, <3>1, <4>1, <4>2
    <3>3. CASE line' # {}
      BY <1>1, <1>5, <3>1, <3>3 DEF Looked
    <3> QED
      BY <3>2, <3>3
  <2> QED
    BY <2>1, <2>2
<1>11. effect' = [q \in Runners |-> IF \E i \in picked' : First(q, i) THEN EffectTicks
                                    ELSE Counted(args.players)[q]]
  <2>1. CASE p \in TakersOf(item)
    <3>1. picked' = picked \cup {item} /\ effect' = [effect EXCEPT ![p] = EffectTicks]
      BY <1>4, <1>6, <2>1
    <3>2. First(p, item)
      BY <1>4, <1>7, <2>1 DEF First
    <3>3. ASSUME NEW q \in Runners, First(q, item) PROVE q = p
      <4>1. q \in line /\ args.turn[p] <= args.turn[q] /\ args.turn[q] <= args.turn[p]
        BY <1>4, <1>7, <2>1, <3>3 DEF First
      <4>2. args.turn[p] \in Nat /\ args.turn[q] \in Nat
        BY <1>2, <1>4, <4>1 DEF ArgsOK, Turns
      <4>3. args.turn[p] = args.turn[q]
        BY <4>1, <4>2
      <4> QED
        BY <1>2, <1>4, <4>1, <4>3 DEF ArgsOK, Turns
    <3>4. ASSUME NEW q \in Runners
          PROVE  effect'[q] = IF \E i \in picked' : First(q, i) THEN EffectTicks
                              ELSE Counted(args.players)[q]
      <4>1. CASE q = p
        BY <1>5, <1>7, <3>1, <3>2, <4>1
      <4>2. CASE q # p
        <5>1. (\E i \in picked' : First(q, i)) <=> (\E i \in picked : First(q, i))
          BY <3>1, <3>3, <4>2
        <5> QED
          BY <1>5, <3>1, <4>2, <5>1
      <4> QED
        BY <4>1, <4>2
    <3>5. effect' = [q \in Runners |-> effect'[q]]
      BY <1>5, <3>1
    <3> QED
      BY <3>4, <3>5
  <2>2. CASE p \notin TakersOf(item)
    BY <1>4, <1>5, <1>6, <2>2
  <2> QED
    BY <2>1, <2>2
<1>12. PickedUp'
  <2>1. picked' = {i \in Looked' : TakersOf(i)' # {}}
    BY <1>3, <1>8, <1>10
  <2>2. effect' = [q \in Runners |-> IF \E i \in picked' : First(q, i)' THEN EffectTicks
                                     ELSE Counted(args.players)'[q]]
    BY <1>3, <1>8, <1>11
  <2> QED
    BY <1>9, <2>1, <2>2 DEF PickedUp
<1>13. ManagerOK(active, queue, effect)'
  <2>1. effect \in [Runners -> Nat] /\ EffectTicks \in Nat
    BY <1>2 DEF ManagerOK
  <2>2. effect' \in [Runners -> Nat]
    BY <1>4, <2>1
  <2> QED
    BY <1>1, <1>2, <2>2 DEF ManagerOK
<1>14. line' \subseteq args'.players /\ ahead' \subseteq DOMAIN active'
  BY <1>1, <1>2, <1>4
<1> QED
  BY <1>1, <1>12, <1>13, <1>14, PickupFrame DEF LoopsInv

LEMMA PickupDoneStep == LoopsInv /\ PickupDone => LoopsInv'
<1> SUFFICES ASSUME LoopsInv, PickupDone PROVE LoopsInv'
  OBVIOUS
<1>1. /\ active' = [i \in DOMAIN active \ picked |-> active[i]]
      /\ queue' = [i \in DOMAIN queue \cup picked |->
                      IF i \in picked THEN RespawnTicks ELSE queue[i]]
      /\ at' = "none" /\ picked' = {} /\ line' = {} /\ effect' = effect
  BY DEF PickupDone
<1>2. ManagerOK(active, queue, effect) /\ RespawnTicks \in Int
  BY DEF LoopsInv
<1>3. ManagerOK(active, queue, effect)'
  BY <1>1, <1>2 DEF ManagerOK
<1> QED
  BY <1>1, <1>3 DEF LoopsInv

LEMMA LoopsStep == LoopsInv /\ [ItemLoopsNext]_itemLoopsVars => LoopsInv'
<1> SUFFICES ASSUME LoopsInv, UNCHANGED itemLoopsVars PROVE LoopsInv'
  BY BetweenTicksStep, BeginTickStep, CountEffectStep, EffectsDoneStep, CountTimerStep,
     QueueDoneStep, NextItemStep, TryStep, PickupDoneStep DEF ItemLoopsNext
<1> USE DEF itemLoopsVars, itemsVars, tickVars
<1>1. CASE at = "pickup"
  <2>1. /\ PickedUp /\ Looked' = Looked /\ Counted(args.players)' = Counted(args.players)
        /\ \A i : TakersOf(i)' = TakersOf(i)
        /\ TakersOf(item)' = TakersOf(item)
    BY <1>1 DEF LoopsInv, Looked, TakersOf, Takers, Counted
  <2>2. \A p, i : First(p, i)' = First(p, i)
    BY <2>1 DEF First
  <2>3. PickedUp'
    BY <2>1, <2>2 DEF PickedUp
  <2> QED
    BY <1>1, <2>3, PickupFrame DEF LoopsInv, ManagerOK
<1>2. CASE at # "pickup"
  BY <1>2 DEF LoopsInv, ManagerOK, ArgsOK, Turns, MapAfter, QueueAfter, WasDue, Counted
<1> QED
  BY <1>1, <1>2

(***************************************************************************)
(* They add up to a tick.                                                   *)
(***************************************************************************)

LEMMA PickupIsTick == LoopsInv /\ PickupDone => Tickwise!AnyTick
<1> SUFFICES ASSUME LoopsInv, PickupDone PROVE Tickwise!AnyTick
  OBVIOUS
<1>1. /\ at = "pickup" /\ line = {} /\ ahead = {} /\ at' = "none"
      /\ active' = [i \in DOMAIN active \ picked |-> active[i]]
      /\ queue' = [i \in DOMAIN queue \cup picked |->
                      IF i \in picked THEN RespawnTicks ELSE queue[i]]
      /\ effect' = effect
  BY DEF PickupDone
<1>2. /\ ManagerOK(active, queue, effect)
      /\ ManagerOK(before.active, before.queue, before.effect)
      /\ ArgsOK /\ PickedUp
      /\ MapAfter(DOMAIN before.queue) /\ QueueAfter(DOMAIN before.queue)
  BY <1>1 DEF LoopsInv
<1>3. PICK players, places, states, turn :
        players = args.players /\ places = args.pos /\ states = args.cond /\ turn = args.turn
  OBVIOUS
<1>4. PICK onMap : onMap = active
  OBVIOUS
<1>5. WasDue \subseteq DOMAIN before.queue /\ Tickwise!Due = WasDue
  BY <1>1 DEF WasDue, Tickwise!Due
<1>6. DOMAIN onMap = DOMAIN before.active \cup WasDue
  BY <1>2, <1>4, <1>5 DEF MapAfter
<1>7. PICK spot : spot = [i \in WasDue |-> onMap[i]]
  OBVIOUS
<1>8. spot \in [WasDue -> Spots] /\ onMap \in [DOMAIN onMap -> Spots]
  BY <1>2, <1>4, <1>6, <1>7 DEF ManagerOK
<1>9. onMap = [i \in DOMAIN before.active \cup WasDue |->
                 IF i \in WasDue THEN spot[i] ELSE before.active[i]]
  BY <1>2, <1>4, <1>5, <1>6, <1>7, <1>8 DEF MapAfter
<1>10. PICK takers : takers = [i \in DOMAIN onMap |-> Takers(players, places, states, onMap[i])]
  OBVIOUS
<1>11. \A i \in DOMAIN onMap : takers[i] = TakersOf(i)
  BY <1>3, <1>4, <1>10 DEF TakersOf
<1>12. picked = {i \in DOMAIN onMap : takers[i] # {}}
  <2>1. Looked = DOMAIN onMap
    BY <1>1, <1>4 DEF Looked
  <2> QED
    BY <1>2, <1>11, <2>1 DEF PickedUp
<1>13. PICK lucky : lucky = {p \in players : \E i \in picked :
                               p \in takers[i] /\ \A q \in takers[i] : turn[p] <= turn[q]}
  OBVIOUS
<1>14. \A p \in Runners : p \in lucky <=> \E i \in picked : First(p, i)
  BY <1>3, <1>11, <1>12, <1>13 DEF First, TakersOf, Takers
<1>15. effect' = [p \in Runners |->
                    IF p \in lucky THEN EffectTicks
                    ELSE IF p \in players /\ before.effect[p] > 0 THEN before.effect[p] - 1
                    ELSE before.effect[p]]
  BY <1>1, <1>2, <1>3, <1>14 DEF PickedUp, Counted
<1>16. queue' = [i \in (DOMAIN before.queue \ WasDue) \cup picked |->
                   IF i \in picked THEN RespawnTicks ELSE before.queue[i] - 1]
  <2>1. DOMAIN queue = DOMAIN before.queue \ WasDue
    BY <1>2, <1>5 DEF QueueAfter
  <2>2. \A i \in DOMAIN queue : queue[i] = before.queue[i] - 1
    BY <1>2, <2>1 DEF QueueAfter
  <2> QED
    BY <1>1, <2>1, <2>2
<1>17. active' = [i \in DOMAIN onMap \ picked |-> onMap[i]]
  BY <1>1, <1>4
<1>18. Tickwise!Tick(players, places, states, turn)
  <2>1. Tickwise!Requeue(picked) = queue'
    BY <1>1, <1>5, <1>16 DEF Tickwise!Requeue
  <2>2. \A x : Tickwise!Takers(players, places, states, x) = Takers(players, places, states, x)
    BY DEF Tickwise!Takers, Takers
  <2> DEFINE a == IF at = "none" THEN active ELSE before.active
             e == IF at = "none" THEN effect ELSE before.effect
             oM == [i \in DOMAIN a \cup Tickwise!Due |->
                      IF i \in Tickwise!Due THEN spot[i] ELSE a[i]]
             tk == [i \in DOMAIN oM |-> Tickwise!Takers(players, places, states, oM[i])]
             pk == {i \in DOMAIN oM : tk[i] # {}}
             lk == {p \in players : \E i \in pk : /\ p \in tk[i]
                                                 /\ \A q \in tk[i] : turn[p] <= turn[q]}
  <2>3. a = before.active /\ e = before.effect
    BY <1>1
  <2> HIDE DEF a, e
  <2>4. onMap = oM
    BY <1>5, <1>9, <2>3
  <2> HIDE DEF oM
  <2>5. takers = tk
    BY <1>10, <2>2, <2>4
  <2> HIDE DEF tk
  <2>6. picked = pk
    BY <1>12, <2>4, <2>5
  <2> HIDE DEF pk
  <2>7. lucky = lk
    BY <1>13, <2>5, <2>6
  <2> HIDE DEF lk
  <2>8. /\ active' = [i \in DOMAIN oM \ pk |-> oM[i]]
        /\ queue' = Tickwise!Requeue(pk)
        /\ effect' = [p \in Runners |->
                        IF p \in lk THEN EffectTicks
                        ELSE IF p \in players /\ e[p] > 0 THEN e[p] - 1
                        ELSE e[p]]
    BY <1>15, <1>17, <2>1, <2>3, <2>4, <2>6, <2>7
  <2>9. /\ (IF at = "none" THEN active ELSE before.active)' = active'
        /\ (IF at = "none" THEN queue ELSE before.queue)' = queue'
        /\ (IF at = "none" THEN effect ELSE before.effect)' = effect'
    BY <1>1
  <2>10. spot \in [Tickwise!Due -> Spots]
    BY <1>5, <1>8
  <2> USE DEF a, e, oM, tk, pk, lk
  <2> QED
    BY <2>8, <2>9, <2>10 DEF Tickwise!Tick
<1> QED
  BY <1>2, <1>3, <1>18 DEF Tickwise!AnyTick, Tickwise!Turns, Turns, ArgsOK

\* Every step of the loops is a step of Items or none: the tick is its last one.
LEMMA LoopsImplement ==
    LoopsInv /\ [ItemLoopsNext]_itemLoopsVars => [Tickwise!ItemsNext]_(Tickwise!itemsVars)
<1> SUFFICES ASSUME LoopsInv, [ItemLoopsNext]_itemLoopsVars
             PROVE  Tickwise!ItemsNext \/ UNCHANGED Tickwise!itemsVars
  OBVIOUS
<1> USE DEF Tickwise!itemsVars
<1>1. CASE UNCHANGED itemLoopsVars
  BY <1>1 DEF itemLoopsVars, itemsVars, tickVars
<1>2. CASE BetweenTicks
  <2>1. at = "none" /\ at' = "none"
    BY <1>2 DEF BetweenTicks, tickVars
  <2>2. CASE NewGame
    BY <2>1, <2>2 DEF NewGame, New, EmptyFcn, Tickwise!ItemsNext, Tickwise!NewGame, Tickwise!New,
                      Tickwise!EmptyFcn
  <2>3. ASSUME NEW players \in SUBSET Runners, Reset(players) PROVE Tickwise!Reset(players)
    BY <2>1, <2>3 DEF Reset, Tickwise!Reset
  <2> QED
    BY <1>2, <2>2, <2>3 DEF BetweenTicks, Tickwise!ItemsNext
<1>3. CASE BeginTick
  BY <1>3 DEF BeginTick, State, itemsVars
<1>4. CASE CountEffect \/ EffectsDone \/ CountTimer \/ QueueDone \/ NextItem \/ Try
  BY <1>4 DEF CountEffect, EffectsDone, CountTimer, QueueDone, NextItem, Try
<1>5. CASE PickupDone
  BY <1>5, PickupIsTick DEF Tickwise!ItemsNext
<1> QED
  BY <1>1, <1>2, <1>3, <1>4, <1>5 DEF ItemLoopsNext

\* The loops of UpdatePlayerBoosts, Update and CheckPickup, in any order of players,
\* timers and items, do what Items says of a whole tick (booster.go:81-141,
\* stumble_stone.go:81-141).
THEOREM ItemsImplemented == ItemLoopsSpec => ImplementsItems
<1>1. ItemLoopsInit => Tickwise!Init
  BY DEF ItemLoopsInit, Init, NoManager, EmptyFcn, Tickwise!Init, Tickwise!NoManager,
         Tickwise!EmptyFcn
<1> QED
  BY LoopsInvInit, LoopsStep, LoopsImplement, <1>1, PTL
     DEF ItemLoopsSpec, ImplementsItems, Tickwise!ItemsSpec
==============================================================================
