------------------------------- MODULE Phases --------------------------------
(***************************************************************************)
(* The arrest and rescue mechanics of gameLoop one iteration at a time, in  *)
(* any order of the list of players.  Game gives each phase as a whole; here *)
(* it is shown that the iterations add up to it.                             *)
(***************************************************************************)
EXTENDS Game

VARIABLES
    stage,  \* the loop the tick is in
    todo,   \* what that loop still has to visit: pairs, or players
    was     \* the players when that loop began

gaugesAndConds == <<cond, arrestGauge, rescueGauge, invincible>>
phasesVars == <<role, pos, gaugesAndConds, stage, todo, was>>

Snapshot == [cond |-> cond, arrestGauge |-> arrestGauge,
             rescueGauge |-> rescueGauge, invincible |-> invincible]

\* FindArrestPairs: the free thieves with the policemen in range of them.
ArrestPairs ==
    {pair \in Cops(Players) \X Thieves(Players) :
        cond[pair[2]] = "free" /\ <<pos[pair[1]], pos[pair[2]]>> \in ArrestReach}

\* A tick may find the players in any state in which exactly the invincible ones
\* have a timer.
PhasesInit ==
    /\ role \in [Players -> {"police", "thief"}]
    /\ Cardinality(Cops(Players)) <= MaxPolice
    /\ cond \in [Players -> Conditions]
    /\ pos \in [Players -> Positions]
    /\ arrestGauge \in [Players -> 0..ArrestTicks - 1]
    /\ rescueGauge \in [Players -> 0..RescueTicks - 1]
    /\ invincible \in [Players -> 0..InvincibleTicks]
    /\ \A p \in Players : cond[p] = "invincible" <=> invincible[p] > 0
    /\ stage = "arrest"
    /\ todo = ArrestPairs
    /\ was = Snapshot

\* (Mutant of Hit: a thief that is arrested already is passed over.)
HitFree(pair) ==
    LET t == pair[2]
        full == arrestGauge[t] + 1 >= ArrestTicks
    IN /\ cond' = [cond EXCEPT ![t] = IF full THEN "arrested" ELSE @]
       /\ arrestGauge' = [arrestGauge EXCEPT ![t] = IF full \/ cond[t] = "arrested" THEN 0
                                                    ELSE @ + 1]
       /\ UNCHANGED <<rescueGauge, invincible>>

\* One pair: add a tick to the gauge of its thief, whatever the earlier pairs did
\* to it, and arrest it when the gauge is full.
Hit(pair) ==
    LET t == pair[2]
        full == arrestGauge[t] + 1 >= ArrestTicks
    IN /\ cond' = [cond EXCEPT ![t] = IF full THEN "arrested" ELSE @]
       /\ arrestGauge' = [arrestGauge EXCEPT ![t] = IF full THEN 0 ELSE @ + 1]
       /\ UNCHANGED <<rescueGauge, invincible>>

\* One rescuer: add a tick to its gauge and, when it is full, Release every thief
\* that is still in jail.
Pick(p) ==
    LET full == rescueGauge[p] + 1 >= RescueTicks
        freed == IF full THEN {q \in Thieves(Players) : cond[q] = "arrested"} ELSE {}
    IN /\ cond' = [q \in Players |-> IF q \in freed THEN "invincible" ELSE cond[q]]
       /\ invincible' = [q \in Players |->
                           IF q \in freed THEN InvincibleTicks ELSE invincible[q]]
       /\ arrestGauge' = [q \in Players |-> IF q \in freed THEN 0 ELSE arrestGauge[q]]
       /\ rescueGauge' = [q \in Players |->
                            IF q = p THEN IF full THEN 0 ELSE rescueGauge[p] + 1
                            ELSE IF q \in freed THEN 0
                            ELSE rescueGauge[q]]

\* The gauge of who is a free thief by now and was not a rescuer is emptied.
Relax == rescueGauge' =
            [p \in Players |->
               IF p \in Thieves(Players) /\ cond[p] = "free" /\ pos[p] \notin JailReach
               THEN 0 ELSE rescueGauge[p]]

VisitPair ==
    /\ stage = "arrest"
    /\ \E pair \in todo : Hit(pair) /\ todo' = todo \ {pair}
    /\ UNCHANGED <<role, pos, stage, was>>

ArrestsDone ==
    /\ stage = "arrest" /\ todo = {}
    /\ stage' = "rescue"
    /\ todo' = Rescuers(Players)
    /\ was' = Snapshot
    /\ UNCHANGED <<role, pos, gaugesAndConds>>

VisitRescuer ==
    /\ stage = "rescue"
    /\ \E p \in todo : Pick(p) /\ todo' = todo \ {p}
    /\ UNCHANGED <<role, pos, stage, was>>

RescuesDone ==
    /\ stage = "rescue" /\ todo = {}
    /\ Relax
    /\ stage' = "clear"
    /\ UNCHANGED <<role, pos, cond, arrestGauge, invincible, todo, was>>

\* The next tick may come.
TickDone ==
    /\ stage = "clear"
    /\ stage' = "arrest"
    /\ todo' = ArrestPairs
    /\ was' = Snapshot
    /\ UNCHANGED <<role, pos, gaugesAndConds>>

PhasesNext == VisitPair \/ ArrestsDone \/ VisitRescuer \/ RescuesDone \/ TickDone

PhasesSpec == PhasesInit /\ [][PhasesNext]_phasesVars

\* The players as the loop before found them: this changes only between two loops.
Whole == INSTANCE Game WITH
    cond <- was.cond, arrestGauge <- was.arrestGauge,
    rescueGauge <- was.rescueGauge, invincible <- was.invincible

\* Whatever the order of the players in the list, and however many policemen and
\* rescuers act on the same thief in one tick, the loops of gameLoop have the
\* effect that ArrestPhase and RescuePhase give for all players at once.
PhasesAddUp ==
    [][/\ stage = "arrest" /\ stage' = "rescue" =>
            /\ Whole!ArrestPhase(Players)
            /\ UNCHANGED <<was.rescueGauge, was.invincible>>
       /\ stage = "clear" => Whole!RescuePhase(Players)]_phasesVars
==============================================================================
