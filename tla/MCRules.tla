------------------------------- MODULE MCRules --------------------------------
(* Instances for TLC of the modules of the game package that run alone: Phases, *)
(* ItemLoops and Placement.  They share no state, so a behaviour is one of one of   *)
(* them, while the others stay where they begin.                               *)
EXTENDS Phases, ItemLoops, Placement, TLC

CONSTANTS field, jail
VARIABLE part   \* which of the modules

TwoPlaces == {field, jail}
SamePlace == {<<x, x>> : x \in TwoPlaces}
AtJail == {jail}
SameSpot == {<<x, x>> : x \in Spots}

Objects == <<"jail", "tree">>
HalfWidth == [jail |-> 2, tree |-> 0]
HalfHeight == [jail |-> 1, tree |-> 1]

\* The other modules may begin anywhere; one beginning is enough while they rest.
Resting ==
    /\ part # "phases" =>
        /\ role = [p \in Players |-> "thief"] /\ pos = [p \in Players |-> field]
        /\ cond = [p \in Players |-> "free"]
        /\ arrestGauge = [p \in Players |-> 0] /\ rescueGauge = [p \in Players |-> 0]
    /\ part # "placement" => side = [i \in 1..PlayerCount |-> "thief"]

RulesInit ==
    /\ part \in {"phases", "items", "placement"}
    /\ PhasesInit /\ ItemLoopsInit /\ PlacementInit
    /\ Resting

RulesNext ==
    \/ part = "phases" /\ PhasesNext /\ UNCHANGED <<itemLoopsVars, placementVars>>
    \/ part = "items" /\ ItemLoopsNext /\ UNCHANGED <<phasesVars, placementVars>>
    \/ part = "placement" /\ PlacementNext /\ UNCHANGED <<phasesVars, itemLoopsVars>>

rulesVars == <<part, phasesVars, itemLoopsVars, placementVars>>

RulesSpec == RulesInit /\ [][RulesNext /\ UNCHANGED part]_rulesVars

\* Once the first object is tried the places of the players do not change, and no
\* step nor property of the objects depends on them.
View ==
    <<part, phasesVars, itemLoopsVars, objects, tries,
      IF objects # <<>> \/ (~PlayersNext /\ tries > 0) THEN <<>> ELSE <<side, spawn>> >>

Symmetry == Permutations(Players) \cup Permutations(Runners) \cup Permutations(Item)
===============================================================================
