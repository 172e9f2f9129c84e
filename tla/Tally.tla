-------------------------------- MODULE Tally --------------------------------
(***************************************************************************)
(* Room with history variables: what the gauges of a player should stand   *)
(* for, counted apart from them.                                            *)
(***************************************************************************)
EXTENDS Room

VARIABLE near   \* ticks a policeman was in range of the free thief, since its
                 \* last arrest, release or reset

tallyVars == <<vars, near>>

\* The loop l runs its arrest mechanics.
Arresting(l) == pc[l] = "arrest" /\ pc'[l] = "rescue"

Arrested(p) == cond[p] # "arrested" /\ cond'[p] = "arrested"

CountNear ==
    near' = [p \in Players |->
        CASE Arrested(p) \/ Freed(p) \/ (Resetting /\ p \in members) -> 0
          [] \E l \in Loops : Arresting(l) /\ p \in Chased(list[l]) /\ ~Arrested(p)
               -> near[p] + 1
          [] OTHER -> near[p]]

TallyInit == /\ Init
             /\ near = [p \in Players |-> 0]

TallyNext == Next /\ CountNear

TallySpec == TallyInit /\ [][TallyNext]_tallyVars

\* A thief is arrested only while free, and only after policemen were in its
\* range for ArrestTicks ticks, those of several policemen counted together: no
\* gauge is left over from an earlier arrest, an earlier game or another role.
ArrestNeedsTime ==
    [][\A p \in Players : Arrested(p) =>
         /\ role[p] = "thief"
         /\ cond[p] = "free"
         /\ MaxPolice * (near[p] + 1) >= ArrestTicks]_tallyVars

(***************************************************************************)
(* What comments of the code say, and the code does not do.                 *)
(***************************************************************************)

\* A playing room is ticked at TickRate: at most one loop has a ticker running
\* for the game that is played.
TickRateHolds ==
    state = "playing" =>
        \A k, l \in Loops : pc[k] = "select" /\ pc[l] = "select" /\ ch[k] = stopCh
                            /\ ch[l] = stopCh => k = l

\* Thieves win when "the timer expired and at least one thief is free".
ThiefWinHasFreeThief ==
    [][\A l \in Loops : pc[l] = "check" /\ verdict'[l] = "thief" => FreeThief(list[l])]_tallyVars
==============================================================================
