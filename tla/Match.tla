-------------------------------- MODULE Match --------------------------------
(***************************************************************************)
(* What a room promises about its games, without loops, locks, handlers or *)
(* players: a game that begins either ends or is replaced by the next one, *)
(* ends at most once, and its end is told once.  Room implements it.        *)
(***************************************************************************)
EXTENDS Integers

CONSTANT MaxGames

VARIABLES phase,  \* "waiting", "playing" or "ended"
          game,   \* how many games have begun
          over,   \* the games that have ended
          told    \* per game: how often its end was told

vars == <<phase, game, over, told>>

Init == /\ phase = "waiting"
        /\ game = 0
        /\ over = {}
        /\ told = [g \in 1..MaxGames |-> 0]

\* A game begins, in any phase: readiness is looked at in any phase too.
Begin == /\ game < MaxGames
         /\ phase' = "playing"
         /\ game' = game + 1
         /\ UNCHANGED <<over, told>>

\* Only the game that is played can end.
End == /\ phase = "playing"
       /\ phase' = "ended"
       /\ over' = over \cup {game}
       /\ UNCHANGED <<game, told>>

\* The players may be in another game, or in the lobby, by the time they are told.
Tell(g) == /\ g \in over
           /\ told[g] = 0
           /\ told' = [told EXCEPT ![g] = 1]
           /\ UNCHANGED <<phase, game, over>>

Return == /\ phase = "ended"
          /\ phase' = "waiting"
          /\ UNCHANGED <<game, over, told>>

Next == Begin \/ End \/ Return \/ \E g \in 1..MaxGames : Tell(g)

Spec == Init /\ [][Next]_vars

FairSpec == Spec /\ WF_vars(End) /\ \A g \in 1..MaxGames : WF_vars(Tell(g))
==============================================================================
