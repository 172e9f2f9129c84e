------------------------------ MODULE Directory ------------------------------
(***************************************************************************)
(* What the server promises about rooms and their players, without         *)
(* connections, messages, locks or games: a player enters one room, once,   *)
(* and never comes back after leaving it; a room is listed while, and only  *)
(* while, somebody is in it.  Hub implements it for all rooms, Room for one.*)
(***************************************************************************)
EXTENDS Integers, FiniteSets

CONSTANTS Players,
          Codes,   \* neither "new" nor "gone" is one
          MaxPlayers

VARIABLES listed,  \* the codes of the listed rooms
          place    \* per player: "new", the code of its room, or "gone"

vars == <<listed, place>>

Occupants(code) == {p \in Players : place[p] = code}

Init == listed = {} /\ place = [p \in Players |-> "new"]

Open(p, code) ==
    /\ place[p] = "new" /\ code \notin listed
    /\ listed' = listed \cup {code}
    /\ place' = [place EXCEPT ![p] = code]

Enter(p, code) ==
    /\ place[p] = "new" /\ code \in listed
    /\ Cardinality(Occupants(code)) < MaxPlayers
    /\ place' = [place EXCEPT ![p] = code]
    /\ UNCHANGED listed

Leave(p, code) ==
    /\ place[p] = code
    /\ place' = [place EXCEPT ![p] = "gone"]
    /\ listed' = IF Occupants(code) = {p} THEN listed \ {code} ELSE listed

Next == \E p \in Players, code \in Codes : Open(p, code) \/ Enter(p, code) \/ Leave(p, code)

Spec == Init /\ [][Next]_vars
==============================================================================
