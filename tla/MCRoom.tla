------------------------------- MODULE MCRoom --------------------------------
(* Instances of Room for TLC.                                              *)
EXTENDS Room, TLC

CONSTANTS field, jail

\* Everybody stands in reach of everybody; nobody is near the jail.
OnePlace == {field}
OneReach == {<<field, field>>}
NoReach == {}
NoItems == {}

\* Two places out of reach of each other, the jail at one of them.
TwoPlaces == {field, jail}
SamePlace == {<<x, x>> : x \in TwoPlaces}
AtJail == {jail}

PlayerSymmetry == Permutations(Players)
ItemSymmetry == PlayerSymmetry \cup Permutations(Boosters)
Symmetry == PlayerSymmetry \cup Permutations(Loops)
==============================================================================
