-------------------------------- MODULE MCHub --------------------------------
(* Instances of Hub for TLC.                                               *)
EXTENDS Hub, TLC

PlayerAndCodeSymmetry == Permutations(Players) \cup Permutations(Codes)
Symmetry == PlayerAndCodeSymmetry \cup Permutations(Clients)
==============================================================================
