------------------------------- MODULE MCTally -------------------------------
(* Instances of Tally for TLC.                                             *)
EXTENDS Tally, MCRoom
==============================================================================
