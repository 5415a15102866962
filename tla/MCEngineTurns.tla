---------------------------- MODULE MCEngineTurns ----------------------------
(* Instances of EngineTurns for TLC. *)
EXTENDS EngineTurns

CONSTANTS p1, p2
=============================================================================
