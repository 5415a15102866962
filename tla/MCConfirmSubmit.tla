--------------------------- MODULE MCConfirmSubmit ---------------------------
(* Instances of ConfirmSubmit for TLC. *)
EXTENDS ConfirmSubmit, TLC

CONSTANTS c1, c2, c3

Symmetry == Permutations(Clients)
=============================================================================
