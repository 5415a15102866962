--------------------------- MODULE MCLiveRecovery ---------------------------
(* Instances of LiveRecovery for TLC. *)
EXTENDS LiveRecovery

CONSTANTS o1, o2, w1, w2
=============================================================================
