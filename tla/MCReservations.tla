--------------------------- MODULE MCReservations ---------------------------
(* Instances of Reservations for TLC. *)
EXTENDS Reservations

CONSTANTS s1, s2, g1
=============================================================================
