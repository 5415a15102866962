------------------------------- MODULE LegOnce -------------------------------
(***************************************************************************)
(* What the confirmation of a leg promises, without requests, sessions or  *)
(* crashes: a leg is taken before it has its effect, which is one          *)
(* transaction or one order at the venue and comes once; it can be given   *)
(* back, to be taken again, only as long as it has had none; and the name  *)
(* that the venue gave the order, once known, is not forgotten.            *)
(***************************************************************************)
EXTENDS Naturals

VARIABLES
  taken,   \* is there a durable row for the leg?
  trades,  \* transactions of the leg
  orders,  \* orders of the leg at the venue
  name     \* the venue's id of the order, 0 while it is not known

vars == <<taken, trades, orders, name>>
effects == <<trades, orders>>

Init == ~taken /\ trades = 0 /\ orders = 0 /\ name = 0

NoEffect == trades + orders = 0

Take == ~taken /\ taken' /\ UNCHANGED <<effects, name>>

GiveBack == taken /\ NoEffect /\ ~taken' /\ UNCHANGED <<effects, name>>

Trade == taken /\ NoEffect /\ trades' = 1 /\ UNCHANGED <<taken, orders, name>>

Order == taken /\ NoEffect /\ orders' = 1 /\ UNCHANGED <<taken, trades, name>>

Learn == orders = 1 /\ name = 0 /\ name' # 0 /\ UNCHANGED <<taken, effects>>

Next == Take \/ GiveBack \/ Trade \/ Order \/ Learn

Spec == Init /\ [][Next]_vars
=============================================================================
