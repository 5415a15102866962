--------------------------- MODULE OrderResolution ---------------------------
(***************************************************************************)
(* What the recovery of live orders promises, without workers, claims or   *)
(* crashes: an order whose outcome is unknown is resolved once, into a     *)
(* state that the venue has really reached and with no quantity that the   *)
(* venue has not filled, and never again; and the money that moves for it  *)
(* is the whole of the quantity it was resolved with, and moves once.      *)
(***************************************************************************)
EXTENDS Naturals

CONSTANTS
  Orders,
  Quantity   \* the quantity of every order

VARIABLES
  fate,      \* what has become of the order at the venue
  traded,    \* the quantity that the venue has filled
  status,    \* what the books say of the order
  recorded,  \* the quantity that the books say was filled
  paid       \* the quantity whose money has moved

vars == <<fate, traded, status, recorded, paid>>
market == <<fate, traded>>
books == <<status, recorded>>

Init ==
  /\ fate = [o \in Orders |-> "working"]
  /\ traded = [o \in Orders |-> 0]
  /\ status = [o \in Orders |-> "ABSENT"]
  /\ recorded = [o \in Orders |-> 0]
  /\ paid = [o \in Orders |-> 0]

Trade(o, n) ==
  /\ fate[o] = "working" /\ traded[o] + n <= Quantity
  /\ traded' = [traded EXCEPT ![o] = traded[o] + n]
  /\ fate' = [fate EXCEPT ![o] = IF traded[o] + n = Quantity THEN "filled" ELSE "working"]
  /\ UNCHANGED <<books, paid>>

End(o, end) ==
  /\ fate[o] = "working"
  /\ end = "rejected" => traded[o] = 0
  /\ fate' = [fate EXCEPT ![o] = end]
  /\ UNCHANGED <<traded, books, paid>>

Send(o) ==
  /\ status[o] = "ABSENT"
  /\ status' = [status EXCEPT ![o] = "UNKNOWN"]
  /\ UNCHANGED <<market, recorded, paid>>

\* The books may lag behind the venue, but say nothing that it never did.
True(o, said, n) ==
  /\ n <= traded[o]
  /\ said = "PARTIAL" => 0 < n /\ n < Quantity
  /\ said = "FILLED" => fate[o] = "filled" /\ n = Quantity
  /\ said = "CANCELLED" => fate[o] = "cancelled"
  /\ said = "REJECTED" => fate[o] = "rejected" /\ n = 0

Resolve(o, said, n) ==
  /\ status[o] = "UNKNOWN"
  /\ True(o, said, n)
  /\ status' = [status EXCEPT ![o] = said]
  /\ recorded' = [recorded EXCEPT ![o] = n]
  /\ UNCHANGED <<market, paid>>

Pay(o) ==
  /\ status[o] \in {"PARTIAL", "FILLED"}
  /\ paid[o] = 0
  /\ paid' = [paid EXCEPT ![o] = recorded[o]]
  /\ UNCHANGED <<market, books>>

Next == \E o \in Orders :
  \/ \E n \in 1..Quantity : Trade(o, n)
  \/ \E end \in {"cancelled", "rejected"} : End(o, end)
  \/ Send(o)
  \/ \E said \in {"WORKING", "PARTIAL", "FILLED", "CANCELLED", "REJECTED"}, n \in 0..Quantity :
       Resolve(o, said, n)
  \/ Pay(o)

Spec == Init /\ [][Next]_vars
=============================================================================
