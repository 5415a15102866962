--------------------------- MODULE OrderedDelivery ---------------------------
(***************************************************************************)
(* What a queue with lanes promises: an item is delivered once, and after  *)
(* every item that was put before it in its lane.  Items of different      *)
(* lanes do not wait for each other, and several may be delivered at once. *)
(***************************************************************************)
EXTENDS Naturals

CONSTANTS
  Items,
  Lanes,
  LaneOf   \* [Items -> Lanes]

VARIABLES
  created,    \* the place of an item in the queue, 0 before it is put
  delivered   \* the items delivered so far

queue == <<created, delivered>>

Before(f, e) == LaneOf[f] = LaneOf[e] /\ 0 < created[f] /\ created[f] < created[e]

Init ==
  /\ created = [e \in Items |-> 0]
  /\ delivered = {}

Put(e) ==
  /\ created[e] = 0
  /\ created' = [created EXCEPT ![e] = created'[e]]
  /\ \A f \in Items : created[f] < created'[e]
  /\ UNCHANGED delivered

Deliver(S) ==
  /\ S \cap delivered = {}
  /\ \A e \in S : 0 < created[e] /\ \A f \in Items : Before(f, e) => f \in delivered
  /\ delivered' = delivered \cup S
  /\ UNCHANGED created

Next == (\E e \in Items : Put(e)) \/ (\E S \in SUBSET Items : Deliver(S))

Spec == Init /\ [][Next]_queue
=============================================================================
