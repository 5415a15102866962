------------------------------- MODULE FillOnce -------------------------------
(***************************************************************************)
(* What the durable application of fills promises, without workers, leases *)
(* or crashes (the invariant C3 in the docstring of                        *)
(* apply_execution_financial_once): the money of a fill moves once, and a  *)
(* fill is reported settled only when its money has moved, for good.       *)
(***************************************************************************)
EXTENDS Naturals

CONSTANT Fills

VARIABLES
  money,    \* [Fills -> Nat]: how many times the fill's money has moved
  settled   \* fills reported as APPLIED

vars == <<money, settled>>

Init == money = [f \in Fills |-> 0] /\ settled = {}

Move(f) == money[f] = 0 /\ money' = [money EXCEPT ![f] = 1]

\* The money of the fill becomes durable, its report does not (the owner lost
\* its lease between the two).
Book(f) == Move(f) /\ UNCHANGED settled

\* A later owner finds the money moved and reports it.
Settle(f) == money[f] = 1 /\ settled' = settled \cup {f} /\ UNCHANGED money

\* The ordinary case: both in one commit.
BookAndSettle(f) == Move(f) /\ settled' = settled \cup {f}

Next == \E f \in Fills : Book(f) \/ Settle(f) \/ BookAndSettle(f)

Spec == Init /\ [][Next]_vars
=============================================================================
