----------------------------- MODULE FencedJournal -----------------------------
(***************************************************************************)
(* What a journal kept by drivers that take turns in office promises.      *)
(* Anybody may add an entry of their own at the end, and no entry is ever  *)
(* removed or rewritten; but an entry is settled at most once, by the      *)
(* driver who entered it, while that driver is in office, and under the    *)
(* term of that office.  A driver may be replaced at any time and not know *)
(* of it.                                                                  *)
(***************************************************************************)
EXTENDS Naturals, Sequences

CONSTANTS Drivers, Nobody

VARIABLES
  owner,    \* the driver in office
  term,     \* the number of the term, one more with each driver
  journal,  \* entries: who made it, and whether it is "claimed", "settled" or "failed"
  last      \* the term under which an entry was last settled

vars == <<owner, term, journal, last>>
office == <<owner, term>>

Init ==
  /\ owner = Nobody /\ term = 0
  /\ journal = <<>> /\ last = 0

TakeOffice(d) ==
  /\ owner' = d
  /\ term' = term + 1
  /\ UNCHANGED <<journal, last>>

LeaveOffice ==
  /\ owner' = Nobody
  /\ UNCHANGED <<term, journal, last>>

Enter(d, state) ==
  /\ journal' = Append(journal, [by |-> d, state |-> state])
  /\ UNCHANGED <<office, last>>

Settle(i) ==
  /\ journal[i] = [by |-> owner, state |-> "claimed"]
  /\ journal' = [journal EXCEPT ![i].state = "settled"]
  /\ last' = term
  /\ UNCHANGED office

Next ==
  \/ LeaveOffice
  \/ \E d \in Drivers : TakeOffice(d) \/ \E state \in {"claimed", "failed"} : Enter(d, state)
  \/ \E i \in 1..Len(journal) : Settle(i)

Spec == Init /\ [][Next]_vars
=============================================================================
