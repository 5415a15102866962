----------------------------- MODULE AccountBook -----------------------------
(***************************************************************************)
(* What the account use-cases promise, without sessions, locks or clocks:  *)
(* money requests take effect one at a time and whole, each idempotency    *)
(* key at most once, and neither cash nor a position ever goes below zero. *)
(***************************************************************************)
EXTENDS MoneyRequests

CONSTANTS Accounts, Requests, OpeningCash

VARIABLES
  cash,   \* [Accounts -> Int]
  units,  \* [Accounts -> Int]: the position
  done    \* the requests that took effect

vars == <<cash, units, done>>

Init ==
  /\ cash = [a \in Accounts |-> OpeningCash]
  /\ units = [a \in Accounts |-> 0]
  /\ done = {}

Apply(r) ==
  LET a == r.account IN
  /\ \A d \in done : ~SameKey(d, r)
  /\ cash[a] + CashEffect(r) >= 0
  /\ units[a] + UnitEffect(r) >= 0
  /\ cash' = [cash EXCEPT ![a] = cash[a] + CashEffect(r)]
  /\ units' = [units EXCEPT ![a] = units[a] + UnitEffect(r)]
  /\ done' = done \cup {r}

Next == \E r \in Requests : Apply(r)

Spec == Init /\ [][Next]_vars
=============================================================================
