--------------------------- MODULE MCAccountLedger ---------------------------
(* Instances of AccountLedger for TLC. *)
EXTENDS AccountLedger

CONSTANTS a1, a2, c1, c2, k1, k2

Request(kind, account, key, amount, extra, qty) ==
  [kind |-> kind, account |-> account, key |-> key, amount |-> amount, extra |-> extra, qty |-> qty]

\* On one account a purchase and its retry with another price, a sale that does not
\* cover its own fee, and cash movements that reuse the same key; on another account
\* a purchase under that key.
MixedRequests == {
  Request("buy", a1, k1, 2, 1, 1), Request("buy", a1, k1, 1, 0, 1),
  Request("sell", a1, k2, 1, 3, 1),
  Request("deposit", a1, k1, 2, 0, 0), Request("withdrawal", a1, k1, 2, 0, 0),
  Request("dividend", a1, k1, 2, 1, 0),
  Request("buy", a2, k1, 2, 1, 1)}
=============================================================================
