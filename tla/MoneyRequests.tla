---------------------------- MODULE MoneyRequests ----------------------------
(***************************************************************************)
(* What a caller asks of an account and what it is worth: the arithmetic   *)
(* and the identity of the requests of accounts/trade.py, accounts/cash.py *)
(* and accounts/dividend.py.  A request is a record                        *)
(*   [kind, account, key, amount, extra, qty]                              *)
(* where "amount" is the notional, the moved cash or the gross dividend,   *)
(* "extra" the trade's fees or the dividend's withholding, and "qty" the   *)
(* units of the one instrument the model keeps.  Money is counted in its   *)
(* smallest unit, so that the code's Decimal arithmetic is exact.          *)
(***************************************************************************)
EXTENDS Integers

Kinds == {"buy", "sell", "deposit", "withdrawal", "dividend"}

\* Trades are keyed in transactions(portfolio, key), the cash movements in
\* ledger_entries(account, reference_type, reference_id, type).
Trades == {"buy", "sell"}
KeyClass(r) == IF r.kind \in Trades THEN "trade" ELSE r.kind

SameKey(r, s) == r.account = s.account /\ r.key = s.key /\ KeyClass(r) = KeyClass(s)

\* _trade_payload_matches and _cash_payload_matches: fees are not part of it.
SamePayload(r, s) == r.kind = s.kind /\ r.amount = s.amount /\ r.qty = s.qty

\* What the request does to the cash of its account, and to its position.
CashEffect(r) ==
  CASE r.kind = "buy"        -> -(r.amount + r.extra)
    [] r.kind = "sell"       -> r.amount - r.extra
    [] r.kind = "deposit"    -> r.amount
    [] r.kind = "withdrawal" -> -r.amount
    [] r.kind = "dividend"   -> r.amount - r.extra

UnitEffect(r) ==
  CASE r.kind = "buy"  -> r.qty
    [] r.kind = "sell" -> -r.qty
    [] OTHER           -> 0

\* The signed amount of the first ledger row, and whether a second one follows:
\* a trade writes its fee only if there is one, a dividend always its withholding.
MainAmount(r) ==
  CASE r.kind = "buy"        -> -r.amount
    [] r.kind = "withdrawal" -> -r.amount
    [] OTHER                 -> r.amount

\* A change: the fee of a sale is taken from the cash and not written.
HasExtraUnlessSale(r) == r.kind = "dividend" \/ (r.kind = "buy" /\ r.extra > 0)

HasExtra(r) == r.kind = "dividend" \/ (r.kind \in Trades /\ r.extra > 0)

ExtraKind(r) == IF r.kind = "dividend" THEN "dividend_withholding" ELSE "fee"
=============================================================================
