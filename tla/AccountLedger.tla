---------------------------- MODULE AccountLedger ----------------------------
(***************************************************************************)
(* The writers of an account's money (ExecuteTrade, DepositCashToAccount,  *)
(* WithdrawCashFromAccount, CreditDividend) as concurrent PostgreSQL       *)
(* sessions: the account row is locked FOR UPDATE before anything is read, *)
(* the idempotency key looked up, the cash and position rows rewritten and *)
(* the ledger appended at instants taken from the ledger's own sequencer,  *)
(* and everything published by one commit or forgotten by a rollback.      *)
(*                                                                         *)
(* An account has one operative portfolio (AccountRepository._load_scope), *)
(* so cash, position and ledger are kept per account.                      *)
(***************************************************************************)
EXTENDS MoneyRequests, Sequences

CONSTANTS
  Accounts,
  Requests,     \* the requests callers may make, and repeat
  Clients,      \* concurrent sessions
  Nobody,       \* the account row is not locked
  OpeningCash,  \* cash of a new account, its first ledger row
  Clock,        \* what a session may read from its wall clock, skewed at will
  MaxCalls      \* bound: calls made

ASSUME RequestAssumption ==
  \A r \in Requests : /\ r.kind \in Kinds /\ r.account \in Accounts
                      /\ r.amount \in Nat /\ r.extra \in Nat /\ r.qty \in Nat
ASSUME LedgerAssumption ==
  Nobody \notin Clients /\ OpeningCash \in Nat /\ Clock \subseteq Nat /\ MaxCalls \in Nat

VARIABLES
  cash,    \* [Accounts -> Int]: portfolios.cash
  units,   \* [Accounts -> Int]: positions.quantity, no row meaning 0
  ledger,  \* [Accounts -> Seq(entry)]: ledger_entries in commit order
  lock,    \* [Accounts -> the session holding the account row, or Nobody]
  client,  \* [Clients -> local state of one call]
  calls    \* calls made so far

vars == <<cash, units, ledger, lock, client, calls>>
books == <<cash, units, ledger>>

Opening == [kind |-> "opening", amount |-> OpeningCash, balance |-> OpeningCash, at |-> 0]

\* A session between two calls, and one that serves r.
Idle(outcome) == [pc |-> "idle", outcome |-> outcome]
Serving(r) == [pc |-> "waiting", req |-> r]

Init ==
  /\ cash = [a \in Accounts |-> OpeningCash]
  /\ units = [a \in Accounts |-> 0]
  /\ ledger = [a \in Accounts |-> <<Opening>>]
  /\ lock = [a \in Accounts |-> Nobody]
  /\ client = [c \in Clients |-> Idle("none")]
  /\ calls = 0

-----------------------------------------------------------------------------
\* The ledger rows a request has left.
RowsOf(s, r) == {i \in 2..Len(s) : SameKey(s[i].req, r)}

\* A change: the key is not looked up.
NeverRecorded(r) == FALSE

\* find_transaction_by_idempotency and find_cash_movement_by_reference.
Recorded(r) == RowsOf(ledger[r.account], r) # {}

\* MAX(executed_at) over the account's ledger.
LastAt(s) == CHOOSE t \in {s[i].at : i \in DOMAIN s} : \A i \in DOMAIN s : s[i].at <= t

\* A change: the instant is read from the wall clock.
WallClock(s, now) == now

NextExecutedAt(s, now) == IF LastAt(s) + 1 > now THEN LastAt(s) + 1 ELSE now

\* The rows that append_trade, append_fee and append_cash_movement add to the
\* ledger s for r, which leaves the given balance: the main row shows the
\* balance before the fee or the withholding is taken.
NewRows(s, r, balance, now1, now2) ==
  LET main == [kind |-> r.kind, amount |-> MainAmount(r), at |-> NextExecutedAt(s, now1),
               req |-> r, balance |-> IF HasExtra(r) THEN balance + r.extra ELSE balance]
      extra == [kind |-> ExtraKind(r), amount |-> -r.extra, req |-> r, balance |-> balance,
                at |-> NextExecutedAt(Append(s, main), now2)]
  IN  IF HasExtra(r) THEN <<main, extra>> ELSE <<main>>

\* A change: the checks of migration 049 are missing.
NoTableCheck(x, n) == TRUE

\* CHECK constraints ck_portfolios_cash_nonneg and ck_positions_quantity_nonneg.
TableCheck(x, n) == x >= 0 /\ n >= 0

\* The checks of the use-cases, which reject for good: enough cash to buy or
\* withdraw, enough units to sell.
Covered(r) ==
  /\ r.kind \in {"buy", "withdrawal"} => cash[r.account] + CashEffect(r) >= 0
  /\ r.kind = "sell" => units[r.account] >= r.qty

\* A change: lock_account returns while another session holds the row.
NoLock(a) == TRUE

LockFree(a) == lock[a] = Nobody

\* A change: a rejected call leaves its transaction open.
StillHeld(a, outcome) == IF outcome = "rejected" THEN lock ELSE [lock EXCEPT ![a] = Nobody]

\* Commit or rollback ends the transaction and with it the row lock.
Released(a, outcome) == [lock EXCEPT ![a] = Nobody]

-----------------------------------------------------------------------------
\* A request arrives: the scope is resolved and lock_account asked for.
Begin(c, r) ==
  /\ client[c].pc = "idle"
  /\ calls < MaxCalls
  /\ calls' = calls + 1
  /\ client' = [client EXCEPT ![c] = Serving(r)]
  /\ UNCHANGED <<books, lock>>

\* lock_account: SELECT ... FOR UPDATE of the account row.
LockAccount(c) ==
  /\ client[c].pc = "waiting"
  /\ LockFree(client[c].req.account)
  /\ lock' = [lock EXCEPT ![client[c].req.account] = c]
  /\ client' = [client EXCEPT ![c].pc = "locked"]
  /\ UNCHANGED <<books, calls>>

\* The call ends without effect: its transaction is committed empty (a replay)
\* or rolled back.
EndCall(c, outcome) ==
  /\ lock' = Released(client[c].req.account, outcome)
  /\ client' = [client EXCEPT ![c] = Idle(outcome)]
  /\ UNCHANGED <<books, calls>>

\* The key is known: the original is returned, or the payload differs and
\* IdempotencyKeyReused is raised.
Replay(c) ==
  LET r == client[c].req IN
  /\ client[c].pc = "locked"
  /\ Recorded(r)
  /\ EndCall(c, IF \E i \in RowsOf(ledger[r.account], r) : SamePayload(ledger[r.account][i].req, r)
                THEN "replayed" ELSE "reused")

\* PermanentRejectionError or ValueError: no funds, or nothing to sell.
Reject(c) ==
  LET r == client[c].req IN
  /\ client[c].pc = "locked"
  /\ ~Recorded(r)
  /\ ~Covered(r)
  /\ EndCall(c, "rejected")

\* The writes: the rows are computed from what the session reads under the lock
\* and flushed, to be published by the commit.
Write(c) ==
  LET r == client[c].req
      a == r.account
      x == cash[a] + CashEffect(r)
      n == units[a] + UnitEffect(r)
  IN
  /\ client[c].pc = "locked"
  /\ ~Recorded(r)
  /\ Covered(r)
  /\ IF TableCheck(x, n)
     THEN \E now1, now2 \in Clock :
            /\ client' = [client EXCEPT ![c] =
                 [pc |-> "written", req |-> r, cash |-> x, units |-> n,
                  rows |-> NewRows(ledger[a], r, x, now1, now2)]]
            /\ UNCHANGED <<books, lock, calls>>
     ELSE EndCall(c, "failed")

\* The commit publishes the rewritten rows and the new entries.
Commit(c) ==
  LET a == client[c].req.account IN
  /\ client[c].pc = "written"
  /\ cash' = [cash EXCEPT ![a] = client[c].cash]
  /\ units' = [units EXCEPT ![a] = client[c].units]
  /\ ledger' = [ledger EXCEPT ![a] = ledger[a] \o client[c].rows]
  /\ lock' = Released(a, "booked")
  /\ client' = [client EXCEPT ![c] = Idle("booked")]
  /\ UNCHANGED calls

\* The session dies, or its transaction is aborted, at any point.
Abort(c) ==
  /\ client[c].pc # "idle"
  /\ lock' = [a \in Accounts |-> IF lock[a] = c THEN Nobody ELSE lock[a]]
  /\ client' = [client EXCEPT ![c] = Idle("aborted")]
  /\ UNCHANGED <<books, calls>>

Step(c) == LockAccount(c) \/ Replay(c) \/ Reject(c) \/ Write(c) \/ Commit(c)

Next ==
  \/ \E c \in Clients, r \in Requests : Begin(c, r)
  \/ \E c \in Clients : Step(c) \/ Abort(c)

Spec == Init /\ [][Next]_vars

\* A started call runs on; PostgreSQL grants a row lock to its waiters in turn.
FairSpec == Spec /\ \A c \in Clients : WF_vars(Replay(c) \/ Reject(c) \/ Write(c) \/ Commit(c))
                                     /\ SF_vars(LockAccount(c))

-----------------------------------------------------------------------------
(***************************************************************************)
(* Properties                                                              *)
(***************************************************************************)
Entries ==
  [kind : Kinds \cup {"fee", "dividend_withholding"}, amount : Int, balance : Int, at : Nat,
   req : Requests]

ClientStates ==
  [pc : {"idle"}, outcome : {"none", "replayed", "reused", "rejected", "failed", "booked", "aborted"}]
  \cup [pc : {"waiting", "locked"}, req : Requests]
  \cup [pc : {"written"}, req : Requests, cash : Int, units : Int, rows : Seq(Entries)]

TypeOK ==
  /\ cash \in [Accounts -> Int]
  /\ units \in [Accounts -> Int]
  /\ ledger \in [Accounts -> Seq({Opening} \cup Entries)]
  /\ lock \in [Accounts -> Clients \cup {Nobody}]
  /\ client \in [Clients -> ClientStates]
  /\ calls \in Nat

\* Neither cash nor a position is ever negative, the fee of a sale included.
NoOverdraft == \A a \in Accounts : cash[a] >= 0 /\ units[a] >= 0

\* j is the row that follows i when the ledger s is read by executed_at.
Follows(s, i, j) ==
  /\ s[i].at < s[j].at
  /\ \A k \in DOMAIN s : ~(s[i].at < s[k].at /\ s[k].at < s[j].at)

\* Read by executed_at, as its consumers read it, the ledger of an account is an
\* unbroken chain: no two rows share an instant, every balance is the previous
\* one plus the row's amount, and the last one is the cash of the account
\* (invariant B of the load tests, under any skew of the wall clocks).
LedgerChain ==
  \A a \in Accounts : LET s == ledger[a] IN
    /\ \A i, j \in DOMAIN s : i # j => s[i].at # s[j].at
    /\ \A i, j \in DOMAIN s : Follows(s, i, j) => s[j].balance = s[i].balance + s[j].amount
    /\ \A i \in DOMAIN s : (\A k \in DOMAIN s : s[k].at <= s[i].at) => s[i].balance = cash[a]

\* sum_cash_amounts: the amounts of the ledger s, added up.
SumOfAmounts(s) ==
  LET total[i \in 0..Len(s)] == IF i = 0 THEN 0 ELSE total[i - 1] + s[i].amount
  IN  total[Len(s)]

\* The amounts of an account's ledger add up to its cash (invariant M-2 of
\* sum_cash_amounts): no request changes the cash by more or less than it enters.
CashIsLedgerSum == \A a \in Accounts : cash[a] = SumOfAmounts(ledger[a])

\* A key takes effect at most once in its account and class, for one request,
\* however often it is retried, by whom and after which crashes.
OncePerKey ==
  \A a \in Accounts : LET s == ledger[a] IN
    \A i, j \in 2..Len(s) :
      SameKey(s[i].req, s[j].req) => s[i].req = s[j].req /\ (s[i].kind = s[j].kind => i = j)

\* The sessions together behave as if requests took effect one by one and whole.
Done == UNION {{ledger[a][i].req : i \in 2..Len(ledger[a])} : a \in Accounts}
Book == INSTANCE AccountBook WITH done <- Done
IsSerial == Book!Spec

\* Every call that was started ends: nobody waits for an account for ever.
CallsEnd == \A c \in Clients : client[c].pc # "idle" ~> client[c].pc = "idle"

\* Why: a session past lock_account holds the account row, its key is free once
\* it has looked it up, and what it is about to publish is what the books at
\* this very moment make of its request.
LockInv ==
  \A c \in Clients :
    LET r == client[c].req
        a == r.account
    IN  /\ client[c].pc \in {"locked", "written"} => lock[a] = c
        /\ client[c].pc = "written" =>
             /\ ~Recorded(r)
             /\ client[c].cash = cash[a] + CashEffect(r) /\ client[c].cash >= 0
             /\ client[c].units = units[a] + UnitEffect(r) /\ client[c].units >= 0
             /\ \E now1, now2 \in Clock :
                  client[c].rows = NewRows(ledger[a], r, client[c].cash, now1, now2)

\* The ledger s of account a in the order of its commits is the ledger by
\* executed_at, and leads from the opening to the cash k.
Ordered(s, a, k) ==
  /\ Len(s) >= 1 /\ s[1] = Opening
  /\ \A i \in 2..Len(s) : s[i] \in Entries /\ s[i].req.account = a
  /\ \A i, j \in 1..Len(s) : i < j => s[i].at < s[j].at
  /\ \A i \in 2..Len(s) : s[i].balance = s[i-1].balance + s[i].amount
  /\ s[Len(s)].balance = k

OrderInv == \A a \in Accounts : Ordered(ledger[a], a, cash[a])

IInv == TypeOK /\ NoOverdraft /\ OncePerKey /\ LockInv /\ OrderInv
=============================================================================
