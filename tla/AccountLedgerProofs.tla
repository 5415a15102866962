------------------------- MODULE AccountLedgerProofs -------------------------
(***************************************************************************)
(* Machine-checked proofs about AccountLedger, for every set of accounts,  *)
(* sessions and requests and every clock.                                  *)
(***************************************************************************)
EXTENDS AccountLedger, SequenceTheorems, WellFoundedInduction, TLAPS

Rows == {Opening} \cup Entries

\* The types of the operators on requests.
LEMMA RequestTypes ==
  ASSUME NEW r \in Requests
  PROVE  /\ CashEffect(r) \in Int /\ UnitEffect(r) \in Int /\ MainAmount(r) \in Int
         /\ r.extra \in Nat /\ r.kind \in Kinds /\ r.account \in Accounts
         /\ HasExtra(r) => CashEffect(r) = MainAmount(r) - r.extra
         /\ ~HasExtra(r) => CashEffect(r) = MainAmount(r)
         /\ ExtraKind(r) \in {"fee", "dividend_withholding"}
  <1>1. /\ r.kind \in Kinds /\ r.account \in Accounts
        /\ r.amount \in Nat /\ r.extra \in Nat /\ r.qty \in Nat
    BY RequestAssumption
  <1>2. CASE r.kind = "buy"
    BY <1>1, <1>2 DEF CashEffect, UnitEffect, MainAmount, HasExtra, Trades, ExtraKind
  <1>3. CASE r.kind = "sell"
    BY <1>1, <1>3 DEF CashEffect, UnitEffect, MainAmount, HasExtra, Trades, ExtraKind
  <1>4. CASE r.kind = "deposit"
    BY <1>1, <1>4 DEF CashEffect, UnitEffect, MainAmount, HasExtra, Trades, ExtraKind
  <1>5. CASE r.kind = "withdrawal"
    BY <1>1, <1>5 DEF CashEffect, UnitEffect, MainAmount, HasExtra, Trades, ExtraKind
  <1>6. CASE r.kind = "dividend"
    BY <1>1, <1>6 DEF CashEffect, UnitEffect, MainAmount, HasExtra, Trades, ExtraKind
  <1> QED BY <1>1, <1>2, <1>3, <1>4, <1>5, <1>6 DEF Kinds

-----------------------------------------------------------------------------
(***************************************************************************)
(* The ledger of one account                                               *)
(***************************************************************************)
\* The sequencer issues an instant later than every row of the ledger.
LEMMA Sequencer ==
  ASSUME NEW a \in Accounts, NEW k \in Int, NEW s \in Seq(Rows), Ordered(s, a, k), NEW now \in Nat
  PROVE  /\ NextExecutedAt(s, now) \in Nat
         /\ \A i \in 1..Len(s) : s[i].at < NextExecutedAt(s, now)
  <1> DEFINE T == {s[i].at : i \in DOMAIN s}
  <1>0. DOMAIN s = 1..Len(s) /\ Len(s) \in Nat \ {0} BY DEF Ordered
  <1>1. \A i \in 1..Len(s) : s[i].at \in Nat
    BY <1>0 DEF Ordered, Opening, Entries
  <1>2. \A i \in 1..Len(s) : s[i].at <= s[Len(s)].at
    BY <1>0, <1>1 DEF Ordered
  <1>3. LastAt(s) \in T /\ \A i \in DOMAIN s : s[i].at <= LastAt(s)
    <2>1. s[Len(s)].at \in T /\ \A i \in DOMAIN s : s[i].at <= s[Len(s)].at
      BY <1>0, <1>2
    <2> QED BY <2>1 DEF LastAt
  <1>4. LastAt(s) \in Nat BY <1>0, <1>1, <1>3
  <1> QED BY <1>0, <1>1, <1>3, <1>4 DEF NextExecutedAt

\* A row that continues the chain at a later instant keeps the ledger in order.
LEMMA AppendRow ==
  ASSUME NEW a \in Accounts, NEW k \in Int, NEW s \in Seq(Rows), Ordered(s, a, k),
         NEW e \in Entries, e.req.account = a, e.balance = k + e.amount,
         \A i \in 1..Len(s) : s[i].at < e.at
  PROVE  Append(s, e) \in Seq(Rows) /\ Ordered(Append(s, e), a, e.balance)
  <1> DEFINE t == Append(s, e)
  <1>1. /\ t \in Seq(Rows) /\ Len(t) = Len(s) + 1 /\ Len(s) \in Nat
        /\ \A i \in 1..Len(s) : t[i] = s[i]
        /\ t[Len(s) + 1] = e
    BY DEF Rows
  <1> HIDE DEF t
  <1>2. Len(t) >= 1 /\ t[1] = Opening
    BY <1>1 DEF Ordered
  <1>3. \A i \in 2..Len(t) : t[i] \in Entries /\ t[i].req.account = a
    BY <1>1 DEF Ordered
  <1>4. \A i, j \in 1..Len(t) : i < j => t[i].at < t[j].at
    <2> SUFFICES ASSUME NEW i \in 1..Len(t), NEW j \in 1..Len(t), i < j
                 PROVE  t[i].at < t[j].at
      OBVIOUS
    <2>1. i \in 1..Len(s) /\ t[i] = s[i] BY <1>1
    <2>2. CASE j \in 1..Len(s) BY <1>1, <2>1, <2>2 DEF Ordered
    <2>3. CASE j = Len(s) + 1 BY <1>1, <2>1, <2>3
    <2> QED BY <1>1, <2>2, <2>3
  <1>5. \A i \in 2..Len(t) : t[i].balance = t[i-1].balance + t[i].amount
    <2> SUFFICES ASSUME NEW i \in 2..Len(t)
                 PROVE  t[i].balance = t[i-1].balance + t[i].amount
      OBVIOUS
    <2>1. i - 1 \in 1..Len(s) /\ t[i-1] = s[i-1] BY <1>1
    <2>2. CASE i \in 2..Len(s) BY <1>1, <2>1, <2>2 DEF Ordered
    <2>3. CASE i = Len(s) + 1 BY <1>1, <2>1, <2>3 DEF Ordered
    <2> QED BY <1>1, <2>2, <2>3
  <1>6. t[Len(t)].balance = e.balance BY <1>1
  <1> QED BY <1>1, <1>2, <1>3, <1>4, <1>5, <1>6 DEF Ordered, t

\* What a request adds: one row or two of its own, of different types, after
\* which the ledger is in order and ends in the cash the request leaves.
LEMMA RowsExtend ==
  ASSUME NEW a \in Accounts, NEW k \in Int, NEW s \in Seq(Rows), Ordered(s, a, k),
         NEW r \in Requests, r.account = a, NEW now1 \in Nat, NEW now2 \in Nat,
         NEW x \in Int, x = k + CashEffect(r),
         NEW t, t = NewRows(s, r, x, now1, now2)
  PROVE  /\ t \in Seq(Entries) /\ (Len(t) = 1 \/ Len(t) = 2)
         /\ \A i \in 1..Len(t) : t[i].req = r
         /\ \A i, j \in 1..Len(t) : t[i].kind = t[j].kind => i = j
         /\ s \o t \in Seq(Rows) /\ Ordered(s \o t, a, x)
  <1> DEFINE main == [kind |-> r.kind, amount |-> MainAmount(r), at |-> NextExecutedAt(s, now1),
                      req |-> r, balance |-> IF HasExtra(r) THEN x + r.extra ELSE x]
             extra == [kind |-> ExtraKind(r), amount |-> -r.extra, req |-> r, balance |-> x,
                       at |-> NextExecutedAt(Append(s, main), now2)]
  <1>0. /\ CashEffect(r) \in Int /\ MainAmount(r) \in Int /\ r.extra \in Nat /\ r.kind \in Kinds
        /\ HasExtra(r) => CashEffect(r) = MainAmount(r) - r.extra
        /\ ~HasExtra(r) => CashEffect(r) = MainAmount(r)
        /\ ExtraKind(r) \in {"fee", "dividend_withholding"}
    BY RequestTypes
  <1>1. /\ NextExecutedAt(s, now1) \in Nat
        /\ \A i \in 1..Len(s) : s[i].at < NextExecutedAt(s, now1)
    BY Sequencer
  <1>2. /\ main \in Entries /\ main.req = r /\ main.kind = r.kind
        /\ main.balance = k + main.amount
        /\ main.balance = (IF HasExtra(r) THEN x + r.extra ELSE x)
        /\ main.at = NextExecutedAt(s, now1)
    <2>1. /\ main.req = r /\ main.kind = r.kind /\ main.at = NextExecutedAt(s, now1)
          /\ main.balance = (IF HasExtra(r) THEN x + r.extra ELSE x)
          /\ main.amount = MainAmount(r)
      OBVIOUS
    <2>2. (IF HasExtra(r) THEN x + r.extra ELSE x) = k + MainAmount(r)
      <3> HIDE DEF main, extra
      <3>1. CASE HasExtra(r) BY <1>0, <3>1
      <3>2. CASE ~HasExtra(r) BY <1>0, <3>2
      <3> QED BY <3>1, <3>2
    <2>3. (IF HasExtra(r) THEN x + r.extra ELSE x) \in Int BY <1>0
    <2>4. main \in Entries BY <1>0, <1>1, <2>3 DEF Entries
    <2> QED BY <2>1, <2>2, <2>4
  <1>3. t = IF HasExtra(r) THEN <<main, extra>> ELSE <<main>>
    BY DEF NewRows
  <1>4. extra.req = r /\ extra.kind = ExtraKind(r) /\ extra.balance = x
        /\ extra.amount = -r.extra /\ extra.at = NextExecutedAt(Append(s, main), now2)
    OBVIOUS
  <1>5. extra.at \in Nat => extra \in Entries
    BY <1>0 DEF Entries
  <1> HIDE DEF main, extra
  <1>6. Append(s, main) \in Seq(Rows) /\ Ordered(Append(s, main), a, main.balance)
    BY <1>1, <1>2, AppendRow
  <1>7. s \o <<main>> = Append(s, main)
    BY <1>2 DEF Rows
  <1>8. CASE ~HasExtra(r)
    <2>1. t = <<main>> BY <1>3, <1>8
    <2>2. t \in Seq(Entries) /\ Len(t) = 1 /\ t[1] = main
      BY ONLY <1>2, <2>1
    <2>3. main.balance = x BY <1>2, <1>8
    <2>4. s \o t \in Seq(Rows) /\ Ordered(s \o t, a, x)
      BY ONLY <1>6, <1>7, <2>1, <2>3
    <2> QED BY ONLY <1>2, <2>2, <2>4
  <1>9. CASE HasExtra(r)
    <2>1. main.balance \in Int BY <1>0, <1>2, <1>9
    <2>2. /\ extra.at \in Nat
          /\ \A i \in 1..Len(Append(s, main)) : Append(s, main)[i].at < extra.at
      BY <1>4, <1>6, <2>1, Sequencer
    <2>3. extra \in Entries /\ extra.balance = main.balance + extra.amount
      BY <1>0, <1>2, <1>4, <1>5, <1>9, <2>2
    <2>4. /\ Append(Append(s, main), extra) \in Seq(Rows)
          /\ Ordered(Append(Append(s, main), extra), a, extra.balance)
      BY <1>2, <1>4, <1>6, <2>1, <2>2, <2>3, AppendRow
    <2>5. s \o <<main, extra>> = Append(Append(s, main), extra)
      BY <1>2, <2>3 DEF Rows
    <2>6. r.kind # ExtraKind(r) BY <1>0 DEF Kinds
    <2>7. t = <<main, extra>> BY <1>3, <1>9
    <2>8. /\ t \in Seq(Entries) /\ Len(t) = 2 /\ t[1] = main /\ t[2] = extra
      BY ONLY <1>2, <2>3, <2>7
    <2>9. s \o t \in Seq(Rows) /\ Ordered(s \o t, a, x)
      BY ONLY <1>4, <2>4, <2>5, <2>7
    <2> QED BY ONLY <1>2, <1>4, <2>6, <2>8, <2>9
  <1> QED BY <1>8, <1>9

\* A ledger in the order of its commits is an unbroken chain by executed_at.
LEMMA OrderedIsChain ==
  ASSUME NEW a \in Accounts, NEW k \in Int, NEW s \in Seq(Rows), Ordered(s, a, k)
  PROVE  /\ \A i, j \in DOMAIN s : i # j => s[i].at # s[j].at
         /\ \A i, j \in DOMAIN s : Follows(s, i, j) => s[j].balance = s[i].balance + s[j].amount
         /\ \A i \in DOMAIN s : (\A m \in DOMAIN s : s[m].at <= s[i].at) => s[i].balance = k
  <1>0. DOMAIN s = 1..Len(s) /\ Len(s) \in Nat \ {0} BY DEF Ordered
  <1>1. \A i \in 1..Len(s) : s[i].at \in Nat
    BY <1>0 DEF Ordered, Opening, Entries
  <1>2. \A i, j \in 1..Len(s) : i < j => s[i].at < s[j].at BY DEF Ordered
  <1>3. \A i, j \in 1..Len(s) : i # j => s[i].at # s[j].at
    BY <1>0, <1>1, <1>2
  <1>4. ASSUME NEW i \in 1..Len(s), NEW j \in 1..Len(s), Follows(s, i, j)
        PROVE  s[j].balance = s[i].balance + s[j].amount
    <2>1. i < j BY <1>0, <1>1, <1>2, <1>4 DEF Follows
    <2>2. i + 1 \in 1..Len(s) BY <1>0, <2>1
    <2>3. ~(i + 1 < j)
      <3> SUFFICES ASSUME i + 1 < j PROVE FALSE OBVIOUS
      <3>1. s[i].at < s[i+1].at /\ s[i+1].at < s[j].at BY <1>0, <1>2, <2>2
      <3> QED BY <1>0, <1>4, <2>2, <3>1 DEF Follows
    <2>4. j = i + 1 BY <1>0, <2>1, <2>3
    <2> QED BY <1>0, <2>1, <2>4 DEF Ordered
  <1>5. ASSUME NEW i \in 1..Len(s), \A m \in 1..Len(s) : s[m].at <= s[i].at
        PROVE  s[i].balance = k
    <2>1. ~(i < Len(s))
      <3> SUFFICES ASSUME i < Len(s) PROVE FALSE OBVIOUS
      <3>1. Len(s) \in 1..Len(s) /\ s[i].at < s[Len(s)].at BY <1>0, <1>2
      <3>2. s[Len(s)].at <= s[i].at BY <1>5, <3>1
      <3> QED BY <1>1, <3>1, <3>2
    <2>2. i = Len(s)
      <3>1. i \in Int /\ Len(s) \in Int /\ i <= Len(s) BY <1>0
      <3> QED BY ONLY <2>1, <3>1
    <2> QED BY <2>2 DEF Ordered
  <1> QED BY <1>0, <1>3, <1>4, <1>5

\* Every set of natural numbers that is not empty has a least one.
LEMMA LeastNumber ==
  ASSUME NEW T \in SUBSET Nat, T # {}
  PROVE  \E n \in T : \A m \in T : n <= m
  <1> DEFINE R == OpToRel(<, Nat)
  <1>1. IsWellFoundedOn(R, Nat) BY NatLessThanWellFounded
  <1>2. PICK n \in T : \A m \in T : <<m, n>> \notin R
    <2> HIDE DEF R
    <2> QED BY <1>1, WFMin
  <1>3. \A m \in T : ~(m < n) BY <1>2 DEF OpToRel
  <1> HIDE DEF R
  <1> QED BY <1>2, <1>3

\* A ledger that leads to the cash k adds up to k: the balances are the partial
\* sums of the amounts, and the only ones.
LEMMA OrderedAddsUp ==
  ASSUME NEW a \in Accounts, NEW k \in Int, NEW s \in Seq(Rows), Ordered(s, a, k)
  PROVE  SumOfAmounts(s) = k
  <1> DEFINE IsTotal(f) == f = [i \in 0..Len(s) |-> IF i = 0 THEN 0 ELSE f[i - 1] + s[i].amount]
             balance == [i \in 0..Len(s) |-> IF i = 0 THEN 0 ELSE s[i].balance]
  <1>0. Len(s) \in Nat \ {0} /\ s[1] = Opening BY DEF Ordered
  <1>1. s[1].balance = s[1].amount /\ s[1].amount \in Int
    BY <1>0, LedgerAssumption DEF Opening
  <1>2. IsTotal(balance)
    <2>1. ASSUME NEW i \in 1..Len(s)
          PROVE  balance[i] = balance[i - 1] + s[i].amount
      <3>1. CASE i = 1 BY <1>0, <1>1, <3>1
      <3>2. CASE i # 1
        <4>1. i \in 2..Len(s) /\ i - 1 \in 0..Len(s) /\ i - 1 # 0 BY <1>0, <3>2
        <4>2. s[i].balance = s[i - 1].balance + s[i].amount BY <4>1 DEF Ordered
        <4> QED BY <4>1, <4>2
      <3> QED BY <3>1, <3>2
    <2>2. balance[0] = 0 BY <1>0
    <2> QED BY <1>0, <2>1, <2>2
  <1> HIDE DEF balance
  <1>3. ASSUME NEW f, IsTotal(f) PROVE f = balance
    <2> DEFINE T == {i \in 0..Len(s) : f[i] # balance[i]}
    <2>1. /\ DOMAIN f = 0..Len(s) /\ DOMAIN balance = 0..Len(s)
          /\ f = [i \in DOMAIN f |-> f[i]]
          /\ balance = [i \in DOMAIN balance |-> balance[i]]
      BY <1>2, <1>3
    <2>2. ASSUME T # {} PROVE FALSE
      <3>1. PICK n \in T : \A m \in T : n <= m
        <4>1. T \in SUBSET Nat BY <1>0
        <4> HIDE DEF T
        <4> QED BY <2>2, <4>1, LeastNumber
      <3>2. n # 0 BY <1>0, <1>2, <1>3
      <3>3. n - 1 \in 0..Len(s) /\ n - 1 \notin T BY <1>0, <3>1, <3>2
      <3>4. f[n - 1] = balance[n - 1] BY <3>3
      <3>5. f[n] = f[n - 1] + s[n].amount BY <1>0, <1>3, <3>2
      <3>6. balance[n] = balance[n - 1] + s[n].amount BY <1>0, <1>2, <3>2
      <3> QED BY <3>4, <3>5, <3>6
    <2> QED BY <2>1, <2>2
  <1> DEFINE total == CHOOSE f : IsTotal(f)
  <1>4. total = balance
    <2>1. IsTotal(total) BY <1>2
    <2> HIDE DEF total, IsTotal
    <2> QED BY <1>3, <2>1
  <1>5. SumOfAmounts(s) = total[Len(s)] BY DEF SumOfAmounts
  <1>6. balance[Len(s)] = k BY <1>0 DEF balance, Ordered
  <1> HIDE DEF total
  <1> QED BY <1>4, <1>5, <1>6

-----------------------------------------------------------------------------
(***************************************************************************)
(* The invariant: steps that leave the books alone                         *)
(***************************************************************************)
\* What the session z is about to publish is what cash k, units n and ledger s
\* make of its request.
Fits(z, k, n, s) ==
  /\ RowsOf(s, z.req) = {}
  /\ z.cash = k + CashEffect(z.req) /\ z.cash >= 0
  /\ z.units = n + UnitEffect(z.req) /\ z.units >= 0
  /\ \E now1, now2 \in Clock : z.rows = NewRows(s, z.req, z.cash, now1, now2)

Holds(c) == client[c].pc \in {"locked", "written"} => lock[client[c].req.account] = c

Pledged(c) ==
  LET a == client[c].req.account IN
  client[c].pc = "written" => Fits(client[c], cash[a], units[a], ledger[a])

LEMMA LockInvParts == LockInv <=> \A c \in Clients : Holds(c) /\ Pledged(c)
  BY DEF LockInv, Holds, Pledged, Fits, Recorded

LEMMA LockInvPartsNext == LockInv' <=> \A c \in Clients : Holds(c)' /\ Pledged(c)'
  BY DEF LockInv, Holds, Pledged, Fits, Recorded

\* The fields of a session that serves a request.
LEMMA ServingFields ==
  ASSUME NEW z \in ClientStates, z.pc \in {"waiting", "locked", "written"}
  PROVE  /\ z.req \in Requests /\ z.req.account \in Accounts
         /\ z.pc = "written" => z.cash \in Int /\ z.units \in Int /\ z.rows \in Seq(Entries)
  BY RequestAssumption DEF ClientStates

\* A session that changes only its own state, and no lock that others hold.
LEMMA QuietStep ==
  ASSUME IInv, UNCHANGED books, calls' \in Nat,
         NEW c \in Clients, NEW z \in ClientStates, client' = [client EXCEPT ![c] = z],
         lock' \in [Accounts -> Clients \cup {Nobody}],
         \A d \in Clients \ {c}, a \in Accounts : lock[a] = d => lock'[a] = d,
         z.pc \in {"locked", "written"} => lock'[z.req.account] = c,
         z.pc = "written" => LET a == z.req.account IN Fits(z, cash[a], units[a], ledger[a])
  PROVE  IInv'
  <1>1. TypeOK' BY DEF IInv, TypeOK, books
  <1>2. NoOverdraft' /\ OncePerKey' /\ OrderInv'
    BY DEF IInv, books, NoOverdraft, OncePerKey, OrderInv
  <1>3. ASSUME NEW d \in Clients PROVE Holds(d)' /\ Pledged(d)'
    <2>0. client \in [Clients -> ClientStates] /\ Holds(d) /\ Pledged(d)
      BY LockInvParts DEF IInv, TypeOK
    <2>1. CASE d = c
      <3>1. client'[d] = z BY <2>0, <2>1
      <3> QED BY <2>1, <3>1 DEF Holds, Pledged, books
    <2>2. CASE d # c
      <3>1. client'[d] = client[d] /\ client[d] \in ClientStates BY <2>0, <2>2
      <3>2. Pledged(d)' BY <2>0, <3>1 DEF Pledged, books
      <3>3. Holds(d)'
        <4> SUFFICES ASSUME client[d].pc \in {"locked", "written"}
                     PROVE  lock'[client[d].req.account] = d
          BY <3>1 DEF Holds
        <4>1. client[d].req.account \in Accounts BY <3>1, ServingFields
        <4> QED BY <2>0, <2>2, <4>1 DEF Holds
      <3> QED BY <3>2, <3>3
    <2> QED BY <2>1, <2>2
  <1> QED BY <1>1, <1>2, <1>3, LockInvPartsNext DEF IInv

LEMMA BeginKeeps ==
  ASSUME IInv, NEW c \in Clients, NEW r \in Requests, Begin(c, r)
  PROVE  IInv'
  <1>1. Serving(r) \in ClientStates /\ Serving(r).pc = "waiting" BY DEF Serving, ClientStates
  <1>2. /\ client' = [client EXCEPT ![c] = Serving(r)] /\ calls' \in Nat
        /\ UNCHANGED books /\ lock' = lock /\ lock \in [Accounts -> Clients \cup {Nobody}]
    BY DEF Begin, IInv, TypeOK
  <1> HIDE DEF Serving
  <1> QED BY <1>1, <1>2, QuietStep

LEMMA LockAccountKeeps ==
  ASSUME IInv, NEW c \in Clients, LockAccount(c)
  PROVE  IInv'
  <1> DEFINE z == [client[c] EXCEPT !.pc = "locked"]
  <1>0. client[c] \in ClientStates /\ client[c].pc = "waiting"
    BY DEF LockAccount, IInv, TypeOK
  <1>1. z \in ClientStates /\ z.pc = "locked" /\ z.req = client[c].req
    BY <1>0 DEF ClientStates
  <1>2. /\ client' = [client EXCEPT ![c] = z] /\ calls' \in Nat /\ UNCHANGED books
        /\ lock' = [lock EXCEPT ![client[c].req.account] = c]
        /\ lock[client[c].req.account] = Nobody
        /\ lock \in [Accounts -> Clients \cup {Nobody}]
    BY DEF LockAccount, LockFree, IInv, TypeOK
  <1>3. client[c].req.account \in Accounts BY <1>0, ServingFields
  <1> HIDE DEF z
  <1>4. /\ lock' \in [Accounts -> Clients \cup {Nobody}] /\ lock'[z.req.account] = c
        /\ \A d \in Clients \ {c}, a \in Accounts : lock[a] = d => lock'[a] = d
    BY <1>1, <1>2, <1>3, LedgerAssumption
  <1> QED BY <1>1, <1>2, <1>4, QuietStep

\* A session that held the lock of its account ends its call.
LEMMA EndCallKeeps ==
  ASSUME IInv, NEW c \in Clients, client[c].pc = "locked",
         NEW o \in {"none", "replayed", "reused", "rejected", "failed", "booked", "aborted"},
         EndCall(c, o)
  PROVE  IInv'
  <1>1. Idle(o) \in ClientStates /\ Idle(o).pc = "idle" BY DEF Idle, ClientStates
  <1>2. /\ client' = [client EXCEPT ![c] = Idle(o)] /\ calls' \in Nat /\ UNCHANGED books
        /\ lock' = [lock EXCEPT ![client[c].req.account] = Nobody]
        /\ lock \in [Accounts -> Clients \cup {Nobody}] /\ client[c] \in ClientStates
    BY DEF EndCall, Released, IInv, TypeOK
  <1>3. lock[client[c].req.account] = c
    BY LockInvParts DEF IInv, Holds
  <1>4. client[c].req.account \in Accounts BY <1>2, ServingFields
  <1>5. /\ lock' \in [Accounts -> Clients \cup {Nobody}]
        /\ \A d \in Clients \ {c}, a \in Accounts : lock[a] = d => lock'[a] = d
    BY <1>2, <1>3, <1>4
  <1> HIDE DEF Idle
  <1> QED BY <1>1, <1>2, <1>5, QuietStep

LEMMA AbortKeeps ==
  ASSUME IInv, NEW c \in Clients, Abort(c)
  PROVE  IInv'
  <1>1. Idle("aborted") \in ClientStates /\ Idle("aborted").pc = "idle"
    BY DEF Idle, ClientStates
  <1>2. /\ client' = [client EXCEPT ![c] = Idle("aborted")] /\ calls' \in Nat /\ UNCHANGED books
        /\ lock' = [a \in Accounts |-> IF lock[a] = c THEN Nobody ELSE lock[a]]
        /\ lock \in [Accounts -> Clients \cup {Nobody}]
    BY DEF Abort, IInv, TypeOK
  <1>3. /\ lock' \in [Accounts -> Clients \cup {Nobody}]
        /\ \A d \in Clients \ {c}, a \in Accounts : lock[a] = d => lock'[a] = d
    BY <1>2
  <1> HIDE DEF Idle
  <1> QED BY <1>1, <1>2, <1>3, QuietStep

LEMMA WriteKeeps ==
  ASSUME IInv, NEW c \in Clients, Write(c)
  PROVE  IInv'
  <1> DEFINE r == client[c].req
             a == r.account
             x == cash[a] + CashEffect(r)
             n == units[a] + UnitEffect(r)
  <1>0. /\ client[c] \in ClientStates /\ client[c].pc = "locked" /\ ~Recorded(r)
        /\ lock \in [Accounts -> Clients \cup {Nobody}] /\ lock[a] = c
    BY LockInvParts DEF Write, IInv, TypeOK, Holds
  <1>1. r \in Requests /\ a \in Accounts BY <1>0, ServingFields
  <1>2. /\ CashEffect(r) \in Int /\ UnitEffect(r) \in Int BY <1>1, RequestTypes
  <1>3. x \in Int /\ n \in Int /\ ledger[a] \in Seq(Rows) /\ Ordered(ledger[a], a, cash[a])
        /\ cash[a] \in Int
    BY <1>1, <1>2 DEF IInv, TypeOK, OrderInv, Rows
  <1>4. CASE ~TableCheck(x, n)
    <2>1. EndCall(c, "failed") BY <1>4 DEF Write
    <2> QED BY <1>0, <2>1, EndCallKeeps
  <1>5. CASE TableCheck(x, n)
    <2>1. PICK now1 \in Clock, now2 \in Clock :
            /\ client' = [client EXCEPT ![c] =
                 [pc |-> "written", req |-> r, cash |-> x, units |-> n,
                  rows |-> NewRows(ledger[a], r, x, now1, now2)]]
            /\ UNCHANGED <<books, lock, calls>>
      BY <1>5 DEF Write
    <2>2. now1 \in Nat /\ now2 \in Nat BY LedgerAssumption
    <2>3. NewRows(ledger[a], r, x, now1, now2) \in Seq(Entries)
      BY <1>1, <1>3, <2>2, RowsExtend
    <2> DEFINE z == [pc |-> "written", req |-> r, cash |-> x, units |-> n,
                     rows |-> NewRows(ledger[a], r, x, now1, now2)]
    <2>4. z \in ClientStates BY <1>1, <1>3, <2>3 DEF ClientStates
    <2>5. /\ z.pc = "written" /\ z.req = r /\ z.cash = x /\ z.units = n
          /\ z.rows = NewRows(ledger[a], r, x, now1, now2)
      OBVIOUS
    <2>6. x >= 0 /\ n >= 0 BY <1>5 DEF TableCheck
    <2>7. RowsOf(ledger[a], r) = {} BY <1>0 DEF Recorded
    <2> HIDE DEF z
    <2>8. Fits(z, cash[a], units[a], ledger[a])
      <3>1. z.cash = cash[a] + CashEffect(z.req) /\ z.units = units[a] + UnitEffect(z.req)
        BY <2>5
      <3> QED BY <2>5, <2>6, <2>7, <3>1 DEF Fits
    <2>9. client' = [client EXCEPT ![c] = z] BY <2>1 DEF z
    <2>10. calls' \in Nat BY <2>1 DEF IInv, TypeOK
    <2>11. /\ UNCHANGED books /\ lock' = lock BY <2>1
    <2>12. lock'[z.req.account] = c BY <1>0, <2>5, <2>11
    <2>13. LET b == z.req.account IN Fits(z, cash[b], units[b], ledger[b]) BY <2>5, <2>8
    <2>14. lock' \in [Accounts -> Clients \cup {Nobody}] BY <1>0, <2>11
    <2>15. \A d \in Clients \ {c}, b \in Accounts : lock[b] = d => lock'[b] = d BY <2>11
    <2> QED BY ONLY IInv, <2>4, <2>9, <2>10, <2>11, <2>12, <2>13, <2>14, <2>15, QuietStep
  <1> QED BY <1>4, <1>5

-----------------------------------------------------------------------------
(***************************************************************************)
(* The invariant: the commit                                               *)
(***************************************************************************)
\* What a session about to commit has in hand.
LEMMA CommitFacts ==
  ASSUME IInv, NEW c \in Clients, Commit(c)
  PROVE  LET z == client[c]
             r == z.req
             a == r.account
             s == ledger[a]
         IN /\ r \in Requests /\ a \in Accounts /\ s \in Seq(Rows) /\ lock[a] = c
            /\ z.cash = cash[a] + CashEffect(r) /\ z.cash >= 0 /\ z.cash \in Int
            /\ z.units = units[a] + UnitEffect(r) /\ z.units >= 0 /\ z.units \in Int
            /\ RowsOf(s, r) = {} /\ Ordered(s, a, cash[a])
            /\ z.rows \in Seq(Entries) /\ (Len(z.rows) = 1 \/ Len(z.rows) = 2)
            /\ \A i \in 1..Len(z.rows) : z.rows[i].req = r
            /\ \A i, j \in 1..Len(z.rows) : z.rows[i].kind = z.rows[j].kind => i = j
            /\ s \o z.rows \in Seq(Rows) /\ Ordered(s \o z.rows, a, z.cash)
  <1> DEFINE z == client[c]
             r == z.req
             a == r.account
             s == ledger[a]
  <1>1. z \in ClientStates /\ z.pc = "written" BY DEF Commit, IInv, TypeOK
  <1>2. r \in Requests /\ a \in Accounts /\ z.cash \in Int /\ z.units \in Int
    BY <1>1, ServingFields
  <1>3. Fits(z, cash[a], units[a], s) /\ lock[a] = c
    BY <1>1, LockInvParts DEF IInv, Holds, Pledged
  <1>4. /\ z.cash = cash[a] + CashEffect(r) /\ z.cash >= 0
        /\ z.units = units[a] + UnitEffect(r) /\ z.units >= 0
        /\ RowsOf(s, r) = {}
    BY <1>3 DEF Fits
  <1>5. s \in Seq(Rows) /\ Ordered(s, a, cash[a]) /\ cash[a] \in Int
    BY <1>2 DEF IInv, TypeOK, OrderInv, Rows
  <1>6. PICK now1 \in Nat, now2 \in Nat : z.rows = NewRows(s, r, z.cash, now1, now2)
    BY <1>3, LedgerAssumption DEF Fits
  <1>7. /\ z.rows \in Seq(Entries) /\ (Len(z.rows) = 1 \/ Len(z.rows) = 2)
        /\ \A i \in 1..Len(z.rows) : z.rows[i].req = r
        /\ \A i, j \in 1..Len(z.rows) : z.rows[i].kind = z.rows[j].kind => i = j
        /\ s \o z.rows \in Seq(Rows) /\ Ordered(s \o z.rows, a, z.cash)
    <2> DEFINE x == z.cash
               t == z.rows
               k == cash[a]
    <2>1. x = k + CashEffect(r) /\ x \in Int /\ k \in Int BY <1>2, <1>4, <1>5
    <2>2. t = NewRows(s, r, x, now1, now2) BY <1>6
    <2>3. r \in Requests /\ r.account = a /\ a \in Accounts BY <1>2
    <2>4. s \in Seq(Rows) /\ Ordered(s, a, k) BY <1>5
    <2> HIDE DEF z, r, a, s, x, t, k
    <2>5. /\ t \in Seq(Entries) /\ (Len(t) = 1 \/ Len(t) = 2)
          /\ \A i \in 1..Len(t) : t[i].req = r
          /\ \A i, j \in 1..Len(t) : t[i].kind = t[j].kind => i = j
          /\ s \o t \in Seq(Rows) /\ Ordered(s \o t, a, x)
      BY <2>1, <2>2, <2>3, <2>4, RowsExtend
    <2> QED BY <2>5 DEF x, t
  <1> QED BY <1>2, <1>3, <1>4, <1>5, <1>7

\* A key is new to a ledger without rows of it, so the two stay apart.
LEMMA NewKey ==
  ASSUME NEW s \in Seq(Rows), NEW t \in Seq(Entries), NEW r, RowsOf(s, r) = {}, Len(s) >= 1,
         \A i \in 1..Len(t) : t[i].req = r,
         \A i, j \in 1..Len(t) : t[i].kind = t[j].kind => i = j,
         \A i, j \in 2..Len(s) :
           SameKey(s[i].req, s[j].req) => s[i].req = s[j].req /\ (s[i].kind = s[j].kind => i = j)
  PROVE  \A i, j \in 2..Len(s \o t) :
           SameKey((s \o t)[i].req, (s \o t)[j].req) =>
             /\ (s \o t)[i].req = (s \o t)[j].req
             /\ (s \o t)[i].kind = (s \o t)[j].kind => i = j
  <1> DEFINE u == s \o t
  <1>1. /\ Len(u) = Len(s) + Len(t) /\ Len(s) \in Nat /\ Len(t) \in Nat
        /\ \A i \in 1..Len(s) : u[i] = s[i]
        /\ \A i \in 1..Len(u) : i > Len(s) => u[i] = t[i - Len(s)]
    OBVIOUS
  <1> HIDE DEF u
  <1>2. \A i \in 2..Len(s) : ~SameKey(s[i].req, r) /\ ~SameKey(r, s[i].req)
    BY DEF RowsOf, SameKey
  <1> SUFFICES ASSUME NEW i \in 2..Len(u), NEW j \in 2..Len(u), SameKey(u[i].req, u[j].req)
               PROVE  u[i].req = u[j].req /\ (u[i].kind = u[j].kind => i = j)
    BY DEF u
  <1>3. \A m \in 2..Len(u) : \/ m \in 2..Len(s) /\ u[m] = s[m]
                             \/ /\ m - Len(s) \in 1..Len(t) /\ u[m] = t[m - Len(s)]
                                /\ u[m].req = r
    <2> SUFFICES ASSUME NEW m \in 2..Len(u), ~(m \in 2..Len(s))
                 PROVE  /\ m - Len(s) \in 1..Len(t) /\ u[m] = t[m - Len(s)]
                        /\ u[m].req = r
      BY <1>1
    <2> QED BY <1>1
  <1>4. CASE i \in 2..Len(s) /\ u[i] = s[i]
    <2>1. CASE j \in 2..Len(s) /\ u[j] = s[j] BY <1>4, <2>1
    <2>2. CASE u[j].req = r BY <1>2, <1>4, <2>2
    <2> QED BY <1>3, <2>1, <2>2
  <1>5. CASE i - Len(s) \in 1..Len(t) /\ u[i] = t[i - Len(s)] /\ u[i].req = r
    <2>1. CASE j \in 2..Len(s) /\ u[j] = s[j] BY <1>2, <1>5, <2>1
    <2>2. CASE j - Len(s) \in 1..Len(t) /\ u[j] = t[j - Len(s)] /\ u[j].req = r
      <3>1. u[i].kind = u[j].kind => i - Len(s) = j - Len(s) BY <1>5, <2>2
      <3> QED BY <1>1, <1>5, <2>2, <3>1
    <2> QED BY <1>3, <2>1, <2>2
  <1> QED BY <1>3, <1>4, <1>5

LEMMA CommitKeeps ==
  ASSUME IInv, NEW c \in Clients, Commit(c)
  PROVE  IInv'
  <1> DEFINE z == client[c]
             r == z.req
             a == r.account
             s == ledger[a]
             u == s \o z.rows
  <1>1. /\ r \in Requests /\ a \in Accounts /\ s \in Seq(Rows) /\ lock[a] = c
        /\ z.cash >= 0 /\ z.cash \in Int /\ z.units >= 0 /\ z.units \in Int
        /\ RowsOf(s, r) = {} /\ Ordered(s, a, cash[a])
        /\ z.rows \in Seq(Entries)
        /\ \A i \in 1..Len(z.rows) : z.rows[i].req = r
        /\ \A i, j \in 1..Len(z.rows) : z.rows[i].kind = z.rows[j].kind => i = j
        /\ u \in Seq(Rows) /\ Ordered(u, a, z.cash)
    BY CommitFacts
  <1>2. /\ cash' = [cash EXCEPT ![a] = z.cash]
        /\ units' = [units EXCEPT ![a] = z.units]
        /\ ledger' = [ledger EXCEPT ![a] = u]
        /\ lock' = [lock EXCEPT ![a] = Nobody]
        /\ client' = [client EXCEPT ![c] = Idle("booked")]
        /\ calls' = calls
    BY DEF Commit, Released
  <1>3. /\ cash \in [Accounts -> Int] /\ units \in [Accounts -> Int]
        /\ ledger \in [Accounts -> Seq(Rows)] /\ lock \in [Accounts -> Clients \cup {Nobody}]
        /\ client \in [Clients -> ClientStates] /\ calls \in Nat
    BY DEF IInv, TypeOK, Rows
  <1>4. Idle("booked") \in ClientStates /\ Idle("booked").pc = "idle" BY DEF Idle, ClientStates
  <1>5. \A d \in Clients : Holds(d) /\ Pledged(d) BY LockInvParts DEF IInv
  <1>6. \A b \in Accounts : /\ Ordered(ledger[b], b, cash[b]) /\ cash[b] >= 0 /\ units[b] >= 0
    BY DEF IInv, OrderInv, NoOverdraft
  <1>7. \A b \in Accounts : \A i, j \in 2..Len(ledger[b]) :
          SameKey(ledger[b][i].req, ledger[b][j].req) =>
            /\ ledger[b][i].req = ledger[b][j].req
            /\ ledger[b][i].kind = ledger[b][j].kind => i = j
    BY DEF IInv, OncePerKey
  <1>8. \A i, j \in 2..Len(u) :
          SameKey(u[i].req, u[j].req) => u[i].req = u[j].req /\ (u[i].kind = u[j].kind => i = j)
    <2>1. Len(s) >= 1 BY <1>1 DEF Ordered
    <2> HIDE DEF z, r, a, s
    <2>2. \A i, j \in 2..Len(s) :
            SameKey(s[i].req, s[j].req) => s[i].req = s[j].req /\ (s[i].kind = s[j].kind => i = j)
      BY <1>1, <1>7 DEF s
    <2> QED BY <1>1, <2>1, <2>2, NewKey
  <1> HIDE DEF z, r, u, s, a, Idle
  <1>9. TypeOK'
    BY <1>1, <1>2, <1>3, <1>4 DEF TypeOK, Rows
  <1>10. NoOverdraft'
    BY <1>1, <1>2, <1>3, <1>6 DEF NoOverdraft
  <1>11. OncePerKey'
    <2> SUFFICES ASSUME NEW b \in Accounts
                 PROVE  \A i, j \in 2..Len(ledger'[b]) :
                          SameKey(ledger'[b][i].req, ledger'[b][j].req) =>
                            /\ ledger'[b][i].req = ledger'[b][j].req
                            /\ ledger'[b][i].kind = ledger'[b][j].kind => i = j
      BY DEF OncePerKey
    <2>1. CASE b = a
      <3>1. ledger'[b] = u BY <1>1, <1>2, <1>3, <2>1
      <3> QED BY <1>8, <3>1
    <2>2. CASE b # a
      <3>1. ledger'[b] = ledger[b] BY <1>2, <1>3, <2>2
      <3> QED BY <1>7, <3>1
    <2> QED BY <2>1, <2>2
  <1>12. OrderInv'
    BY <1>1, <1>2, <1>3, <1>6 DEF OrderInv
  <1>13. ASSUME NEW d \in Clients PROVE Holds(d)' /\ Pledged(d)'
    <2>1. CASE d = c
      <3>1. client'[d].pc = "idle" BY <1>2, <1>3, <1>4, <2>1
      <3> QED BY <3>1 DEF Holds, Pledged
    <2>2. CASE d # c
      <3>1. client'[d] = client[d] /\ client[d] \in ClientStates BY <1>2, <1>3, <2>2
      <3> SUFFICES ASSUME client[d].pc \in {"locked", "written"}
                   PROVE  Holds(d)' /\ Pledged(d)'
        BY <3>1 DEF Holds, Pledged
      <3> DEFINE b == client[d].req.account
      <3>2. b \in Accounts BY <3>1, ServingFields
      <3>3. lock[b] = d BY <1>5 DEF Holds
      <3>4. b # a BY <1>1, <2>2, <3>3
      <3>5. /\ cash'[b] = cash[b] /\ units'[b] = units[b] /\ ledger'[b] = ledger[b]
            /\ lock'[b] = lock[b]
        BY <1>2, <1>3, <3>2, <3>4
      <3>6. Pledged(d) BY <1>5
      <3> QED BY <3>1, <3>3, <3>5, <3>6 DEF Holds, Pledged
    <2> QED BY <2>1, <2>2
  <1> QED BY <1>9, <1>10, <1>11, <1>12, <1>13, LockInvPartsNext DEF IInv

-----------------------------------------------------------------------------
(***************************************************************************)
(* The theorems                                                            *)
(***************************************************************************)
LEMMA InitInv == Init => IInv
  <1> SUFFICES ASSUME Init PROVE IInv OBVIOUS
  <1>1. \A a \in Accounts : /\ cash[a] = OpeningCash /\ units[a] = 0
                            /\ ledger[a] = <<Opening>> /\ lock[a] = Nobody
    BY DEF Init
  <1>2. /\ <<Opening>> \in Seq(Rows) /\ Len(<<Opening>>) = 1 /\ <<Opening>>[1] = Opening
        /\ Opening.balance = OpeningCash /\ OpeningCash \in Nat
    BY LedgerAssumption DEF Rows, Opening
  <1>3. Idle("none") \in ClientStates /\ Idle("none").pc = "idle" BY DEF Idle, ClientStates
  <1> HIDE DEF Opening
  <1>4. TypeOK
    <2>1. cash \in [Accounts -> Int] /\ units \in [Accounts -> Int] BY <1>2 DEF Init
    <2>2. ledger \in [Accounts -> Seq({Opening} \cup Entries)] BY <1>2 DEF Init, Rows
    <2>3. lock \in [Accounts -> Clients \cup {Nobody}] BY DEF Init
    <2>4. client \in [Clients -> ClientStates] /\ calls \in Nat BY <1>3 DEF Init
    <2> QED BY <2>1, <2>2, <2>3, <2>4 DEF TypeOK
  <1>5. NoOverdraft BY <1>1, <1>2 DEF NoOverdraft
  <1>6. \A a \in Accounts : Len(ledger[a]) = 1 BY <1>1, <1>2
  <1>7. OncePerKey BY <1>6 DEF OncePerKey
  <1>8. LockInv BY <1>3 DEF LockInv, Init
  <1>9. OrderInv
    <2> SUFFICES ASSUME NEW a \in Accounts PROVE Ordered(ledger[a], a, cash[a])
      BY DEF OrderInv
    <2>1. /\ Len(ledger[a]) = 1 /\ ledger[a][1] = Opening /\ cash[a] = OpeningCash
      BY <1>1, <1>2
    <2> QED BY <1>2, <2>1 DEF Ordered
  <1> QED BY <1>4, <1>5, <1>7, <1>8, <1>9 DEF IInv

LEMMA NextKeeps == IInv /\ [Next]_vars => IInv'
  <1> SUFFICES ASSUME IInv, [Next]_vars PROVE IInv' OBVIOUS
  <1>1. ASSUME NEW c \in Clients, NEW r \in Requests, Begin(c, r) PROVE IInv'
    BY <1>1, BeginKeeps
  <1>2. ASSUME NEW c \in Clients, LockAccount(c) PROVE IInv'
    BY <1>2, LockAccountKeeps
  <1>3. ASSUME NEW c \in Clients, Replay(c) PROVE IInv'
    <2>1. client[c].pc = "locked" /\ (EndCall(c, "replayed") \/ EndCall(c, "reused"))
      BY <1>3 DEF Replay
    <2> QED BY <2>1, EndCallKeeps
  <1>4. ASSUME NEW c \in Clients, Reject(c) PROVE IInv'
    <2>1. client[c].pc = "locked" /\ EndCall(c, "rejected") BY <1>4 DEF Reject
    <2> QED BY <2>1, EndCallKeeps
  <1>5. ASSUME NEW c \in Clients, Write(c) PROVE IInv'
    BY <1>5, WriteKeeps
  <1>6. ASSUME NEW c \in Clients, Commit(c) PROVE IInv'
    BY <1>6, CommitKeeps
  <1>7. ASSUME NEW c \in Clients, Abort(c) PROVE IInv'
    BY <1>7, AbortKeeps
  <1>8. CASE UNCHANGED vars
    <2>1. \A c \in Clients : Holds(c) /\ Pledged(c) BY LockInvParts DEF IInv
    <2>2. \A c \in Clients : Holds(c)' /\ Pledged(c)'
      BY <1>8, <2>1 DEF vars, books, Holds, Pledged
    <2>3. TypeOK' /\ NoOverdraft' /\ OncePerKey' /\ OrderInv'
      BY <1>8 DEF vars, books, IInv, TypeOK, NoOverdraft, OncePerKey, OrderInv
    <2> QED BY <2>2, <2>3, LockInvPartsNext DEF IInv
  <1> QED BY <1>1, <1>2, <1>3, <1>4, <1>5, <1>6, <1>7, <1>8 DEF Next, Step

\* The inductive invariant holds throughout: whoever is past lock_account holds
\* the row, and what it is about to publish fits the books as they are.
THEOREM Invariance == Spec => []IInv
  BY InitInv, NextKeeps, PTL DEF Spec

\* The variables keep their types.
THEOREM TypeCorrect == Spec => []TypeOK
  <1>1. IInv => TypeOK BY DEF IInv
  <1> QED BY <1>1, Invariance, PTL

\* Neither cash nor a position ever goes below zero, whoever trades, withdraws,
\* retries or crashes at the same time.
THEOREM NeverOverdrawn == Spec => []NoOverdraft
  <1>1. IInv => NoOverdraft BY DEF IInv
  <1> QED BY <1>1, Invariance, PTL

\* A key takes effect at most once, for one request.
THEOREM KeyedOnce == Spec => []OncePerKey
  <1>1. IInv => OncePerKey BY DEF IInv
  <1> QED BY <1>1, Invariance, PTL

\* Read by executed_at, the ledger is an unbroken chain that ends in the cash of
\* its account, however the wall clocks of the sessions are skewed.
THEOREM Chained == Spec => []LedgerChain
  <1>1. IInv => LedgerChain
    <2> SUFFICES ASSUME IInv, NEW a \in Accounts
                 PROVE  LET s == ledger[a] IN
                   /\ \A i, j \in DOMAIN s : i # j => s[i].at # s[j].at
                   /\ \A i, j \in DOMAIN s :
                        Follows(s, i, j) => s[j].balance = s[i].balance + s[j].amount
                   /\ \A i \in DOMAIN s :
                        (\A k \in DOMAIN s : s[k].at <= s[i].at) => s[i].balance = cash[a]
      BY DEF LedgerChain
    <2>1. ledger[a] \in Seq(Rows) /\ cash[a] \in Int /\ Ordered(ledger[a], a, cash[a])
      BY DEF IInv, TypeOK, OrderInv, Rows
    <2> QED BY <2>1, OrderedIsChain
  <1> QED BY <1>1, Invariance, PTL

\* The cash of an account is the sum of its ledger, whatever was bought, sold, paid
\* in or out, retried and rolled back.
THEOREM CashIsSum == Spec => []CashIsLedgerSum
  <1>1. IInv => CashIsLedgerSum
    <2> SUFFICES ASSUME IInv, NEW a \in Accounts
                 PROVE  cash[a] = SumOfAmounts(ledger[a])
      BY DEF CashIsLedgerSum
    <2>1. ledger[a] \in Seq(Rows) /\ cash[a] \in Int /\ Ordered(ledger[a], a, cash[a])
      BY DEF IInv, TypeOK, OrderInv, Rows
    <2> QED BY <2>1, OrderedAddsUp
  <1> QED BY <1>1, Invariance, PTL

\* The requests that took effect, after a commit of z's rows.
LEMMA CommitDone ==
  ASSUME IInv, NEW c \in Clients, Commit(c)
  PROVE  Done' = Done \cup {client[c].req}
  <1> DEFINE z == client[c]
             r == z.req
             a == r.account
             s == ledger[a]
             t == z.rows
             u == s \o t
             Of(v) == {v[i].req : i \in 2..Len(v)}
  <1>1. /\ a \in Accounts /\ s \in Seq(Rows) /\ t \in Seq(Entries) /\ (Len(t) = 1 \/ Len(t) = 2)
        /\ \A i \in 1..Len(t) : t[i].req = r
        /\ Len(s) >= 1
    BY CommitFacts DEF Ordered
  <1>2. /\ ledger' = [ledger EXCEPT ![a] = u] /\ ledger \in [Accounts -> Seq(Rows)]
    BY DEF Commit, IInv, TypeOK, Rows
  <1> HIDE DEF z, r, a, s, t
  <1>3. /\ Len(u) = Len(s) + Len(t) /\ Len(s) \in Nat /\ Len(t) \in Nat
        /\ \A i \in 1..Len(s) : u[i] = s[i]
        /\ \A i \in 1..Len(u) : i > Len(s) => u[i] = t[i - Len(s)]
    BY <1>1
  <1> HIDE DEF u
  <1>4. Of(u) \subseteq Of(s) \cup {r}
    <2> SUFFICES ASSUME NEW i \in 2..Len(u) PROVE u[i].req \in Of(s) \cup {r} OBVIOUS
    <2>1. CASE i <= Len(s) BY <1>1, <1>3, <2>1
    <2>2. CASE i > Len(s)
      <3>1. i - Len(s) \in 1..Len(t) BY <1>1, <1>3, <2>2
      <3> QED BY <1>1, <1>3, <2>2, <3>1
    <2> QED BY <1>3, <2>1, <2>2
  <1>5. Of(s) \subseteq Of(u)
    <2> SUFFICES ASSUME NEW i \in 2..Len(s) PROVE s[i].req \in Of(u) OBVIOUS
    <2>1. i \in 2..Len(u) /\ i \in 1..Len(s) BY <1>1, <1>3
    <2>2. u[i].req \in Of(u) BY <2>1
    <2> QED BY <1>3, <2>1, <2>2
  <1>6. r \in Of(u)
    <2> DEFINE m == Len(s)
               n == Len(t)
    <2>0. (n = 1 \/ n = 2) /\ m >= 1 /\ m \in Nat /\ Len(u) = m + n
      BY ONLY <1>1, <1>3
    <2> HIDE DEF m, n
    <2>3. m + 1 \in 2..Len(u) BY ONLY <2>0
    <2>1. Len(s) + 1 \in 2..Len(u) BY ONLY <2>3 DEF m
    <2>2. u[Len(s) + 1] = t[(Len(s) + 1) - Len(s)] /\ (Len(s) + 1) - Len(s) = 1 /\ 1 \in 1..Len(t)
      BY <1>1, <1>3, <2>1
    <2> QED BY <1>1, <2>1, <2>2
  <1>7. Of(u) = Of(s) \cup {r} BY <1>4, <1>5, <1>6
  <1>8. ledger'[a] = u /\ ledger[a] = s /\ \A b \in Accounts \ {a} : ledger'[b] = ledger[b]
    BY <1>1, <1>2 DEF s
  <1>9. Done = UNION {Of(ledger[b]) : b \in Accounts} BY DEF Done
  <1>10. Done' = UNION {Of(ledger'[b]) : b \in Accounts} BY DEF Done
  <1> HIDE DEF Of
  <1>11. Done' = Done \cup {r} BY <1>1, <1>7, <1>8, <1>9, <1>10
  <1> QED BY <1>11 DEF r, z

\* The sessions implement the abstract book: a commit is the serial effect of
\* its request, and every other step changes nothing in it.
THEOREM Refinement == Spec => IsSerial
  <1>1. Init => Book!Init
    <2> SUFFICES ASSUME Init PROVE Done = {} BY DEF Init, Book!Init
    <2>1. \A a \in Accounts : Len(ledger[a]) = 1 BY DEF Init
    <2> QED BY <2>1 DEF Done
  <1>2. IInv /\ [Next]_vars => [Book!Next]_(Book!vars)
    <2> SUFFICES ASSUME IInv, [Next]_vars PROVE [Book!Next]_(Book!vars) OBVIOUS
    <2>1. UNCHANGED books => UNCHANGED Book!vars BY DEF books, Book!vars, Done
    <2>2. ASSUME NEW c \in Clients, Commit(c) PROVE Book!Next
      <3> DEFINE r == client[c].req
                 a == r.account
      <3>1. /\ r \in Requests /\ a \in Accounts /\ RowsOf(ledger[a], r) = {}
            /\ client[c].cash = cash[a] + CashEffect(r) /\ client[c].cash >= 0
            /\ client[c].units = units[a] + UnitEffect(r) /\ client[c].units >= 0
        BY <2>2, CommitFacts
      <3>2. \A d \in Done : ~SameKey(d, r)
        <4> SUFFICES ASSUME NEW b \in Accounts, NEW i \in 2..Len(ledger[b]),
                            SameKey(ledger[b][i].req, r)
                     PROVE  FALSE
          BY DEF Done
        <4>1. ledger[b][i].req.account = b BY DEF IInv, OrderInv, Ordered
        <4>2. b = a BY <4>1 DEF SameKey
        <4> QED BY <3>1, <4>2 DEF RowsOf
      <3>3. Done' = Done \cup {r} BY <2>2, CommitDone
      <3>4. /\ cash' = [cash EXCEPT ![a] = cash[a] + CashEffect(r)]
            /\ units' = [units EXCEPT ![a] = units[a] + UnitEffect(r)]
        BY <2>2, <3>1 DEF Commit
      <3>5. Book!Apply(r)
        BY <3>1, <3>2, <3>3, <3>4
        DEF Book!Apply, Book!SameKey, Book!KeyClass, Book!Trades, Book!CashEffect,
            Book!UnitEffect, SameKey, KeyClass, Trades, CashEffect, UnitEffect
      <3> QED BY <3>1, <3>5 DEF Book!Next
    <2>3. CASE UNCHANGED vars BY <2>1, <2>3 DEF vars, books
    <2>4. CASE Next
      BY <2>1, <2>2, <2>4 DEF Next, Step, Begin, LockAccount, Replay, Reject, Write, Abort, EndCall
    <2> QED BY <2>3, <2>4
  <1> QED BY <1>1, <1>2, Invariance, PTL DEF Spec, IsSerial, Book!Spec
=============================================================================
