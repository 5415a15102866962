---------------------------- MODULE PositionState ----------------------------
(* The durable state of a position (position_states) in one account and one  *)
(* instrument, and the requests that write it: a closing fill, a protect or  *)
(* trail confirmation, an automatic sale, an opening fill.  Each request is  *)
(* one database transaction at READ COMMITTED: it reads the row without a    *)
(* lock, computes a whole new document from what it read, and writes that    *)
(* document back.  Money requests hold the account's lock until they commit; *)
(* a write holds the row's lock until its transaction ends.                  *)
EXTENDS Integers, FiniteSets

CONSTANTS
    Exits,      \* closing fills: POST /portfolio/trade, Confirm, a filled order
    Protects,   \* protect and trail confirmations
    Autos,      \* runs of the position policy that end in a sale
    Buyers,     \* opening fills
    Free,       \* no transaction holds the lock
    NoRow,      \* no such position
    NoWrite,    \* the transaction has written nothing
    NoKey,      \* no idempotency key
    Lot,        \* shares an opening fill buys
    MaxStop,    \* bound: the prices a stop can be at
    MaxId       \* bound: ledger positions opened one after another

ASSUME PositionAssumption ==
    /\ Lot \in Nat \ {0} /\ MaxStop \in Nat \ {0} /\ MaxId \in Nat \ {0}
    /\ Exits \cap (Protects \cup Autos \cup Buyers) = {}
    /\ Protects \cap (Autos \cup Buyers) = {} /\ Autos \cap Buyers = {}
    /\ Free \notin Exits \cup Protects \cup Autos \cup Buyers

Workers == Exits \cup Protects \cup Autos \cup Buyers
Ids == 1..MaxId
Kinds == {"TARGET_1", "STOP"}
Keys == Exits \cup (Ids \X Kinds) \cup {NoKey}
Stops == 1..MaxStop

(* The document: what a transaction reads and writes back as a whole.        *)
Rows == [remaining : 0..Lot, stop : Stops, target1 : BOOLEAN,
         lastExit : Keys, events : SUBSET (Kinds \cup {"PROTECT"})]
Writes == [id : Ids, row : Rows, by : {"exit", "stop", "birth"}]

ASSUME RowAssumption == NoRow \notin Rows /\ NoWrite \notin Writes

VARIABLES
    held,       \* positions.quantity, committed
    ledgerId,   \* id of the ledger position, which names the next birth
    sold,       \* shares of the committed sale of each idempotency key, 0: none
    rows,       \* position_states, committed
    acct,       \* holder of the account's lock
    rowLock,    \* holder of each row's lock
    claimed,    \* keys claimed in the idempotency store outside the database
    pc,         \* where each request stands
    req,        \* its arguments and the row it read
    sale,       \* its uncommitted change of held
    own,        \* its uncommitted row
    since,      \* history: who committed to the row a request is working on
    lost,       \* history: <<writer, author of the change it wrote over>>
    gaps        \* history: how a fill of the ledger came to differ from the row's

vars == <<held, ledgerId, sold, rows, acct, rowLock, claimed, pc, req, sale, own,
          since, lost, gaps>>
ledger == <<held, ledgerId, sold>>
history == <<since, lost, gaps>>

(* qty is the fill the row is told of, sell the shares the ledger sells; for *)
(* a closing fill mark closes target 1, for a protect it is the audit reason.*)
NoReq == [key |-> NoKey, qty |-> 0, sell |-> 0, kind |-> "STOP", stop |-> 1,
          mark |-> FALSE, id |-> 0, base |-> NoRow]

Reqs == [key : Keys, qty : Nat, sell : Nat, kind : Kinds, stop : Stops,
         mark : BOOLEAN, id : Ids \cup {0}, base : Rows \cup {NoRow}]
Labels == {"idle", "trade", "persist", "write", "cas", "claim", "claimcas",
           "sell", "pay", "birth", "commit", "done"}

TypeOK ==
    /\ held \in Nat /\ ledgerId \in Ids
    /\ sold \in [Keys -> Nat] /\ claimed \subseteq Keys
    /\ rows \in [Ids -> Rows \cup {NoRow}]
    /\ acct \in Workers \cup {Free}
    /\ rowLock \in [Ids -> Workers \cup {Free}]
    /\ pc \in [Workers -> Labels]
    /\ req \in [Workers -> Reqs]
    /\ sale \in [Workers -> Int]
    /\ own \in [Workers -> Writes \cup {NoWrite}]
    /\ since \in [Workers -> SUBSET {"exit", "stop", "birth"}]
    /\ lost \subseteq ({"exit", "stop"} \X {"exit", "stop", "birth"})
    /\ gaps \subseteq {"opening", "refused", "resized", "repeated"}

-----------------------------------------------------------------------------
Closed(row) == row.remaining = 0
IsOpen(row) == IF row = NoRow THEN FALSE ELSE ~Closed(row)

(* What a transaction sees: the committed rows under its own writes.         *)
Row(w, i) == IF own[w] = NoWrite THEN rows[i]
             ELSE IF own[w].id = i THEN own[w].row ELSE rows[i]
OpenIds(w) == {i \in Ids : IsOpen(Row(w, i))}
OpenId(w) == CHOOSE i \in OpenIds(w) : TRUE

HoldsRow(w, i) == rowLock[i] \in {Free, w}

(* The partial unique index: a write that leaves the row open fails if       *)
(* another row of the instrument is open; an insert not yet committed makes  *)
(* it wait.                                                                  *)
Inserted(w) == own[w] # NoWrite /\ rows[own[w].id] = NoRow
MayWrite(w, i) == HoldsRow(w, i) /\ \A v \in Workers \ {w} : ~Inserted(v)
Collides(w, i, row) == ~Closed(row) /\ \E j \in OpenIds(w) : j # i

(* apply_position_reduce: what it refuses, and the row after a fill.         *)
Unfit(row, r) == row.lastExit = r.key \/ r.qty > row.remaining

(* A change: a fill that does not close target 1 forgets that another did.   *)
ReducedForgetful(row, r) ==
    [row EXCEPT !.remaining = @ - r.qty, !.target1 = r.mark, !.lastExit = r.key]

(* A change: the fill that closes target 1 counts as one share.              *)
ReducedShort(row, r) ==
    [row EXCEPT !.remaining = @ - (IF r.mark THEN 1 ELSE r.qty),
                !.target1 = @ \/ r.mark, !.lastExit = r.key]

Reduced(row, r) ==
    [row EXCEPT !.remaining = @ - r.qty, !.target1 = @ \/ r.mark,
                !.lastExit = r.key]

(* The row is written, from the document the request read: what another      *)
(* transaction committed to it since then is lost.  by is "exit" for         *)
(* update_state, "stop" for compare_and_swap_stop.                           *)
WriteRow(w, i, row, by) ==
    /\ own' = [own EXCEPT ![w] = [id |-> i, row |-> row, by |-> by]]
    /\ rowLock' = [rowLock EXCEPT ![i] = w]
    /\ lost' = lost \cup ({by} \X since[w])
    /\ UNCHANGED since

(* A change: the account is not locked.                                      *)
Unlocked(w) == UNCHANGED acct

(* ExecuteTrade and the opening fill keep the account to their commit.       *)
Locked(w) == acct' = w

(* A change: only the lock of the account is let go of.                      *)
LetGoOfAccount(w) ==
    /\ acct' = IF acct = w THEN Free ELSE acct
    /\ UNCHANGED rowLock

(* The end of a transaction lets go of its locks.                            *)
LetGo(w) ==
    /\ acct' = IF acct = w THEN Free ELSE acct
    /\ rowLock' = [i \in Ids |-> IF rowLock[i] = w THEN Free ELSE rowLock[i]]

(* The transaction ends with nothing written: it is rolled back, or there is *)
(* nothing to commit.  A key claimed outside the database stays claimed.     *)
Abandon(w) ==
    /\ pc' = [pc EXCEPT ![w] = "done"]
    /\ LetGo(w)
    /\ own' = [own EXCEPT ![w] = NoWrite]
    /\ sale' = [sale EXCEPT ![w] = 0]
    /\ UNCHANGED <<ledger, rows, claimed, req, history>>

Goto(w, label) == pc' = [pc EXCEPT ![w] = label]
Finish(w) == Goto(w, "done") /\ UNCHANGED <<ledger, rows, acct, rowLock,
                                            claimed, req, sale, own, history>>

(* The row a request works on from now on.                                   *)
Take(w, r, i) ==
    /\ req' = [req EXCEPT ![w] = [r EXCEPT !.id = i, !.base = Row(w, i)]]
    /\ since' = [since EXCEPT ![w] = {}]
    /\ UNCHANGED lost

-----------------------------------------------------------------------------
(* A closing fill of q shares.  A key already booked is answered before any  *)
(* lock is taken; mark is set by the callers that close target 1.            *)
StartExit(w, key, q, mark) ==
    /\ w \in Exits /\ pc[w] = "idle"
    /\ IF sold[key] > 0
       THEN Finish(w)
       ELSE /\ req' = [req EXCEPT ![w] =
                          [NoReq EXCEPT !.key = key, !.qty = q, !.mark = mark]]
            /\ Goto(w, "trade")
            /\ UNCHANGED <<ledger, rows, acct, rowLock, claimed, sale, own, history>>

(* ExecuteTrade under the account's lock: the sale, the answer given before  *)
(* for a key booked meanwhile, or a rejection.                               *)
ExitTrade(w) ==
    /\ w \in Exits /\ pc[w] = "trade" /\ acct = Free
    /\ IF IF sold[req[w].key] > 0 THEN sold[req[w].key] # req[w].qty
                                 ELSE held < req[w].qty
       THEN Finish(w)
       ELSE /\ Locked(w)
            /\ sale' = [sale EXCEPT ![w] =
                           IF sold[req[w].key] > 0 THEN 0 ELSE -req[w].qty]
            /\ Goto(w, "persist")
            /\ UNCHANGED <<ledger, rows, rowLock, claimed, req, own, history>>

(* PersistPositionFromExit reads the open row and reduces it in memory: no   *)
(* open row, the last exit repeated, or more shares than the row has left    *)
(* leave the row as it is, with the sale booked.                             *)
ReadExit(w) ==
    /\ pc[w] = "persist"
    /\ IF OpenIds(w) = {} \/ Unfit(Row(w, OpenId(w)), req[w])
       THEN /\ Goto(w, "commit")
            /\ gaps' = IF sale[w] = 0 THEN gaps ELSE gaps \cup {"refused"}
            /\ UNCHANGED <<req, since, lost>>
       ELSE /\ Take(w, req[w], OpenId(w))
            /\ gaps' = gaps \cup (IF sale[w] = 0 THEN {"repeated"}
                                  ELSE IF sale[w] # -req[w].qty THEN {"resized"}
                                  ELSE {})
            /\ Goto(w, "write")
    /\ UNCHANGED <<ledger, rows, acct, rowLock, claimed, sale, own>>

(* update_state: the whole document, whatever the row holds by now.          *)
WriteExit(w) ==
    LET i == req[w].id
        row == Reduced(req[w].base, req[w])
    IN /\ pc[w] = "write" /\ MayWrite(w, i)
       /\ IF Collides(w, i, row)
          THEN Abandon(w)
          ELSE /\ WriteRow(w, i, row, "exit")
               /\ Goto(w, "commit")
               /\ UNCHANGED <<ledger, rows, acct, claimed, req, sale, gaps>>

-----------------------------------------------------------------------------
(* A change: the stop is not compared.                                       *)
NeverMoved(w, i) == FALSE

(* compare_and_swap_stop compares the stop, and nothing else of the row.     *)
StopMoved(w, i) == rows[i].stop # req[w].base.stop

(* PersistPositionFromProtect: a stop that worsens needs an audited reason,  *)
(* the stop in force is taken again for its event.                           *)
ReadProtect(w, s, audited) ==
    /\ w \in Protects /\ pc[w] = "idle"
    /\ IF OpenIds(w) = {} THEN Finish(w)
       ELSE IF s < Row(w, OpenId(w)).stop /\ ~audited THEN Finish(w)
       ELSE /\ Take(w, [NoReq EXCEPT !.stop = s, !.mark = audited], OpenId(w))
            /\ Goto(w, "cas")
            /\ UNCHANGED <<gaps, ledger, rows, acct, rowLock, claimed, sale, own>>

(* compare_and_swap_stop: the row's lock, the stop compared, and the whole   *)
(* document written.                                                         *)
CasProtect(w) ==
    LET i == req[w].id
        row == [req[w].base EXCEPT !.stop = req[w].stop,
                                   !.events = @ \cup {"PROTECT"}]
    IN /\ pc[w] = "cas" /\ MayWrite(w, i)
       /\ IF StopMoved(w, i) \/ Collides(w, i, row)
          THEN Abandon(w)
          ELSE /\ WriteRow(w, i, row, "stop")
               /\ Goto(w, "commit")
               /\ UNCHANGED <<ledger, rows, acct, claimed, req, sale, gaps>>

-----------------------------------------------------------------------------
(* The position policy reads the open row and decides: part of the lot at    *)
(* target 1, unless it was reached before, or everything that remains.       *)
Decide(w, kind) ==
    /\ w \in Autos /\ pc[w] = "idle"
    /\ IF OpenIds(w) = {} THEN Finish(w)
       ELSE LET row == Row(w, OpenId(w)) IN
            /\ kind = "TARGET_1" => ~row.target1
            /\ req' = [req EXCEPT ![w] =
                          [NoReq EXCEPT !.kind = kind, !.mark = (kind = "TARGET_1"),
                             !.qty = IF kind = "STOP" THEN row.remaining ELSE 1]]
            /\ Goto(w, "claim")
            /\ UNCHANGED <<ledger, rows, acct, rowLock, claimed, sale, own, history>>

(* claim_sell_event reads the row again, and adds the event to its document  *)
(* by the same compare-and-swap of the stop; when that is lost the sale goes *)
(* on only with an event the winner wrote.                                   *)
ReadClaim(w) ==
    /\ pc[w] = "claim"
    /\ IF OpenIds(w) = {} THEN Finish(w)
       ELSE LET i == OpenId(w) IN
            /\ Take(w, [req[w] EXCEPT !.key = <<i, req[w].kind>>], i)
            /\ Goto(w, "claimcas")
            /\ UNCHANGED <<gaps, ledger, rows, acct, rowLock, claimed, sale, own>>

CasClaim(w) ==
    LET i == req[w].id
        row == [req[w].base EXCEPT !.events = @ \cup {req[w].kind}]
    IN /\ pc[w] = "claimcas" /\ MayWrite(w, i)
       /\ IF StopMoved(w, i)
          THEN IF IsOpen(rows[i]) /\ req[w].kind \in rows[i].events
               THEN /\ rowLock' = [rowLock EXCEPT ![i] = w]
                    /\ Goto(w, "sell")
                    /\ UNCHANGED <<ledger, rows, acct, claimed, req, sale, own,
                                   history>>
               ELSE Abandon(w)
          ELSE IF Collides(w, i, row) THEN Abandon(w)
          ELSE /\ WriteRow(w, i, row, "stop")
               /\ Goto(w, "sell")
               /\ UNCHANGED <<ledger, rows, acct, claimed, req, sale, gaps>>

(* The router sizes the sale from what the ledger holds (an exit sells it    *)
(* all), and goes on once per key the store outside the database remembers.  *)
AutoSell(w) ==
    LET r == req[w]
    IN /\ pc[w] = "sell"
       /\ IF r.key \in claimed \/ held = 0
          THEN /\ Goto(w, "commit")
               /\ UNCHANGED <<claimed, req>>
          ELSE /\ claimed' = claimed \cup {r.key}
               /\ req' = [req EXCEPT ![w].sell =
                             IF r.kind = "STOP" \/ held < r.qty THEN held ELSE r.qty]
               /\ Goto(w, "pay")
       /\ UNCHANGED <<ledger, rows, acct, rowLock, sale, own, history>>

(* ExecuteTrade: a rejected sale gives the key back; a key already booked is *)
(* answered again, or refused when the price or the quantity is another.     *)
AutoTrade(w) ==
    LET r == req[w]
    IN /\ pc[w] = "pay" /\ acct = Free
       /\ \/ /\ sold[r.key] = 0 /\ held < r.sell
             /\ claimed' = claimed \ {r.key}
             /\ Locked(w)
             /\ Goto(w, "commit")
             /\ UNCHANGED <<ledger, rows, rowLock, req, sale, own, history>>
          \/ /\ sold[r.key] = 0 /\ held >= r.sell
             /\ sale' = [sale EXCEPT ![w] = -r.sell]
             /\ Locked(w)
             /\ Goto(w, "persist")
             /\ UNCHANGED <<ledger, rows, rowLock, claimed, req, own, history>>
          \/ /\ sold[r.key] = r.sell
             /\ Locked(w)
             /\ Goto(w, "persist")
             /\ UNCHANGED <<ledger, rows, rowLock, claimed, req, sale, own, history>>
          \/ /\ sold[r.key] > 0
             /\ Abandon(w)

(* The keys are kept in the process and, while it answers, in Redis.         *)
ForgetClaims ==
    /\ claimed # {} /\ claimed' = {}
    /\ UNCHANGED <<ledger, rows, acct, rowLock, pc, req, sale, own, history>>

-----------------------------------------------------------------------------
(* An opening fill: the ledger first, then the position's birth, unless the  *)
(* instrument has an open row: then the fill leaves the row alone.           *)
Buy(w) ==
    /\ w \in Buyers /\ pc[w] = "idle" /\ acct = Free
    /\ held = 0 => ledgerId < MaxId
    /\ Locked(w)
    /\ sale' = [sale EXCEPT ![w] = Lot]
    /\ Goto(w, "birth")
    /\ UNCHANGED <<ledger, rows, rowLock, claimed, req, own, history>>

Birth(w) ==
    LET i == IF held = 0 THEN ledgerId + 1 ELSE ledgerId
        row == [remaining |-> Lot, stop |-> 1, target1 |-> FALSE,
                lastExit |-> NoKey, events |-> {}]
    IN /\ pc[w] = "birth"
       /\ IF OpenIds(w) # {}
          THEN /\ Goto(w, "commit")
               /\ gaps' = gaps \cup {"opening"}
               /\ UNCHANGED <<ledger, rows, acct, rowLock, claimed, req, sale, own,
                              since, lost>>
          ELSE IF rows[i] # NoRow THEN Abandon(w)
          ELSE /\ own' = [own EXCEPT ![w] = [id |-> i, row |-> row, by |-> "birth"]]
               /\ Goto(w, "commit")
               /\ UNCHANGED <<ledger, rows, acct, rowLock, claimed, req, sale,
                              history>>

-----------------------------------------------------------------------------
(* The request's transaction commits and lets go of its locks.               *)
Commit(w) ==
    /\ pc[w] = "commit"
    /\ pc' = [pc EXCEPT ![w] = "done"]
    /\ held' = held + sale[w]
    /\ ledgerId' = IF held = 0 /\ sale[w] > 0 THEN ledgerId + 1 ELSE ledgerId
    /\ sold' = IF sale[w] < 0 THEN [sold EXCEPT ![req[w].key] = -sale[w]] ELSE sold
    /\ rows' = IF own[w] = NoWrite THEN rows
               ELSE [rows EXCEPT ![own[w].id] = own[w].row]
    /\ since' = IF own[w] = NoWrite THEN since
                ELSE [v \in Workers |->
                         IF v # w /\ req[v].id = own[w].id
                         THEN since[v] \cup {own[w].by} ELSE since[v]]
    /\ LetGo(w)
    /\ own' = [own EXCEPT ![w] = NoWrite]
    /\ sale' = [sale EXCEPT ![w] = 0]
    /\ UNCHANGED <<claimed, req, lost, gaps>>

(* The database ends one of two transactions that wait for each other: one   *)
(* holds the account and waits for the row, the other the row and waits for  *)
(* the account.                                                              *)
WaitsForRow(w) == pc[w] \in {"write", "cas", "claimcas"} /\ ~HoldsRow(w, req[w].id)
WaitsForAccount(w) == pc[w] \in {"trade", "pay"} /\ acct # Free

Deadlocked(v, w) ==
    /\ acct = v /\ WaitsForRow(v)
    /\ WaitsForAccount(w) /\ rowLock[req[v].id] = w

EndDeadlock(w) ==
    /\ \E v \in Workers : Deadlocked(v, w) \/ Deadlocked(w, v)
    /\ Abandon(w)

Init ==
    /\ held = Lot /\ ledgerId = 1
    /\ sold = [k \in Keys |-> 0] /\ claimed = {}
    /\ rows = [i \in Ids |-> IF i = 1 THEN [remaining |-> Lot, stop |-> 1,
                 target1 |-> FALSE, lastExit |-> NoKey, events |-> {}] ELSE NoRow]
    /\ acct = Free /\ rowLock = [i \in Ids |-> Free]
    /\ pc = [w \in Workers |-> "idle"]
    /\ req = [w \in Workers |-> NoReq]
    /\ sale = [w \in Workers |-> 0]
    /\ own = [w \in Workers |-> NoWrite]
    /\ since = [w \in Workers |-> {}]
    /\ lost = {} /\ gaps = {}

Done == (\A w \in Workers : pc[w] = "done") /\ UNCHANGED vars

(* A request arrives.                                                        *)
Begin(w) ==
    \/ \E q \in 1..Lot, mark \in BOOLEAN : StartExit(w, w, q, mark)
    \/ \E s \in Stops, audited \in BOOLEAN : ReadProtect(w, s, audited)
    \/ \E kind \in Kinds : Decide(w, kind)
    \/ Buy(w)

(* What a request does on its own once it has begun.                         *)
Advance(w) ==
    \/ ExitTrade(w) \/ ReadExit(w) \/ WriteExit(w) \/ CasProtect(w)
    \/ ReadClaim(w) \/ CasClaim(w) \/ AutoSell(w) \/ AutoTrade(w)
    \/ Birth(w) \/ Commit(w) \/ EndDeadlock(w)

Next == (\E w \in Workers : Begin(w) \/ Advance(w)) \/ ForgetClaims \/ Done

Spec == Init /\ [][Next]_vars

(* The database grants a lock that is free, and ends a deadlock.             *)
FairSpec == Spec /\ \A w \in Workers : WF_vars(Advance(w))

-----------------------------------------------------------------------------
(* Two closing fills never work from the same document: every loss of a      *)
(* fill is a stop writer's doing.  ExecuteTrade's lock, taken before the row *)
(* is read and kept until the commit, is what orders them.                   *)
ExitsSerialize == <<"exit", "exit">> \notin lost

(* Outside a money transaction the row and the ledger tell of the same       *)
(* shares, unless something of a short list happened: a document was written *)
(* over another's change, an opening fill found the row open, a closing fill *)
(* was larger than what the row had left, the ledger sold another number of  *)
(* shares than the row was told of, or a sale booked before was applied      *)
(* again.                                                                    *)
AgreesUnlessKnown ==
    (acct = Free /\ lost = {} /\ gaps = {}) =>
        IF \E i \in Ids : IsOpen(rows[i])
        THEN \A i \in Ids : IsOpen(rows[i]) => rows[i].remaining = held
        ELSE held = 0

(* A committed stop worsens only by a request with an audited reason, or by  *)
(* a closing fill that wrote back the stop it had read before another moved  *)
(* it (H2; the compare-and-swap covers stop writers only).                   *)
WorsensOnlyAudited ==
    [][\A i \in Ids :
          (rows[i] # NoRow /\ rows'[i] # NoRow /\ rows'[i].stop < rows[i].stop) =>
             \E w \in Workers : /\ pc[w] = "commit" /\ pc'[w] = "done"
                                /\ \/ w \in Protects /\ req[w].mark
                                   \/ own[w].by = "exit" /\ "stop" \in since[w]]_vars

(* Target 1 once executed stays executed (position_state.py: "executed es    *)
(* terminal").                                                               *)
TargetStaysExecuted ==
    [][\A i \in Ids : (rows[i] # NoRow /\ rows[i].target1) => rows'[i].target1]_vars

(* What the closing fills did to a row, fewer shares and target 1 executed,  *)
(* is there for good, unless a stop writer wrote over a closing fill it had  *)
(* not read: with update_state under the account's lock, nothing else undoes *)
(* it (and compare_and_swap_stop does, since it compares the stop alone).    *)
ExitsStick ==
    [][<<"stop", "exit">> \notin lost' =>
         \A i \in Ids : rows[i] # NoRow =>
             /\ rows[i].target1 => rows'[i].target1
             /\ rows'[i].remaining <= rows[i].remaining]_vars

(* Every request that has begun ends, whatever it waits for.                 *)
RequestsEnd == \A w \in Workers : (pc[w] # "idle") ~> (pc[w] = "done")
=============================================================================
