------------------------- MODULE PositionStateProofs -------------------------
(* Proofs about PositionState, for any requests, any lot and any bounds: its *)
(* types, that closing fills serialize, that the row and the ledger tell of  *)
(* the same shares unless a known gap came between, and that a stop worsens  *)
(* only by an audited request or by a closing fill that writes an older stop *)
(* back, and that what fills did is undone only by a stop writer that was    *)
(* late.                                                                     *)
EXTENDS PositionState, TLAPS

(* Who holds the account: a transaction that has changed the ledger, or that *)
(* reads and writes the row for it.                                          *)
AccountHeld ==
    \A w \in Workers :
        /\ pc[w] \in {"persist", "write", "birth"} => acct = w
        /\ sale[w] # 0 => /\ acct = w
                          /\ pc[w] \in {"persist", "write", "birth", "commit"}
        /\ held + sale[w] >= 0
        /\ (pc[w] = "birth" \/ sale[w] > 0) => (held = 0 => ledgerId < MaxId)

(* Where a request stands tells what it carries.                             *)
Places ==
    \A w \in Workers :
        /\ pc[w] = "cas" => /\ w \in Protects
                            /\ req[w].base # NoRow
                            /\ req[w].stop >= req[w].base.stop \/ req[w].mark
        /\ pc[w] = "write" => /\ req[w].base # NoRow
                              /\ req[w].qty <= req[w].base.remaining
        /\ pc[w] = "claimcas" => req[w].base # NoRow
        /\ pc[w] \in {"write", "cas", "claimcas"} =>
              req[w].id \in Ids /\ rows[req[w].id] # NoRow
        /\ pc[w] \in {"trade", "persist", "claim", "claimcas", "sell", "pay",
                      "write", "birth"} => w \notin Protects
        /\ pc[w] \in {"idle", "trade", "cas", "claim", "claimcas", "birth"} =>
              own[w] = NoWrite

(* A row not yet committed: a birth is of a new row, and a change of a row   *)
(* is protected by its lock.                                                 *)
OwnRows ==
    \A w \in Workers : own[w] # NoWrite =>
        /\ own[w].by = "birth" => /\ acct = w /\ pc[w] = "commit"
                                  /\ rows[own[w].id] = NoRow
        /\ own[w].by # "birth" => /\ rows[own[w].id] # NoRow
                                  /\ rowLock[own[w].id] = w
        /\ own[w].by = "exit" => acct = w /\ pc[w] = "commit"

(* The stop a transaction writes is not below the committed one, but for an  *)
(* audited reason or for a stop committed after its read.                    *)
OwnStops ==
    \A w \in Workers :
        /\ (own[w] # NoWrite /\ own[w].by = "stop") =>
              \/ rows[own[w].id].stop <= own[w].row.stop
              \/ w \in Protects /\ req[w].mark /\ pc[w] = "commit"
        /\ (own[w] # NoWrite /\ own[w].by = "exit") =>
              \/ rows[own[w].id].stop <= own[w].row.stop
              \/ "stop" \in since[w]
        /\ pc[w] = "write" =>
              /\ "exit" \notin since[w]
              /\ rows[req[w].id].stop <= req[w].base.stop \/ "stop" \in since[w]

IInv == TypeOK /\ AccountHeld /\ Places /\ OwnRows /\ OwnStops /\ ExitsSerialize

(* The row and the ledger tell of the same shares: the one open row has what *)
(* the ledger holds.                                                         *)
Matched ==
    /\ \A i, j \in Ids : IsOpen(rows[i]) /\ IsOpen(rows[j]) => i = j
    /\ \A i \in Ids : IsOpen(rows[i]) => rows[i].remaining = held
    /\ held # 0 => \E i \in Ids : IsOpen(rows[i])

(* What a request is about to do to the row it is about to do to the ledger. *)
Balanced(w) ==
    /\ pc[w] \in {"write", "cas", "claimcas"} =>
          /\ IsOpen(req[w].base)
          /\ since[w] = {} => rows[req[w].id].remaining = req[w].base.remaining
    /\ pc[w] = "write" => sale[w] = -req[w].qty
    /\ pc[w] = "birth" => sale[w] = Lot
    /\ (pc[w] = "commit" /\ sale[w] # 0) => own[w] # NoWrite /\ own[w].by # "stop"
    /\ (own[w] # NoWrite /\ own[w].by = "stop") =>
          own[w].row.remaining = rows[own[w].id].remaining
    /\ (own[w] # NoWrite /\ own[w].by = "exit") =>
          /\ IsOpen(rows[own[w].id])
          /\ own[w].row.remaining = rows[own[w].id].remaining + sale[w]
    /\ (own[w] # NoWrite /\ own[w].by = "birth") =>
          /\ \A i \in Ids : ~IsOpen(rows[i])
          /\ own[w].row.remaining = Lot /\ sale[w] = Lot

Known == lost # {} \/ gaps # {}

RowIsLedger == Known \/ (Matched /\ \A w \in Workers : Balanced(w))

(* What closing fills did to a row: shares sold, target 1 executed.          *)
SameFills(old, new) == old.target1 = new.target1 /\ old.remaining = new.remaining
KeepsFills(old, new) == (old.target1 => new.target1) /\ new.remaining <= old.remaining

(* What a request writes, or is about to write, undoes none of it, unless a  *)
(* closing fill was committed since it read the row.                         *)
UpToDate(w) ==
    /\ (pc[w] \in {"write", "cas", "claimcas"} /\ "exit" \notin since[w]) =>
          SameFills(rows[req[w].id], req[w].base)
    /\ (own[w] # NoWrite /\ own[w].by = "stop") =>
          SameFills(rows[own[w].id], own[w].row)
    /\ (own[w] # NoWrite /\ own[w].by = "exit") =>
          KeepsFills(rows[own[w].id], own[w].row)

NothingUndone == <<"stop", "exit">> \in lost \/ \A w \in Workers : UpToDate(w)

-----------------------------------------------------------------------------
(* Facts about the operators.                                                *)

\* The open row a transaction works on is one it sees open (get_open_for_instrument).
LEMMA OpenIdIsOpen ==
    ASSUME NEW w \in Workers, OpenIds(w) # {}
    PROVE  OpenId(w) \in Ids /\ IsOpen(Row(w, OpenId(w)))
  <1>1. \E i \in OpenIds(w) : TRUE
    OBVIOUS
  <1>2. OpenId(w) \in OpenIds(w)
    BY <1>1 DEF OpenId
  <1> QED
    BY <1>2 DEF OpenIds

\* A row seen open is a row, of the right type.
LEMMA OpenRowIsRow ==
    ASSUME TypeOK, NEW w \in Workers, NEW i \in Ids, IsOpen(Row(w, i))
    PROVE  Row(w, i) \in Rows /\ Row(w, i) # NoRow /\ Row(w, i).remaining > 0
  <1>1. Row(w, i) \in Rows \cup {NoRow}
    BY DEF TypeOK, Row, Writes
  <1>2. Row(w, i) # NoRow /\ ~Closed(Row(w, i))
    BY DEF IsOpen
  <1>3. Row(w, i) \in Rows
    BY <1>1, <1>2
  <1>4. Row(w, i).remaining \in 0..Lot
    BY <1>3 DEF Rows
  <1> QED
    BY <1>2, <1>3, <1>4, PositionAssumption DEF Closed

\* A fill that is not refused leaves a row of the right type.
LEMMA ReducedIsRow ==
    ASSUME NEW row \in Rows, NEW r \in Reqs, r.qty <= row.remaining
    PROVE  /\ Reduced(row, r) \in Rows
           /\ Reduced(row, r).stop = row.stop
  <1>1. row.remaining - r.qty \in 0..Lot
    BY PositionAssumption DEF Rows, Reqs
  <1>2. (row.target1 \/ r.mark) \in BOOLEAN
    OBVIOUS
  <1>3. r.key \in Keys
    BY DEF Reqs
  <1> QED
    BY <1>1, <1>2, <1>3 DEF Reduced, Rows

\* No transaction has the name of the free lock.
LEMMA FreeIsNobody == Free \notin Workers
  BY PositionAssumption DEF Workers

LEMMA Kinds3 == "STOP" \in Kinds /\ 1 \in Stops /\ NoKey \in Keys /\ NoReq \in Reqs
  BY PositionAssumption DEF Kinds, Stops, Keys, NoReq, Reqs

\* The invariant holds initially.
LEMMA InitIInv == Init => IInv
  <1> SUFFICES ASSUME Init PROVE IInv
    OBVIOUS
  <1>r. [remaining |-> Lot, stop |-> 1, target1 |-> FALSE, lastExit |-> NoKey,
         events |-> {}] \in Rows
    BY PositionAssumption DEF Rows, Keys, Stops
  <1>1. TypeOK
    <2>1. rows \in [Ids -> Rows \cup {NoRow}]
      BY <1>r DEF Init
    <2>2. req \in [Workers -> Reqs]
      BY Kinds3 DEF Init
    <2>3. held \in Nat /\ ledgerId \in Ids /\ sold \in [Keys -> Nat]
      BY PositionAssumption DEF Init, Ids
    <2>4. /\ pc \in [Workers -> Labels] /\ sale \in [Workers -> Int]
          /\ own \in [Workers -> Writes \cup {NoWrite}]
          /\ since \in [Workers -> SUBSET {"exit", "stop", "birth"}]
      BY DEF Init, Labels
    <2>5. /\ acct \in Workers \cup {Free} /\ claimed \subseteq Keys
          /\ rowLock \in [Ids -> Workers \cup {Free}] /\ lost = {} /\ gaps = {}
      BY DEF Init
    <2> QED
      BY <2>1, <2>2, <2>3, <2>4, <2>5 DEF TypeOK
  <1>2. AccountHeld
    BY PositionAssumption DEF Init, AccountHeld
  <1>3. Places /\ OwnRows /\ OwnStops
    BY DEF Init, Places, OwnRows, OwnStops
  <1> QED
    BY <1>1, <1>2, <1>3 DEF IInv, ExitsSerialize, Init

-----------------------------------------------------------------------------
(* Shapes of steps.  Each keeps the invariant, whichever action takes it.    *)

\* A step that moves one request, takes no row, changes no ledger and writes
\* nothing (it may take the account's lock).
LEMMA LocalStep ==
    ASSUME IInv, NEW w \in Workers, NEW label \in Labels, NEW r \in Reqs,
           pc' = [pc EXCEPT ![w] = label], req' = [req EXCEPT ![w] = r],
           UNCHANGED <<held, ledgerId, sold, rows, rowLock, own, sale, since, lost>>,
           claimed' \subseteq Keys,
           gaps' \subseteq {"opening", "refused", "resized", "repeated"},
           acct' = acct \/ (acct = Free /\ acct' = w),
           label \notin {"write", "cas", "claimcas", "birth"},
           label \in {"trade", "claim", "sell", "pay", "persist"} => w \notin Protects,
           label \in {"idle", "trade", "claim"} => own[w] = NoWrite,
           own[w] = NoWrite \/ (own[w].by = "stop" /\ w \notin Protects),
           label = "persist" => acct' = w,
           sale[w] # 0 => label \in {"persist", "commit"}
    PROVE  IInv'
  <1> USE FreeIsNobody DEF IInv
  <1>1. TypeOK'
    BY DEF TypeOK
  <1>2. AccountHeld'
    BY DEF TypeOK, AccountHeld
  <1>3. Places'
    BY DEF TypeOK, Places
  <1>4. OwnRows'
    BY DEF TypeOK, OwnRows, AccountHeld
  <1>5. OwnStops'
    BY DEF TypeOK, OwnStops
  <1> QED
    BY <1>1, <1>2, <1>3, <1>4, <1>5 DEF ExitsSerialize

\* A step that takes the account's lock and changes what is held.
LEMMA TradeStep ==
    ASSUME IInv, NEW w \in Workers, NEW label \in {"persist", "birth"}, NEW r \in Reqs,
           NEW n \in Int, pc[w] \in {"idle", "trade", "pay"},
           pc' = [pc EXCEPT ![w] = label], req' = [req EXCEPT ![w] = r],
           sale' = [sale EXCEPT ![w] = n], acct = Free, acct' = w,
           UNCHANGED <<held, ledgerId, sold, claimed, rows, rowLock, own, since,
                       lost, gaps>>,
           w \notin Protects, label = "birth" => own[w] = NoWrite, held + n >= 0,
           label = "birth" \/ n > 0 => (held = 0 => ledgerId < MaxId)
    PROVE  IInv'
  <1> USE FreeIsNobody DEF IInv
  <1>1. TypeOK'
    BY DEF TypeOK, Labels
  <1>2. AccountHeld'
    BY DEF TypeOK, AccountHeld
  <1>3. Places'
    BY DEF TypeOK, Places
  <1>4. OwnRows'
    BY DEF TypeOK, OwnRows
  <1>5. OwnStops'
    BY DEF TypeOK, OwnStops, OwnRows
  <1> QED
    BY <1>1, <1>2, <1>3, <1>4, <1>5 DEF ExitsSerialize

\* A step that reads the row a request works on.
LEMMA TakeStep ==
    ASSUME IInv, NEW w \in Workers, NEW label \in {"write", "cas", "claimcas"},
           NEW r \in Reqs, OpenIds(w) # {}, pc[w] \in {"idle", "claim", "persist"},
           pc' = [pc EXCEPT ![w] = label], Take(w, r, OpenId(w)),
           UNCHANGED <<held, ledgerId, sold, claimed, rows, rowLock, own, sale, acct>>,
           gaps' \subseteq {"opening", "refused", "resized", "repeated"},
           label = "write" => /\ pc[w] = "persist"
                              /\ r.qty <= Row(w, OpenId(w)).remaining,
           label # "write" => pc[w] # "persist" /\ own[w] = NoWrite,
           label = "claimcas" => w \notin Protects,
           label = "cas" => /\ w \in Protects
                            /\ r.stop >= Row(w, OpenId(w)).stop \/ r.mark
    PROVE  IInv'
  <1> USE FreeIsNobody DEF IInv
  <1> DEFINE i == OpenId(w)
             base == Row(w, i)
  <1>1. i \in Ids /\ base \in Rows /\ base # NoRow
    BY OpenIdIsOpen, OpenRowIsRow
  <1>2. PICK q \in Reqs : /\ req' = [req EXCEPT ![w] = q] /\ q.id = i /\ q.base = base
                          /\ q.qty = r.qty /\ q.stop = r.stop /\ q.mark = r.mark
    <2> DEFINE q == [r EXCEPT !.id = i, !.base = base]
    <2>1. q \in Reqs /\ q.id = i /\ q.base = base
          /\ q.qty = r.qty /\ q.stop = r.stop /\ q.mark = r.mark
      BY <1>1 DEF Reqs
    <2>2. req' = [req EXCEPT ![w] = q]
      BY DEF Take
    <2> QED
      BY <2>1, <2>2
  <1>3. since' = [since EXCEPT ![w] = {}] /\ lost' = lost
    BY DEF Take
  <1>4. rows[i] # NoRow /\ rows[i].stop <= base.stop
    <2>1. CASE own[w] = NoWrite \/ own[w].id # i
      <3>1. base = rows[i]
        BY <2>1 DEF Row
      <3>2. base.stop \in Int
        BY <1>1 DEF Rows, Stops
      <3> QED
        BY <1>1, <3>1, <3>2
    <2>2. CASE own[w] # NoWrite /\ own[w].id = i
      <3>1. base = own[w].row
        BY <2>2 DEF Row
      <3>2. own[w].by = "stop"
        BY <2>2 DEF OwnRows, TypeOK, Writes
      <3> QED
        BY <2>2, <3>1, <3>2 DEF OwnRows, OwnStops
    <2> QED
      BY <2>1, <2>2
  <1> HIDE DEF i, base
  <1>5. TypeOK'
    BY <1>2, <1>3 DEF TypeOK, Labels
  <1>6. AccountHeld'
    BY DEF TypeOK, AccountHeld
  <1>7. Places'
    BY <1>1, <1>2, <1>4 DEF TypeOK, Places, i, base
  <1>8. OwnRows'
    BY <1>3 DEF TypeOK, OwnRows
  <1>9. OwnStops'
    BY <1>2, <1>3, <1>4 DEF TypeOK, OwnStops, OwnRows
  <1> QED
    BY <1>3, <1>5, <1>6, <1>7, <1>8, <1>9 DEF ExitsSerialize

\* The transaction is rolled back.
LEMMA AbandonStep ==
    ASSUME IInv, NEW w \in Workers, Abandon(w)
    PROVE  IInv'
  <1> USE FreeIsNobody DEF IInv
  <1>1. /\ pc' = [pc EXCEPT ![w] = "done"] /\ own' = [own EXCEPT ![w] = NoWrite]
        /\ sale' = [sale EXCEPT ![w] = 0]
        /\ acct' = IF acct = w THEN Free ELSE acct
        /\ rowLock' = [i \in Ids |-> IF rowLock[i] = w THEN Free ELSE rowLock[i]]
        /\ UNCHANGED <<held, ledgerId, sold, rows, claimed, req, since, lost, gaps>>
    BY DEF Abandon, LetGo, ledger, history
  <1>2. TypeOK'
    BY <1>1 DEF TypeOK, Labels
  <1>3. AccountHeld'
    BY <1>1 DEF TypeOK, AccountHeld
  <1>4. Places'
    BY <1>1 DEF TypeOK, Places
  <1>5. OwnRows'
    BY <1>1 DEF TypeOK, OwnRows, Writes
  <1>6. OwnStops'
    BY <1>1 DEF TypeOK, OwnStops
  <1> QED
    BY <1>1, <1>2, <1>3, <1>4, <1>5, <1>6 DEF ExitsSerialize

\* The row is written, from pc "write", "cas" or "claimcas".
LEMMA WriteStep ==
    ASSUME IInv, NEW w \in Workers, NEW label \in {"commit", "sell"},
           NEW row \in Rows, NEW by \in {"exit", "stop"},
           pc[w] \in {"write", "cas", "claimcas"}, pc' = [pc EXCEPT ![w] = label],
           WriteRow(w, req[w].id, row, by), HoldsRow(w, req[w].id),
           UNCHANGED <<held, ledgerId, sold, claimed, rows, req, sale, acct, gaps>>,
           sale[w] # 0 => label = "commit",
           label = "sell" => w \notin Protects,
           by = "exit" => /\ pc[w] = "write" /\ label = "commit"
                          /\ row.stop = req[w].base.stop,
           by = "stop" => \/ rows[req[w].id].stop <= row.stop
                          \/ w \in Protects /\ req[w].mark /\ label = "commit"
    PROVE  IInv'
  <1> USE FreeIsNobody DEF IInv
  <1> DEFINE i == req[w].id
  <1>1. i \in Ids /\ rows[i] # NoRow /\ rowLock[i] \in {Free, w}
    BY DEF Places, HoldsRow
  <1>2. PICK x \in Writes : /\ own' = [own EXCEPT ![w] = x]
                            /\ x.id = i /\ x.row = row /\ x.by = by
    <2> DEFINE x == [id |-> i, row |-> row, by |-> by]
    <2>1. x \in Writes /\ x.id = i /\ x.row = row /\ x.by = by
      BY <1>1 DEF Writes
    <2>2. own' = [own EXCEPT ![w] = x]
      BY DEF WriteRow
    <2> QED
      BY <2>1, <2>2
  <1>3. /\ rowLock' = [rowLock EXCEPT ![i] = w] /\ since' = since
        /\ lost' = lost \cup ({by} \X since[w])
    BY DEF WriteRow
  <1> HIDE DEF i
  <1>4. TypeOK'
    <2>1. lost' \subseteq ({"exit", "stop"} \X {"exit", "stop", "birth"})
      BY <1>3 DEF TypeOK
    <2> QED
      BY <1>1, <1>2, <1>3, <2>1 DEF TypeOK, Labels
  <1>5. AccountHeld'
    BY DEF TypeOK, AccountHeld
  <1>6. Places'
    BY <1>2 DEF TypeOK, Places
  <1>7. OwnRows'
    <2> SUFFICES ASSUME NEW v \in Workers, own'[v] # NoWrite
                 PROVE  /\ own'[v].by = "birth" => /\ acct' = v /\ pc'[v] = "commit"
                                                   /\ rows'[own'[v].id] = NoRow
                        /\ own'[v].by # "birth" => /\ rows'[own'[v].id] # NoRow
                                                   /\ rowLock'[own'[v].id] = v
                        /\ own'[v].by = "exit" => acct' = v /\ pc'[v] = "commit"
      BY DEF OwnRows
    <2>1. CASE v = w
      BY <1>1, <1>2, <1>3, <2>1 DEF TypeOK, AccountHeld
    <2>2. CASE v # w
      <3>1. own[v] # NoWrite /\ own'[v] = own[v] /\ own[v].id \in Ids
        BY <1>2, <2>2 DEF TypeOK, Writes
      <3> QED
        BY <1>1, <1>3, <2>2, <3>1 DEF TypeOK, OwnRows
    <2> QED
      BY <2>1, <2>2
  <1>8. OwnStops'
    BY <1>1, <1>2, <1>3 DEF TypeOK, OwnStops, i
  <1>9. ExitsSerialize'
    BY <1>3 DEF ExitsSerialize, OwnStops
  <1> QED
    BY <1>4, <1>5, <1>6, <1>7, <1>8, <1>9

\* A birth is written.
LEMMA BirthStep ==
    ASSUME IInv, NEW w \in Workers, pc[w] = "birth", Birth(w)
    PROVE  IInv'
  <1> USE FreeIsNobody DEF IInv
  <1> DEFINE i == IF held = 0 THEN ledgerId + 1 ELSE ledgerId
             row == [remaining |-> Lot, stop |-> 1, target1 |-> FALSE,
                     lastExit |-> NoKey, events |-> {}]
  <1>1. i \in Ids /\ row \in Rows
    BY PositionAssumption, Kinds3 DEF TypeOK, AccountHeld, Ids, Rows
  <1>2. CASE OpenIds(w) # {}
    <2>1. /\ pc' = [pc EXCEPT ![w] = "commit"] /\ req' = [req EXCEPT ![w] = req[w]]
          /\ gaps' = gaps \cup {"opening"}
          /\ UNCHANGED <<held, ledgerId, sold, rows, acct, rowLock, claimed, own,
                         sale, since, lost>>
      BY <1>2 DEF Birth, Goto, ledger, TypeOK
    <2>2. own[w] = NoWrite /\ req[w] \in Reqs /\ "commit" \in Labels
      BY DEF Places, TypeOK, Labels
    <2> QED
      BY <2>1, <2>2, LocalStep DEF TypeOK
  <1>3. CASE OpenIds(w) = {} /\ rows[i] # NoRow
    BY <1>3, AbandonStep DEF Birth
  <1>4. CASE OpenIds(w) = {} /\ rows[i] = NoRow
    <2> DEFINE x == [id |-> i, row |-> row, by |-> "birth"]
    <2>1. x \in Writes /\ x.id = i /\ x.row = row /\ x.by = "birth"
      BY <1>1 DEF Writes
    <2>2. /\ own' = [own EXCEPT ![w] = x] /\ pc' = [pc EXCEPT ![w] = "commit"]
          /\ UNCHANGED <<held, ledgerId, sold, rows, acct, rowLock, claimed, req,
                         sale, since, lost, gaps>>
      BY <1>4 DEF Birth, Goto, ledger, history
    <2>3. acct = w
      BY DEF AccountHeld
    <2> HIDE DEF x, i, row
    <2>4. TypeOK'
      BY <2>1, <2>2 DEF TypeOK, Labels
    <2>5. AccountHeld'
      BY <2>2 DEF TypeOK, AccountHeld
    <2>6. Places'
      BY <2>1, <2>2 DEF TypeOK, Places
    <2>7. OwnRows'
      BY <1>4, <2>1, <2>2, <2>3 DEF TypeOK, OwnRows
    <2>8. OwnStops'
      BY <2>1, <2>2 DEF TypeOK, OwnStops
    <2> QED
      BY <2>2, <2>4, <2>5, <2>6, <2>7, <2>8 DEF ExitsSerialize
  <1> QED
    BY <1>2, <1>3, <1>4

\* A transaction commits.
LEMMA CommitStep ==
    ASSUME IInv, NEW w \in Workers, Commit(w)
    PROVE  IInv'
  <1> USE FreeIsNobody DEF IInv
  <1>1. /\ pc[w] = "commit" /\ pc' = [pc EXCEPT ![w] = "done"]
        /\ own' = [own EXCEPT ![w] = NoWrite]
        /\ sale' = [sale EXCEPT ![w] = 0]
        /\ acct' = IF acct = w THEN Free ELSE acct
        /\ rowLock' = [i \in Ids |-> IF rowLock[i] = w THEN Free ELSE rowLock[i]]
        /\ UNCHANGED <<claimed, req, lost, gaps>>
    BY DEF Commit, LetGo
  <1>2. /\ held' = held + sale[w]
        /\ ledgerId' = IF held = 0 /\ sale[w] > 0 THEN ledgerId + 1 ELSE ledgerId
    BY DEF Commit
  <1>3. \A v \in Workers : v # w /\ acct = v => acct # w
    OBVIOUS
  <1>4. sold' \in [Keys -> Nat]
    BY DEF Commit, TypeOK, Reqs
  <1>5. CASE own[w] = NoWrite
    <2>1. rows' = rows /\ since' = since
      BY <1>5 DEF Commit
    <2>2. TypeOK'
      <3>1. held' \in Nat /\ ledgerId' \in Ids
        BY <1>2, PositionAssumption DEF TypeOK, AccountHeld, Ids
      <3> QED
        BY <1>1, <1>4, <2>1, <3>1 DEF TypeOK, Labels
    <2>3. AccountHeld'
      BY <1>1, <1>2, <2>1 DEF TypeOK, AccountHeld, Ids
    <2>4. Places'
      BY <1>1, <2>1 DEF TypeOK, Places
    <2>5. OwnRows' 
      BY <1>1, <2>1 DEF TypeOK, OwnRows, Writes
    <2>6. OwnStops'
      BY <1>1, <2>1 DEF TypeOK, OwnStops
    <2> QED
      BY <1>1, <2>2, <2>3, <2>4, <2>5, <2>6 DEF ExitsSerialize
  <1>6. CASE own[w] # NoWrite
    <2> DEFINE i == own[w].id
               row == own[w].row
               by == own[w].by
    <2>1. i \in Ids /\ row \in Rows /\ row # NoRow /\ by \in {"exit", "stop", "birth"}
      BY <1>6, RowAssumption DEF TypeOK, Writes
    <2>2. /\ rows' = [rows EXCEPT ![i] = row]
          /\ since' = [v \in Workers |-> IF v # w /\ req[v].id = i
                                         THEN since[v] \cup {by} ELSE since[v]]
      BY <1>6 DEF Commit
    <2>3. by # "stop" => acct = w
      BY <1>6, <2>1 DEF OwnRows
    <2>4. by # "birth" => rows[i] # NoRow /\ rowLock[i] = w
      BY <1>6 DEF OwnRows
    <2>5. by = "birth" => rows[i] = NoRow
      BY <1>6 DEF OwnRows
    <2> HIDE DEF i, row, by
    <2>6. TypeOK'
      <3>1. since' \in [Workers -> SUBSET {"exit", "stop", "birth"}]
        BY <2>1, <2>2 DEF TypeOK
      <3>2. held' \in Nat /\ ledgerId' \in Ids
        BY <1>2, PositionAssumption DEF TypeOK, AccountHeld, Ids
      <3> QED
        BY <1>1, <1>4, <2>1, <2>2, <3>1, <3>2 DEF TypeOK, Labels
    <2>7. AccountHeld'
      BY <1>1, <1>2, <2>2 DEF TypeOK, AccountHeld, Ids
    <2>8. Places'
      BY <1>1, <2>1, <2>2 DEF TypeOK, Places
    <2>9. OwnRows'
      <3> SUFFICES ASSUME NEW v \in Workers, own'[v] # NoWrite
                   PROVE  /\ own'[v].by = "birth" => /\ acct' = v /\ pc'[v] = "commit"
                                                     /\ rows'[own'[v].id] = NoRow
                          /\ own'[v].by # "birth" => /\ rows'[own'[v].id] # NoRow
                                                     /\ rowLock'[own'[v].id] = v
                          /\ own'[v].by = "exit" => acct' = v /\ pc'[v] = "commit"
        BY DEF OwnRows
      <3>1. v # w /\ own'[v] = own[v] /\ own[v] # NoWrite /\ own[v].id \in Ids
        BY <1>1 DEF TypeOK, Writes
      <3>2. own[v].by = "birth" => own[v].id # i
        BY <2>1, <2>3, <2>4, <3>1 DEF OwnRows
      <3> QED
        BY <1>1, <2>1, <2>2, <3>1, <3>2 DEF TypeOK, OwnRows
    <2>10. OwnStops'
      <3> SUFFICES ASSUME NEW v \in Workers
                   PROVE
                   /\ (own'[v] # NoWrite /\ own'[v].by = "stop") =>
                         \/ rows'[own'[v].id].stop <= own'[v].row.stop
                         \/ v \in Protects /\ req'[v].mark /\ pc'[v] = "commit"
                   /\ (own'[v] # NoWrite /\ own'[v].by = "exit") =>
                         \/ rows'[own'[v].id].stop <= own'[v].row.stop
                         \/ "stop" \in since'[v]
                   /\ pc'[v] = "write" =>
                         /\ "exit" \notin since'[v]
                         /\ \/ rows'[req'[v].id].stop <= req'[v].base.stop
                            \/ "stop" \in since'[v]
        BY DEF OwnStops
      <3>1. CASE v = w
        BY <1>1, <3>1 DEF TypeOK
      <3>2. CASE v # w
        <4>1. own'[v] = own[v] /\ pc'[v] = pc[v] /\ req'[v] = req[v]
          BY <1>1, <3>2 DEF TypeOK
        <4>2. own[v] # NoWrite => own[v].id # i
          BY <2>1, <2>3, <2>4, <2>5, <3>2 DEF OwnRows, TypeOK, Writes
        <4>3. since[v] \subseteq since'[v] /\ (req[v].id # i => since'[v] = since[v])
          BY <2>2, <3>2
        <4>4. pc[v] = "write" => by = "stop"
          BY <2>1, <2>3, <3>2 DEF AccountHeld
        <4>5. req[v].id = i => by \in since'[v] /\ since'[v] = since[v] \cup {by}
          BY <2>2, <3>2
        <4>6. own[v] # NoWrite => rows'[own[v].id] = rows[own[v].id]
          BY <2>1, <2>2, <4>2 DEF TypeOK
        <4>7. req[v].id # i => rows'[req[v].id] = rows[req[v].id]
          BY <2>2 DEF TypeOK
        <4>8. pc[v] = "write" => /\ "exit" \notin since'[v]
                                 /\ \/ rows'[req[v].id].stop <= req[v].base.stop
                                    \/ "stop" \in since'[v]
          BY <4>3, <4>4, <4>5, <4>7 DEF OwnStops
        <4> QED
          BY <4>1, <4>3, <4>6, <4>8 DEF OwnStops
      <3> QED
        BY <3>1, <3>2
    <2> QED
      BY <1>1, <2>6, <2>7, <2>8, <2>9, <2>10 DEF ExitsSerialize
  <1> QED
    BY <1>5, <1>6

-----------------------------------------------------------------------------
(* The actions.                                                              *)

\* A request that ends with nothing written keeps the invariant.
LEMMA FinishStep ==
    ASSUME IInv, NEW w \in Workers, Finish(w), own[w] = NoWrite, sale[w] = 0
    PROVE  IInv'
  <1>1. /\ pc' = [pc EXCEPT ![w] = "done"] /\ req' = [req EXCEPT ![w] = req[w]]
        /\ UNCHANGED <<held, ledgerId, sold, rows, acct, rowLock, claimed, own, sale,
                       since, lost, gaps>>
    BY DEF Finish, Goto, ledger, history, IInv, TypeOK
  <1>2. req[w] \in Reqs /\ "done" \in Labels
    BY DEF IInv, TypeOK, Labels
  <1> QED
    BY <1>1, <1>2, LocalStep DEF IInv, TypeOK

\* A request at rest, or not past its trade, has changed nothing.
LEMMA NothingYet ==
    ASSUME IInv, NEW w \in Workers,
           pc[w] \in {"idle", "trade", "cas", "claim", "claimcas"}
    PROVE  own[w] = NoWrite /\ sale[w] = 0
  BY DEF IInv, AccountHeld, Places

\* A closing fill looks up its key and begins.
LEMMA StartExitStep ==
    ASSUME IInv, NEW w \in Workers, NEW q \in Nat, NEW mark \in BOOLEAN,
           StartExit(w, w, q, mark)
    PROVE  IInv'
  <1>1. w \in Exits /\ pc[w] = "idle" /\ own[w] = NoWrite /\ sale[w] = 0
    BY NothingYet DEF StartExit
  <1>2. CASE sold[w] > 0
    BY <1>1, <1>2, FinishStep DEF StartExit
  <1>3. CASE ~(sold[w] > 0)
    <2> DEFINE r == [NoReq EXCEPT !.key = w, !.qty = q, !.mark = mark]
    <2>1. r \in Reqs
      BY <1>1, Kinds3 DEF Reqs, Keys
    <2>2. /\ req' = [req EXCEPT ![w] = r] /\ pc' = [pc EXCEPT ![w] = "trade"]
          /\ UNCHANGED <<held, ledgerId, sold, rows, acct, rowLock, claimed, own,
                         sale, since, lost, gaps>>
      BY <1>3 DEF StartExit, Goto, ledger, history
    <2>3. w \notin Protects
      BY <1>1, PositionAssumption
    <2>4. "trade" \in Labels
      BY DEF Labels
    <2> QED
      BY <1>1, <2>1, <2>2, <2>3, <2>4, LocalStep DEF IInv, TypeOK
  <1> QED
    BY <1>2, <1>3

\* A closing fill sells under the account's lock.
LEMMA ExitTradeStep ==
    ASSUME IInv, NEW w \in Workers, ExitTrade(w)
    PROVE  IInv'
  <1> DEFINE r == req[w]
             refused == IF sold[r.key] > 0 THEN sold[r.key] # r.qty ELSE held < r.qty
  <1>1. /\ pc[w] = "trade" /\ acct = Free /\ own[w] = NoWrite /\ sale[w] = 0
        /\ w \notin Protects /\ r \in Reqs /\ r.qty \in Nat
        /\ held \in Nat /\ sold[r.key] \in Nat
    BY NothingYet DEF ExitTrade, IInv, Places, TypeOK, Reqs
  <1>2. CASE refused
    BY <1>1, <1>2, FinishStep DEF ExitTrade
  <1>3. CASE ~refused
    <2> DEFINE n == IF sold[r.key] > 0 THEN 0 ELSE -r.qty
    <2>1. /\ pc' = [pc EXCEPT ![w] = "persist"] /\ req' = [req EXCEPT ![w] = r]
          /\ sale' = [sale EXCEPT ![w] = n] /\ acct' = w
          /\ UNCHANGED <<held, ledgerId, sold, claimed, rows, rowLock, own, since,
                         lost, gaps>>
      BY <1>3 DEF ExitTrade, Goto, Locked, ledger, history, IInv, TypeOK
    <2>2. n \in Int /\ held + n >= 0 /\ ~(n > 0)
      BY <1>1, <1>3
    <2> HIDE DEF n, refused
    <2> QED
      BY <1>1, <2>1, <2>2, TradeStep
  <1> QED
    BY <1>2, <1>3

\* A closing fill reads the open row.
LEMMA ReadExitStep ==
    ASSUME IInv, NEW w \in Workers, ReadExit(w)
    PROVE  IInv'
  <1>1. /\ pc[w] = "persist" /\ acct = w /\ w \notin Protects
        /\ own[w] = NoWrite \/ own[w].by = "stop"
    BY DEF ReadExit, IInv, AccountHeld, Places, OwnRows, TypeOK, Writes
  <1>2. /\ req[w] \in Reqs /\ gaps' \subseteq {"opening", "refused", "resized", "repeated"}
    BY DEF ReadExit, Take, IInv, TypeOK
  <1>3. CASE OpenIds(w) = {} \/ Unfit(Row(w, OpenId(w)), req[w])
    <2>1. /\ pc' = [pc EXCEPT ![w] = "commit"] /\ req' = [req EXCEPT ![w] = req[w]]
          /\ UNCHANGED <<held, ledgerId, sold, rows, acct, rowLock, claimed, own,
                         sale, since, lost>>
      BY <1>3 DEF ReadExit, Goto, ledger, IInv, TypeOK
    <2>2. "commit" \in Labels
      BY DEF Labels
    <2> QED
      BY <1>1, <1>2, <2>1, <2>2, LocalStep DEF IInv, TypeOK
  <1>4. CASE OpenIds(w) # {} /\ ~Unfit(Row(w, OpenId(w)), req[w])
    <2>1. /\ pc' = [pc EXCEPT ![w] = "write"] /\ Take(w, req[w], OpenId(w))
          /\ UNCHANGED <<held, ledgerId, sold, rows, acct, rowLock, claimed, own, sale>>
      BY <1>4 DEF ReadExit, Goto, ledger
    <2>2. Row(w, OpenId(w)) \in Rows
      BY <1>4, OpenIdIsOpen, OpenRowIsRow DEF IInv
    <2>3. req[w].qty <= Row(w, OpenId(w)).remaining
      BY <1>2, <1>4, <2>2, PositionAssumption DEF Unfit, Rows, Reqs
    <2> QED
      BY <1>1, <1>2, <1>4, <2>1, <2>3, TakeStep
  <1> QED
    BY <1>3, <1>4

\* A closing fill writes the row back.
LEMMA WriteExitStep ==
    ASSUME IInv, NEW w \in Workers, WriteExit(w)
    PROVE  IInv'
  <1> DEFINE i == req[w].id
             row == Reduced(req[w].base, req[w])
  <1>1. pc[w] = "write" /\ MayWrite(w, i)
    BY DEF WriteExit
  <1>2. CASE Collides(w, i, row)
    BY <1>2, AbandonStep DEF WriteExit
  <1>3. CASE ~Collides(w, i, row)
    <2>1. /\ WriteRow(w, i, row, "exit") /\ pc' = [pc EXCEPT ![w] = "commit"]
          /\ UNCHANGED <<held, ledgerId, sold, rows, acct, claimed, req, sale, gaps>>
      BY <1>3 DEF WriteExit, Goto, ledger
    <2>2. req[w] \in Reqs /\ req[w].base \in Rows
      BY <1>1 DEF IInv, Places, TypeOK, Reqs
    <2>3. row \in Rows /\ row.stop = req[w].base.stop
      BY <1>1, <2>2, ReducedIsRow DEF IInv, Places
    <2> HIDE DEF row
    <2> QED
      BY <1>1, <2>1, <2>3, WriteStep DEF MayWrite
  <1> QED
    BY <1>2, <1>3

\* A protect reads the open row.
LEMMA ReadProtectStep ==
    ASSUME IInv, NEW w \in Workers, NEW s \in Stops, NEW audited \in BOOLEAN,
           ReadProtect(w, s, audited)
    PROVE  IInv'
  <1>1. pc[w] = "idle" /\ w \in Protects /\ own[w] = NoWrite /\ sale[w] = 0
    BY NothingYet DEF ReadProtect
  <1>2. CASE OpenIds(w) = {} \/ (s < Row(w, OpenId(w)).stop /\ ~audited)
    BY <1>1, <1>2, FinishStep DEF ReadProtect
  <1>3. CASE OpenIds(w) # {} /\ ~(s < Row(w, OpenId(w)).stop /\ ~audited)
    <2> DEFINE r == [NoReq EXCEPT !.stop = s, !.mark = audited]
    <2>1. r \in Reqs /\ r.stop = s /\ r.mark = audited
      BY Kinds3 DEF Reqs
    <2>2. /\ pc' = [pc EXCEPT ![w] = "cas"] /\ Take(w, r, OpenId(w))
          /\ UNCHANGED <<held, ledgerId, sold, rows, acct, rowLock, claimed, own,
                         sale, gaps>>
      BY <1>3 DEF ReadProtect, Goto, ledger
    <2>3. Row(w, OpenId(w)) \in Rows
      BY <1>3, OpenIdIsOpen, OpenRowIsRow DEF IInv
    <2>4. s >= Row(w, OpenId(w)).stop \/ audited
      BY <1>3, <2>3 DEF Rows, Stops
    <2> HIDE DEF r
    <2> QED
      BY <1>1, <1>3, <2>1, <2>2, <2>4, TakeStep DEF IInv, TypeOK
  <1> QED
    BY <1>2, <1>3

\* A protect compares and swaps the stop.
LEMMA CasProtectStep ==
    ASSUME IInv, NEW w \in Workers, CasProtect(w)
    PROVE  IInv'
  <1> DEFINE i == req[w].id
             row == [req[w].base EXCEPT !.stop = req[w].stop,
                                        !.events = @ \cup {"PROTECT"}]
  <1>1. /\ pc[w] = "cas" /\ MayWrite(w, i) /\ w \in Protects
        /\ own[w] = NoWrite /\ sale[w] = 0
    BY NothingYet DEF CasProtect, IInv, Places
  <1>2. CASE StopMoved(w, i) \/ Collides(w, i, row)
    BY <1>2, AbandonStep DEF CasProtect
  <1>3. CASE ~StopMoved(w, i) /\ ~Collides(w, i, row)
    <2>1. /\ WriteRow(w, i, row, "stop") /\ pc' = [pc EXCEPT ![w] = "commit"]
          /\ UNCHANGED <<held, ledgerId, sold, rows, acct, claimed, req, sale, gaps>>
      BY <1>3 DEF CasProtect, Goto, ledger
    <2>2. req[w] \in Reqs /\ req[w].base \in Rows
      BY <1>1 DEF IInv, Places, TypeOK, Reqs
    <2>3. row \in Rows /\ row.stop = req[w].stop
      BY <2>2 DEF Rows, Reqs
    <2>4. rows[i].stop <= row.stop \/ req[w].mark
      <3>1. rows[i].stop = req[w].base.stop
        BY <1>3 DEF StopMoved
      <3> QED
        BY <1>1, <2>3, <3>1 DEF IInv, Places
    <2> HIDE DEF row
    <2> QED
      BY <1>1, <2>1, <2>3, <2>4, WriteStep DEF MayWrite
  <1> QED
    BY <1>2, <1>3

\* The position policy decides.
LEMMA DecideStep ==
    ASSUME IInv, NEW w \in Workers, NEW kind \in Kinds, Decide(w, kind)
    PROVE  IInv'
  <1>1. pc[w] = "idle" /\ w \in Autos /\ own[w] = NoWrite /\ sale[w] = 0
    BY NothingYet DEF Decide
  <1>2. CASE OpenIds(w) = {}
    BY <1>1, <1>2, FinishStep DEF Decide
  <1>3. CASE OpenIds(w) # {}
    <2> DEFINE row == Row(w, OpenId(w))
               r == [NoReq EXCEPT !.kind = kind, !.mark = (kind = "TARGET_1"),
                                  !.qty = IF kind = "STOP" THEN row.remaining ELSE 1]
    <2>1. row.remaining \in Nat
      BY <1>3, OpenIdIsOpen, OpenRowIsRow, PositionAssumption DEF IInv, Rows
    <2>2. r \in Reqs
      <3>1. (kind = "TARGET_1") \in BOOLEAN
        OBVIOUS
      <3>2. (IF kind = "STOP" THEN row.remaining ELSE 1) \in Nat
        BY <2>1
      <3> QED
        BY <3>1, <3>2, Kinds3 DEF Reqs
    <2>3. /\ req' = [req EXCEPT ![w] = r] /\ pc' = [pc EXCEPT ![w] = "claim"]
          /\ UNCHANGED <<held, ledgerId, sold, rows, acct, rowLock, claimed, own,
                         sale, since, lost, gaps>>
      BY <1>3 DEF Decide, Goto, ledger, history
    <2>4. w \notin Protects
      BY <1>1, PositionAssumption
    <2>5. "claim" \in Labels
      BY DEF Labels
    <2> HIDE DEF r
    <2> QED
      BY <1>1, <2>2, <2>3, <2>4, <2>5, LocalStep DEF IInv, TypeOK
  <1> QED
    BY <1>2, <1>3

\* A claim reads the row again.
LEMMA ReadClaimStep ==
    ASSUME IInv, NEW w \in Workers, ReadClaim(w)
    PROVE  IInv'
  <1>1. pc[w] = "claim" /\ w \notin Protects /\ own[w] = NoWrite /\ sale[w] = 0
    BY NothingYet DEF ReadClaim, IInv, Places
  <1>2. CASE OpenIds(w) = {}
    BY <1>1, <1>2, FinishStep DEF ReadClaim
  <1>3. CASE OpenIds(w) # {}
    <2> DEFINE r == [req[w] EXCEPT !.key = <<OpenId(w), req[w].kind>>]
    <2>1. OpenId(w) \in Ids
      BY <1>3, OpenIdIsOpen
    <2>2. r \in Reqs
      <3>1. req[w] \in Reqs
        BY DEF IInv, TypeOK
      <3>2. <<OpenId(w), req[w].kind>> \in Keys
        BY <2>1, <3>1 DEF Reqs, Keys
      <3> QED
        BY <3>1, <3>2 DEF Reqs
    <2>3. /\ pc' = [pc EXCEPT ![w] = "claimcas"] /\ Take(w, r, OpenId(w))
          /\ UNCHANGED <<held, ledgerId, sold, rows, acct, rowLock, claimed, own,
                         sale, gaps>>
      BY <1>3 DEF ReadClaim, Goto, ledger
    <2> HIDE DEF r
    <2> QED
      BY <1>1, <1>3, <2>2, <2>3, TakeStep DEF IInv, TypeOK
  <1> QED
    BY <1>2, <1>3

\* A claim compares and swaps the stop, or goes on with another's event.
LEMMA CasClaimStep ==
    ASSUME IInv, NEW w \in Workers, CasClaim(w)
    PROVE  IInv'
  <1> DEFINE i == req[w].id
             row == [req[w].base EXCEPT !.events = @ \cup {req[w].kind}]
  <1>1. /\ pc[w] = "claimcas" /\ MayWrite(w, i) /\ w \notin Protects
        /\ own[w] = NoWrite /\ sale[w] = 0 /\ i \in Ids
    BY NothingYet DEF CasClaim, IInv, Places
  <1>2. CASE StopMoved(w, i) /\ IsOpen(rows[i]) /\ req[w].kind \in rows[i].events
    <2>1. /\ rowLock' = [rowLock EXCEPT ![i] = w] /\ pc' = [pc EXCEPT ![w] = "sell"]
          /\ UNCHANGED <<held, ledgerId, sold, rows, acct, claimed, req, own, sale,
                         since, lost, gaps>>
      BY <1>2 DEF CasClaim, Goto, ledger, history
    <2>2. rowLock[i] \in {Free, w}
      BY <1>1 DEF MayWrite, HoldsRow
    <2> USE FreeIsNobody DEF IInv
    <2>3. TypeOK'
      BY <1>1, <2>1 DEF TypeOK, Labels
    <2>4. AccountHeld'
      BY <1>1, <2>1 DEF TypeOK, AccountHeld
    <2>5. Places'
      BY <1>1, <2>1 DEF TypeOK, Places
    <2>6. OwnRows'
      BY <1>1, <2>1, <2>2 DEF TypeOK, OwnRows, Writes
    <2>7. OwnStops'
      BY <1>1, <2>1 DEF TypeOK, OwnStops
    <2> QED
      BY <2>1, <2>3, <2>4, <2>5, <2>6, <2>7 DEF ExitsSerialize
  <1>3. CASE \/ StopMoved(w, i) /\ ~(IsOpen(rows[i]) /\ req[w].kind \in rows[i].events)
             \/ ~StopMoved(w, i) /\ Collides(w, i, row)
    BY <1>3, AbandonStep DEF CasClaim
  <1>4. CASE ~StopMoved(w, i) /\ ~Collides(w, i, row)
    <2>1. /\ WriteRow(w, i, row, "stop") /\ pc' = [pc EXCEPT ![w] = "sell"]
          /\ UNCHANGED <<held, ledgerId, sold, rows, acct, claimed, req, sale, gaps>>
      BY <1>4 DEF CasClaim, Goto, ledger
    <2>2. req[w] \in Reqs /\ req[w].base \in Rows
      BY <1>1 DEF IInv, Places, TypeOK, Reqs
    <2>3. row \in Rows /\ row.stop = req[w].base.stop /\ row.stop \in Int
      BY <2>2 DEF Rows, Reqs, Stops
    <2>4. rows[i].stop <= row.stop
      BY <1>4, <2>3 DEF StopMoved
    <2> HIDE DEF row
    <2> QED
      BY <1>1, <2>1, <2>3, <2>4, WriteStep DEF MayWrite
  <1> QED
    BY <1>2, <1>3, <1>4

\* The router sizes an automatic sale.
LEMMA AutoSellStep ==
    ASSUME IInv, NEW w \in Workers, AutoSell(w)
    PROVE  IInv'
  <1> DEFINE r == [req[w] EXCEPT !.sell =
                      IF req[w].kind = "STOP" \/ held < req[w].qty THEN held ELSE req[w].qty]
  <1>1. /\ pc[w] = "sell" /\ w \notin Protects /\ sale[w] = 0
        /\ own[w] = NoWrite \/ own[w].by = "stop"
    BY DEF AutoSell, IInv, Places, AccountHeld, OwnRows, TypeOK, Writes
  <1>2. PICK label \in {"commit", "pay"}, q \in {req[w], r} :
           /\ pc' = [pc EXCEPT ![w] = label] /\ req' = [req EXCEPT ![w] = q]
           /\ claimed' \subseteq claimed \cup {req[w].key}
    BY DEF AutoSell, Goto, IInv, TypeOK
  <1>3. UNCHANGED <<held, ledgerId, sold, rows, acct, rowLock, own, sale, since, lost, gaps>>
    BY DEF AutoSell, ledger, history
  <1>4. req[w] \in Reqs /\ held \in Nat
    BY DEF IInv, TypeOK
  <1>5. r \in Reqs
    BY <1>4 DEF Reqs
  <1>6. req[w].key \in Keys
    BY <1>4 DEF Reqs
  <1>7. "commit" \in Labels /\ "pay" \in Labels
    BY DEF Labels
  <1> HIDE DEF r
  <1> QED
    BY <1>1, <1>2, <1>3, <1>4, <1>5, <1>6, <1>7, LocalStep DEF IInv, TypeOK

\* An automatic sale is executed, answered again or refused.
LEMMA AutoTradeStep ==
    ASSUME IInv, NEW w \in Workers, AutoTrade(w)
    PROVE  IInv'
  <1> DEFINE r == req[w]
  <1>1. /\ pc[w] = "pay" /\ w \notin Protects /\ sale[w] = 0 /\ acct = Free
        /\ own[w] = NoWrite \/ own[w].by = "stop"
    BY DEF AutoTrade, IInv, Places, AccountHeld, OwnRows, TypeOK, Writes
  <1>2. r \in Reqs /\ r.sell \in Nat /\ held \in Nat
    BY DEF IInv, TypeOK, Reqs
  <1>3. CASE \E label \in {"commit", "persist"} :
                /\ pc' = [pc EXCEPT ![w] = label] /\ req' = [req EXCEPT ![w] = r]
                /\ claimed' \subseteq claimed /\ acct' = w
                /\ UNCHANGED <<held, ledgerId, sold, rows, rowLock, own, sale, since,
                               lost, gaps>>
    <2>1. "commit" \in Labels /\ "persist" \in Labels
      BY DEF Labels
    <2>2. PICK label \in {"commit", "persist"} :
                /\ pc' = [pc EXCEPT ![w] = label] /\ req' = [req EXCEPT ![w] = r]
                /\ claimed' \subseteq claimed /\ acct' = w
                /\ UNCHANGED <<held, ledgerId, sold, rows, rowLock, own, sale, since,
                               lost, gaps>>
      BY <1>3
    <2>3. claimed' \subseteq Keys /\ gaps' \subseteq {"opening", "refused", "resized", "repeated"}
      BY <2>2 DEF IInv, TypeOK
    <2>4. label \in Labels
      BY <2>1
    <2> HIDE DEF r
    <2> QED
      BY <1>1, <1>2, <2>2, <2>3, <2>4, LocalStep
  <1>4. CASE /\ pc' = [pc EXCEPT ![w] = "persist"] /\ req' = [req EXCEPT ![w] = r]
             /\ sale' = [sale EXCEPT ![w] = -r.sell] /\ acct' = w
             /\ held >= r.sell
             /\ UNCHANGED <<held, ledgerId, sold, claimed, rows, rowLock, own, since,
                            lost, gaps>>
    <2> DEFINE n == -r.sell
    <2>1. n \in Int /\ held + n >= 0 /\ ~(n > 0)
      BY <1>2, <1>4
    <2> HIDE DEF n
    <2> QED
      BY <1>1, <1>2, <1>4, <2>1, TradeStep DEF n
  <1>5. CASE Abandon(w)
    BY <1>5, AbandonStep
  <1> QED
    BY <1>3, <1>4, <1>5 DEF AutoTrade, Goto, Locked, ledger, history, IInv, TypeOK

\* An opening fill buys.
LEMMA BuyStep ==
    ASSUME IInv, NEW w \in Workers, Buy(w)
    PROVE  IInv'
  <1>1. /\ pc[w] = "idle" /\ w \in Buyers /\ own[w] = NoWrite /\ acct = Free
        /\ held = 0 => ledgerId < MaxId
    BY NothingYet DEF Buy
  <1>2. w \notin Protects
    BY <1>1, PositionAssumption
  <1>3. /\ pc' = [pc EXCEPT ![w] = "birth"] /\ req' = [req EXCEPT ![w] = req[w]]
        /\ sale' = [sale EXCEPT ![w] = Lot] /\ acct' = w
        /\ UNCHANGED <<held, ledgerId, sold, claimed, rows, rowLock, own, since,
                       lost, gaps>>
    BY DEF Buy, Goto, Locked, ledger, history, IInv, TypeOK
  <1>4. Lot \in Int /\ held + Lot >= 0 /\ req[w] \in Reqs
    BY PositionAssumption DEF IInv, TypeOK
  <1> QED
    BY <1>1, <1>2, <1>3, <1>4, TradeStep

\* The store outside the database forgets its keys.
LEMMA ForgetStep == IInv /\ ForgetClaims => IInv'
  <1> SUFFICES ASSUME IInv, ForgetClaims PROVE IInv'
    OBVIOUS
  <1>1. /\ claimed' = {}
        /\ UNCHANGED <<held, ledgerId, sold, rows, acct, rowLock, pc, req, sale, own,
                       since, lost, gaps>>
    BY DEF ForgetClaims, ledger, history
  <1> QED
    BY <1>1 DEF IInv, TypeOK, AccountHeld, Places, OwnRows, OwnStops, ExitsSerialize

\* Every step keeps the invariant.
LEMMA NextIInv == IInv /\ [Next]_vars => IInv'
  <1> SUFFICES ASSUME IInv, [Next]_vars PROVE IInv'
    OBVIOUS
  <1>1. ASSUME NEW w \in Workers, Begin(w) PROVE IInv'
    <2>1. ASSUME NEW q \in 1..Lot, NEW mark \in BOOLEAN, StartExit(w, w, q, mark)
          PROVE  IInv'
      <3>1. q \in Nat
        BY PositionAssumption
      <3> QED
        BY <2>1, <3>1, StartExitStep
    <2>2. ASSUME NEW s \in Stops, NEW audited \in BOOLEAN, ReadProtect(w, s, audited)
          PROVE  IInv'
      BY <2>2, ReadProtectStep
    <2>3. ASSUME NEW kind \in Kinds, Decide(w, kind) PROVE IInv'
      BY <2>3, DecideStep
    <2> QED
      BY <1>1, <2>1, <2>2, <2>3, BuyStep DEF Begin
  <1>2. ASSUME NEW w \in Workers, Advance(w) PROVE IInv'
    <2>1. CASE Birth(w)
      BY <2>1, BirthStep DEF Birth
    <2>2. CASE EndDeadlock(w)
      BY <2>2, AbandonStep DEF EndDeadlock
    <2> QED
      BY <1>2, <2>1, <2>2, ExitTradeStep, ReadExitStep, WriteExitStep, CasProtectStep,
         ReadClaimStep, CasClaimStep, AutoSellStep, AutoTradeStep, CommitStep DEF Advance
  <1>3. CASE UNCHANGED vars
    BY <1>3 DEF vars, IInv, TypeOK, AccountHeld, Places, OwnRows, OwnStops,
                ExitsSerialize
  <1> QED
    BY <1>1, <1>2, <1>3, ForgetStep DEF Next, Done

-----------------------------------------------------------------------------
(* The row and the ledger.                                                   *)

\* What a step that moves one request has to show.
LEMMA OneMoves ==
    ASSUME IInv, RowIsLedger, NEW w \in Workers, NEW label, NEW r,
           UNCHANGED <<held, rows>>, lost \subseteq lost', gaps \subseteq gaps',
           pc' = [pc EXCEPT ![w] = label], req' = [req EXCEPT ![w] = r],
           \A v \in Workers \ {w} : /\ sale'[v] = sale[v] /\ own'[v] = own[v]
                                    /\ since'[v] = since[v],
           ~Known /\ ~Known' /\ Matched /\ Balanced(w) => Balanced(w)'
    PROVE  RowIsLedger'
  <1> SUFFICES ASSUME ~Known' PROVE Matched' /\ \A v \in Workers : Balanced(v)'
    BY DEF RowIsLedger
  <1>1. ~Known
    BY DEF Known
  <1>2. Matched /\ \A v \in Workers : Balanced(v)
    BY <1>1 DEF RowIsLedger
  <1>3. Matched'
    BY <1>2 DEF Matched
  <1>4. ASSUME NEW v \in Workers, v # w PROVE Balanced(v)'
    <2>1. /\ pc'[v] = pc[v] /\ req'[v] = req[v] /\ sale'[v] = sale[v]
          /\ own'[v] = own[v] /\ since'[v] = since[v]
      BY <1>4 DEF IInv, TypeOK
    <2> QED
      BY <1>2, <2>1 DEF Balanced
  <1> QED
    BY <1>1, <1>2, <1>3, <1>4

\* A request moves without reading or writing the row.
LEMMA BalancedLocal ==
    ASSUME IInv, RowIsLedger, NEW w \in Workers, NEW label, NEW r,
           UNCHANGED <<held, rows, sale, own, since, lost>>, gaps \subseteq gaps',
           pc' = [pc EXCEPT ![w] = label], req' = [req EXCEPT ![w] = r],
           label \notin {"write", "cas", "claimcas", "birth"},
           ~Known' /\ label = "commit" /\ sale[w] # 0 =>
               own[w] # NoWrite /\ own[w].by # "stop"
    PROVE  RowIsLedger'
  <1>1. ~Known' /\ Balanced(w) => Balanced(w)'
    BY DEF Balanced, IInv, TypeOK
  <1> QED
    BY <1>1, OneMoves

\* A request takes the account and changes what is held.
LEMMA BalancedTrade ==
    ASSUME IInv, RowIsLedger, NEW w \in Workers, NEW label \in {"persist", "birth"},
           NEW n, UNCHANGED <<held, rows, req, own, since, lost, gaps>>,
           pc[w] \in {"idle", "trade", "pay"}, acct = Free,
           pc' = [pc EXCEPT ![w] = label], sale' = [sale EXCEPT ![w] = n],
           label = "birth" => n = Lot
    PROVE  RowIsLedger'
  <1>1. own[w] = NoWrite \/ own[w].by = "stop"
    BY FreeIsNobody DEF IInv, OwnRows, TypeOK, Writes
  <1>2. Balanced(w) => Balanced(w)'
    BY <1>1 DEF Balanced, IInv, TypeOK
  <1>3. req' = [req EXCEPT ![w] = req[w]]
    BY DEF IInv, TypeOK
  <1>4. \A v \in Workers \ {w} : sale'[v] = sale[v] /\ own'[v] = own[v] /\ since'[v] = since[v]
    BY DEF IInv, TypeOK
  <1> QED
    BY <1>2, <1>3, <1>4, OneMoves

\* A request reads the open row: what it reads has what the committed row has.
LEMMA BalancedTake ==
    ASSUME IInv, RowIsLedger, NEW w \in Workers, NEW label \in {"write", "cas", "claimcas"},
           NEW r \in Reqs, OpenIds(w) # {}, pc[w] \in {"idle", "claim", "persist"},
           pc' = [pc EXCEPT ![w] = label], Take(w, r, OpenId(w)),
           UNCHANGED <<held, rows, own, sale>>, gaps \subseteq gaps',
           ~Known' /\ label = "write" => sale[w] = -r.qty
    PROVE  RowIsLedger'
  <1> DEFINE i == OpenId(w)
             base == Row(w, i)
             q == [r EXCEPT !.id = i, !.base = base]
  <1>1. i \in Ids /\ base \in Rows /\ IsOpen(base)
    BY OpenIdIsOpen, OpenRowIsRow DEF IInv
  <1>2. q \in Reqs /\ q.id = i /\ q.base = base /\ q.qty = r.qty
    BY <1>1 DEF Reqs
  <1>3. /\ req' = [req EXCEPT ![w] = q] /\ since' = [since EXCEPT ![w] = {}]
        /\ lost' = lost
    BY DEF Take
  <1>4. own[w] = NoWrite \/ own[w].by = "stop"
    BY DEF IInv, OwnRows, TypeOK, Writes
  <1>5. Balanced(w) => rows[i].remaining = base.remaining
    BY <1>4 DEF Row, Balanced
  <1> HIDE DEF i, base, q
  <1>6. ~Known' /\ Balanced(w) => Balanced(w)'
    BY <1>1, <1>2, <1>3, <1>4, <1>5 DEF Balanced, IInv, TypeOK
  <1>7. \A v \in Workers \ {w} : sale'[v] = sale[v] /\ own'[v] = own[v] /\ since'[v] = since[v]
    BY <1>3 DEF IInv, TypeOK
  <1> QED
    BY <1>3, <1>6, <1>7, OneMoves

\* A request writes the row it read, with nobody's change under it.
LEMMA BalancedWrite ==
    ASSUME IInv, RowIsLedger, NEW w \in Workers, NEW label \in {"commit", "sell"},
           NEW row \in Rows, NEW by \in {"exit", "stop"},
           pc[w] \in {"write", "cas", "claimcas"}, pc' = [pc EXCEPT ![w] = label],
           WriteRow(w, req[w].id, row, by),
           UNCHANGED <<held, rows, req, sale, gaps>>,
           by = "exit" => pc[w] = "write" /\ row.remaining = req[w].base.remaining - req[w].qty,
           by = "stop" => pc[w] # "write" /\ row.remaining = req[w].base.remaining
    PROVE  RowIsLedger'
  <1> DEFINE i == req[w].id
             x == [id |-> i, row |-> row, by |-> by]
  <1>1. i \in Ids /\ rows[i] # NoRow /\ req[w].base # NoRow
    BY DEF IInv, Places
  <1>2. /\ own' = [own EXCEPT ![w] = x] /\ since' = since
        /\ lost' = lost \cup ({by} \X since[w])
    BY DEF WriteRow
  <1>3. x.id = i /\ x.row = row /\ x.by = by /\ x # NoWrite
    BY <1>1, RowAssumption DEF Writes
  <1>4. own'[w] = x
    BY <1>2 DEF IInv, TypeOK
  <1>5. ~Known' => since[w] = {}
    <2>1. \A s \in since[w] : <<by, s>> \in lost'
      BY <1>2
    <2> QED
      BY <2>1 DEF Known
  <1>6. rows[i] \in Rows /\ req[w].base \in Rows /\ req[w].qty \in Nat /\ sale[w] \in Int
    BY <1>1 DEF IInv, TypeOK, Reqs
  <1>7. rows[i].remaining \in Nat /\ req[w].base.remaining \in Nat
    BY <1>6, PositionAssumption DEF Rows
  <1>8. sale[w] # 0 => pc[w] = "write"
    BY DEF IInv, AccountHeld
  <1>9. ~Known' /\ Balanced(w) => Balanced(w)'
    <2> HIDE DEF i, x
    <2> SUFFICES ASSUME ~Known', Balanced(w) PROVE Balanced(w)'
      OBVIOUS
    <2>1. rows[i].remaining = req[w].base.remaining /\ IsOpen(req[w].base)
      BY <1>5 DEF Balanced, i
    <2>2. IsOpen(rows[i])
      BY <1>1, <1>6, <2>1 DEF IsOpen, Closed
    <2>3. by = "exit" => row.remaining = rows[i].remaining + sale[w]
      BY <1>6, <1>7, <2>1 DEF Balanced
    <2>4. pc'[w] = label
      BY DEF IInv, TypeOK
    <2> QED
      BY <1>3, <1>4, <1>8, <2>1, <2>2, <2>3, <2>4 DEF Balanced
  <1>10. req' = [req EXCEPT ![w] = req[w]]
    BY DEF IInv, TypeOK
  <1>11. \A v \in Workers \ {w} : sale'[v] = sale[v] /\ own'[v] = own[v] /\ since'[v] = since[v]
    BY <1>2 DEF IInv, TypeOK
  <1>12. lost \subseteq lost' /\ gaps \subseteq gaps'
    BY <1>2
  <1> QED
    BY <1>9, <1>10, <1>11, <1>12, OneMoves

\* A transaction is rolled back.
LEMMA BalancedAbandon ==
    ASSUME IInv, RowIsLedger, NEW w \in Workers, Abandon(w)
    PROVE  RowIsLedger'
  <1>1. /\ pc' = [pc EXCEPT ![w] = "done"] /\ own' = [own EXCEPT ![w] = NoWrite]
        /\ sale' = [sale EXCEPT ![w] = 0]
        /\ UNCHANGED <<held, rows, req, since, lost, gaps>>
    BY DEF Abandon, ledger, history
  <1>2. Balanced(w)'
    BY <1>1 DEF Balanced, IInv, TypeOK
  <1>3. req' = [req EXCEPT ![w] = req[w]]
    BY <1>1 DEF IInv, TypeOK
  <1>4. \A v \in Workers \ {w} : sale'[v] = sale[v] /\ own'[v] = own[v] /\ since'[v] = since[v]
    BY <1>1 DEF IInv, TypeOK
  <1> QED
    BY <1>1, <1>2, <1>3, <1>4, OneMoves

\* A birth: nothing is held and no row is open until it commits.
LEMMA BalancedBirth ==
    ASSUME IInv, RowIsLedger, NEW w \in Workers, Birth(w)
    PROVE  RowIsLedger'
  <1> DEFINE i == IF held = 0 THEN ledgerId + 1 ELSE ledgerId
             row == [remaining |-> Lot, stop |-> 1, target1 |-> FALSE,
                     lastExit |-> NoKey, events |-> {}]
             x == [id |-> i, row |-> row, by |-> "birth"]
  <1>0. pc[w] = "birth" /\ acct = w /\ own[w] = NoWrite
    BY DEF Birth, IInv, AccountHeld, Places
  <1>1. CASE OpenIds(w) # {}
    <2>1. /\ pc' = [pc EXCEPT ![w] = "commit"] /\ req' = [req EXCEPT ![w] = req[w]]
          /\ gaps' = gaps \cup {"opening"}
          /\ UNCHANGED <<held, rows, sale, own, since, lost>>
      BY <1>1 DEF Birth, Goto, ledger, IInv, TypeOK
    <2>2. Known' /\ gaps \subseteq gaps'
      BY <2>1 DEF Known
    <2> QED
      BY <2>1, <2>2, BalancedLocal
  <1>2. CASE OpenIds(w) = {} /\ rows[i] # NoRow
    BY <1>2, BalancedAbandon DEF Birth
  <1>3. CASE OpenIds(w) = {} /\ rows[i] = NoRow
    <2>1. /\ own' = [own EXCEPT ![w] = x] /\ pc' = [pc EXCEPT ![w] = "commit"]
          /\ UNCHANGED <<held, rows, req, sale, since, lost, gaps>>
      BY <1>3 DEF Birth, Goto, ledger, history
    <2>2. \A j \in Ids : ~IsOpen(rows[j])
      BY <1>0, <1>3 DEF OpenIds, Row
    <2>3. i \in Ids /\ row \in Rows
      BY <1>0, PositionAssumption, Kinds3 DEF IInv, TypeOK, AccountHeld, Ids, Rows
    <2>4. x \in Writes /\ x.by = "birth" /\ x.row.remaining = Lot
      BY <2>3 DEF Writes
    <2> HIDE DEF x, i, row
    <2>5. Balanced(w) => Balanced(w)'
      BY <1>0, <2>1, <2>2, <2>4, RowAssumption DEF Balanced, IInv, TypeOK
    <2>6. req' = [req EXCEPT ![w] = req[w]]
      BY <2>1 DEF IInv, TypeOK
    <2>7. \A v \in Workers \ {w} : sale'[v] = sale[v] /\ own'[v] = own[v] /\ since'[v] = since[v]
      BY <2>1 DEF IInv, TypeOK
    <2> QED
      BY <2>1, <2>5, <2>6, <2>7, OneMoves
  <1> QED
    BY <1>1, <1>2, <1>3

\* A transaction commits its row and its sale together.
LEMMA BalancedCommit ==
    ASSUME IInv, RowIsLedger, NEW w \in Workers, Commit(w)
    PROVE  RowIsLedger'
  <1> USE FreeIsNobody DEF IInv
  <1>1. /\ pc[w] = "commit" /\ pc' = [pc EXCEPT ![w] = "done"]
        /\ own' = [own EXCEPT ![w] = NoWrite]
        /\ sale' = [sale EXCEPT ![w] = 0]
        /\ held' = held + sale[w]
        /\ UNCHANGED <<req, lost, gaps>>
    BY DEF Commit
  <1> SUFFICES ASSUME ~Known' PROVE Matched' /\ \A v \in Workers : Balanced(v)'
    BY DEF RowIsLedger
  <1>2. Matched /\ \A v \in Workers : Balanced(v)
    BY <1>1 DEF RowIsLedger, Known
  <1>3. Balanced(w)'
    BY <1>1 DEF Balanced, TypeOK
  <1>4. held \in Nat /\ sale[w] \in Int
    BY DEF TypeOK
  <1>5. CASE own[w] = NoWrite
    <2>1. rows' = rows /\ since' = since /\ sale[w] = 0
      BY <1>1, <1>2, <1>5 DEF Commit, Balanced
    <2>2. held' = held
      BY <1>1, <1>4, <2>1
    <2>3. Matched'
      BY <1>2, <2>1, <2>2 DEF Matched
    <2>4. ASSUME NEW v \in Workers, v # w PROVE Balanced(v)'
      <3>1. pc'[v] = pc[v] /\ own'[v] = own[v] /\ sale'[v] = sale[v]
        BY <1>1, <2>4 DEF TypeOK
      <3> QED
        BY <1>1, <1>2, <2>1, <3>1 DEF Balanced
    <2> QED
      BY <1>3, <2>3, <2>4
  <1>6. CASE own[w] # NoWrite
    <2> DEFINE i == own[w].id
               row == own[w].row
               by == own[w].by
    <2>1. i \in Ids /\ row \in Rows /\ row # NoRow /\ by \in {"exit", "stop", "birth"}
      BY <1>6, RowAssumption DEF TypeOK, Writes
    <2>2. /\ rows' = [rows EXCEPT ![i] = row]
          /\ since' = [v \in Workers |-> IF v # w /\ req[v].id = i
                                         THEN since[v] \cup {by} ELSE since[v]]
      BY <1>6 DEF Commit
    <2>3. row.remaining \in Nat /\ (IsOpen(row) <=> row.remaining # 0)
      BY <2>1, PositionAssumption DEF Rows, IsOpen, Closed
    <2>4. rows'[i] = row /\ \A j \in Ids \ {i} : rows'[j] = rows[j]
      BY <2>1, <2>2 DEF TypeOK
    <2>5. by # "birth" => /\ rows[i] \in Rows /\ rows[i].remaining \in Nat
                          /\ IsOpen(rows[i]) <=> rows[i].remaining # 0
      <3>1. by # "birth" => rows[i] # NoRow
        BY <1>6 DEF OwnRows
      <3>2. by # "birth" => rows[i] \in Rows
        BY <2>1, <3>1 DEF TypeOK
      <3> QED
        BY <3>1, <3>2, PositionAssumption DEF Rows, IsOpen, Closed
    <2>6. by = "stop" => row.remaining = rows[i].remaining /\ sale[w] = 0
      BY <1>1, <1>2, <1>6 DEF Balanced
    <2>7. by = "exit" => IsOpen(rows[i]) /\ row.remaining = rows[i].remaining + sale[w]
      BY <1>2, <1>6 DEF Balanced
    <2>8. by = "birth" => /\ \A j \in Ids : ~IsOpen(rows[j])
                          /\ row.remaining = Lot /\ sale[w] = Lot
      BY <1>2, <1>6 DEF Balanced
    <2>9. by # "stop" => acct = w
      BY <1>6, <2>1 DEF OwnRows
    <2>10. by # "birth" => rowLock[i] = w
      BY <1>6 DEF OwnRows
    <2>11. by = "birth" => rows[i] = NoRow
      BY <1>6 DEF OwnRows
    <2> HIDE DEF i, row, by
    <2>12. Matched'
      <3>1. CASE by = "stop"
        <4>1. held' = held
          BY <1>1, <1>4, <2>6, <3>1
        <4>2. \A j \in Ids : IsOpen(rows'[j]) <=> IsOpen(rows[j])
          BY <2>3, <2>4, <2>5, <2>6, <3>1
        <4>3. \A j \in Ids : rows'[j].remaining = rows[j].remaining
          BY <2>4, <2>6, <3>1
        <4>4. \A j \in Ids : IsOpen(rows[j])' <=> IsOpen(rows[j])
          BY <4>2 DEF IsOpen, Closed
        <4> QED
          BY <1>2, <4>1, <4>3, <4>4 DEF Matched
      <3>2. CASE by = "exit"
        <4>1. \A j \in Ids \ {i} : ~IsOpen(rows[j]) /\ ~IsOpen(rows'[j])
          BY <1>2, <2>1, <2>4, <2>7, <3>2 DEF Matched
        <4>2. rows[i].remaining = held
          BY <1>2, <2>1, <2>7, <3>2 DEF Matched
        <4>3. rows'[i].remaining = held' /\ (IsOpen(rows'[i]) <=> held' # 0)
          BY <1>1, <2>3, <2>4, <2>7, <3>2, <4>2
        <4> QED
          BY <2>1, <4>1, <4>3 DEF Matched, IsOpen, Closed
      <3>3. CASE by = "birth"
        <4>1. held = 0
          BY <1>2, <2>8, <3>3 DEF Matched
        <4>2. held' = Lot /\ rows'[i].remaining = Lot /\ IsOpen(rows'[i])
          BY <1>1, <1>4, <2>3, <2>4, <2>8, <3>3, <4>1, PositionAssumption
        <4>3. \A j \in Ids \ {i} : ~IsOpen(rows'[j])
          BY <2>4, <2>8, <3>3
        <4> QED
          BY <2>1, <4>2, <4>3 DEF Matched, IsOpen, Closed
      <3> QED
        BY <2>1, <3>1, <3>2, <3>3
    <2>13. ASSUME NEW v \in Workers, v # w PROVE Balanced(v)'
      <3>1. /\ pc'[v] = pc[v] /\ own'[v] = own[v] /\ sale'[v] = sale[v]
            /\ req'[v] = req[v]
        BY <1>1, <2>13 DEF TypeOK
      <3>2. since'[v] = {} => since[v] = {} /\ req[v].id # i
        BY <2>2, <2>13
      <3>3. own[v] # NoWrite /\ own[v].by # "birth" => own[v].id # i /\ own[v].id \in Ids
        <4>1. own[v] # NoWrite /\ own[v].by # "birth"
                 => rowLock[own[v].id] = v /\ rows[own[v].id] # NoRow /\ own[v].id \in Ids
          BY DEF OwnRows, TypeOK, Writes
        <4> QED
          BY <2>10, <2>11, <2>13, <4>1
      <3>4. own[v] # NoWrite /\ own[v].by # "birth" => rows'[own[v].id] = rows[own[v].id]
        BY <2>4, <3>3
      <3>5. own[v] # NoWrite /\ own[v].by = "birth" => \A j \in Ids : ~IsOpen(rows'[j])
        <4> SUFFICES ASSUME own[v] # NoWrite, own[v].by = "birth", NEW j \in Ids
                     PROVE  ~IsOpen(rows'[j])
          OBVIOUS
        <4>1. acct = v /\ by = "stop"
          BY <2>1, <2>9, <2>13 DEF OwnRows
        <4>2. \A k \in Ids : ~IsOpen(rows[k])
          BY <1>2 DEF Balanced
        <4> QED
          BY <2>1, <2>3, <2>4, <2>5, <2>6, <4>1, <4>2
      <3>6. since'[v] = {} /\ pc[v] \in {"write", "cas", "claimcas"}
              => rows'[req[v].id] = rows[req[v].id]
        BY <2>4, <3>2 DEF Places
      <3> QED
        BY <1>2, <3>1, <3>2, <3>4, <3>5, <3>6 DEF Balanced, IsOpen, Closed
    <2> QED
      BY <1>3, <2>12, <2>13
  <1> QED
    BY <1>5, <1>6

\* A request that ends with nothing written.
LEMMA BalancedFinish ==
    ASSUME IInv, RowIsLedger, NEW w \in Workers, Finish(w)
    PROVE  RowIsLedger'
  <1>1. /\ pc' = [pc EXCEPT ![w] = "done"] /\ req' = [req EXCEPT ![w] = req[w]]
        /\ UNCHANGED <<held, rows, own, sale, since, lost, gaps>>
    BY DEF Finish, Goto, ledger, history, IInv, TypeOK
  <1> QED
    BY <1>1, BalancedLocal

\* Every action keeps the balance.
LEMMA BalancedBegin ==
    ASSUME IInv, RowIsLedger, NEW w \in Workers, Begin(w)
    PROVE  RowIsLedger'
  <1>1. ASSUME pc[w] = "idle", Finish(w) PROVE RowIsLedger'
    BY <1>1, BalancedFinish
  <1>2. ASSUME NEW q \in 1..Lot, NEW mark \in BOOLEAN, StartExit(w, w, q, mark)
        PROVE  RowIsLedger'
    <2>1. CASE sold[w] > 0
      BY <1>1, <1>2, <2>1 DEF StartExit
    <2>2. CASE ~(sold[w] > 0)
      <3> DEFINE r == [NoReq EXCEPT !.key = w, !.qty = q, !.mark = mark]
      <3>1. /\ req' = [req EXCEPT ![w] = r] /\ pc' = [pc EXCEPT ![w] = "trade"]
            /\ UNCHANGED <<held, rows, own, sale, since, lost, gaps>>
        BY <1>2, <2>2 DEF StartExit, Goto, ledger, history
      <3> HIDE DEF r
      <3> QED
        BY <3>1, BalancedLocal
    <2> QED
      BY <2>1, <2>2
  <1>3. ASSUME NEW s \in Stops, NEW audited \in BOOLEAN, ReadProtect(w, s, audited)
        PROVE  RowIsLedger'
    <2>1. CASE OpenIds(w) = {} \/ (s < Row(w, OpenId(w)).stop /\ ~audited)
      BY <1>1, <1>3, <2>1 DEF ReadProtect
    <2>2. CASE OpenIds(w) # {} /\ ~(s < Row(w, OpenId(w)).stop /\ ~audited)
      <3> DEFINE r == [NoReq EXCEPT !.stop = s, !.mark = audited]
      <3>1. r \in Reqs
        BY Kinds3 DEF Reqs
      <3>2. /\ pc[w] = "idle" /\ pc' = [pc EXCEPT ![w] = "cas"] /\ Take(w, r, OpenId(w))
            /\ UNCHANGED <<held, rows, own, sale, gaps>>
        BY <1>3, <2>2 DEF ReadProtect, Goto, ledger
      <3> HIDE DEF r
      <3> QED
        BY <2>2, <3>1, <3>2, BalancedTake
    <2> QED
      BY <2>1, <2>2
  <1>4. ASSUME NEW kind \in Kinds, Decide(w, kind) PROVE RowIsLedger'
    <2>1. CASE OpenIds(w) = {}
      BY <1>1, <1>4, <2>1 DEF Decide
    <2>2. CASE OpenIds(w) # {}
      <3> DEFINE r == [NoReq EXCEPT !.kind = kind, !.mark = (kind = "TARGET_1"),
                          !.qty = IF kind = "STOP" THEN Row(w, OpenId(w)).remaining ELSE 1]
      <3>1. /\ req' = [req EXCEPT ![w] = r] /\ pc' = [pc EXCEPT ![w] = "claim"]
            /\ UNCHANGED <<held, rows, own, sale, since, lost, gaps>>
        BY <1>4, <2>2 DEF Decide, Goto, ledger, history
      <3> HIDE DEF r
      <3> QED
        BY <3>1, BalancedLocal
    <2> QED
      BY <2>1, <2>2
  <1>5. CASE Buy(w)
    <2>1. /\ pc[w] = "idle" /\ acct = Free /\ pc' = [pc EXCEPT ![w] = "birth"]
          /\ sale' = [sale EXCEPT ![w] = Lot]
          /\ UNCHANGED <<held, rows, req, own, since, lost, gaps>>
      BY <1>5 DEF Buy, Goto, ledger, history
    <2> QED
      BY <2>1, BalancedTrade
  <1> QED
    BY <1>2, <1>3, <1>4, <1>5 DEF Begin

LEMMA BalancedAdvance ==
    ASSUME IInv, RowIsLedger, NEW w \in Workers, Advance(w)
    PROVE  RowIsLedger'
  <1> DEFINE i == req[w].id
  <1>r. req[w] \in Reqs
    BY DEF IInv, TypeOK
  <1>1. CASE ExitTrade(w)
    <2>1. CASE Finish(w)
      BY <1>1, <2>1, BalancedFinish DEF ExitTrade
    <2>2. CASE ~Finish(w)
      <3>1. PICK n : /\ sale' = [sale EXCEPT ![w] = n] /\ pc[w] = "trade" /\ acct = Free
                     /\ pc' = [pc EXCEPT ![w] = "persist"]
                     /\ UNCHANGED <<held, rows, req, own, since, lost, gaps>>
        BY <1>1, <2>2 DEF ExitTrade, Goto, ledger, history
      <3> QED
        BY <3>1, BalancedTrade
    <2> QED
      BY <2>1, <2>2
  <1>2. CASE ReadExit(w)
    <2>1. CASE OpenIds(w) = {} \/ Unfit(Row(w, OpenId(w)), req[w])
      <3>1. /\ pc' = [pc EXCEPT ![w] = "commit"] /\ req' = [req EXCEPT ![w] = req[w]]
            /\ UNCHANGED <<held, rows, own, sale, since, lost>>
            /\ gaps' = IF sale[w] = 0 THEN gaps ELSE gaps \cup {"refused"}
        BY <1>2, <2>1 DEF ReadExit, Goto, ledger, IInv, TypeOK
      <3>2. sale[w] # 0 => Known'
        BY <3>1 DEF Known
      <3>3. gaps \subseteq gaps'
        BY <3>1
      <3> QED
        BY <3>1, <3>2, <3>3, BalancedLocal
    <2>2. CASE OpenIds(w) # {} /\ ~Unfit(Row(w, OpenId(w)), req[w])
      <3>1. /\ pc[w] = "persist" /\ pc' = [pc EXCEPT ![w] = "write"]
            /\ Take(w, req[w], OpenId(w))
            /\ UNCHANGED <<held, rows, own, sale>>
            /\ gaps' = gaps \cup (IF sale[w] = 0 THEN {"repeated"}
                                  ELSE IF sale[w] # -req[w].qty THEN {"resized"}
                                  ELSE {})
        BY <1>2, <2>2 DEF ReadExit, Goto, ledger
      <3>2. ~Known' => sale[w] = -req[w].qty
        BY <3>1 DEF Known
      <3>3. gaps \subseteq gaps'
        BY <3>1
      <3> QED
        BY <1>r, <2>2, <3>1, <3>2, <3>3, BalancedTake
    <2> QED
      BY <2>1, <2>2
  <1>3. CASE WriteExit(w)
    <2> DEFINE row == Reduced(req[w].base, req[w])
    <2>1. CASE Collides(w, i, row)
      BY <1>3, <2>1, BalancedAbandon DEF WriteExit
    <2>2. CASE ~Collides(w, i, row)
      <3>1. /\ pc[w] = "write" /\ WriteRow(w, i, row, "exit")
            /\ pc' = [pc EXCEPT ![w] = "commit"]
            /\ UNCHANGED <<held, rows, req, sale, gaps>>
        BY <1>3, <2>2 DEF WriteExit, Goto, ledger
      <3>2. req[w].base \in Rows /\ req[w].qty <= req[w].base.remaining
        BY <1>r, <3>1 DEF IInv, Places, Reqs
      <3>3. row \in Rows
        BY <1>r, <3>2, ReducedIsRow
      <3>4. row.remaining = req[w].base.remaining - req[w].qty
        BY <3>2 DEF Reduced, Rows
      <3> HIDE DEF row
      <3> QED
        BY <3>1, <3>3, <3>4, BalancedWrite
    <2> QED
      BY <2>1, <2>2
  <1>4. CASE CasProtect(w)
    <2> DEFINE row == [req[w].base EXCEPT !.stop = req[w].stop,
                                          !.events = @ \cup {"PROTECT"}]
    <2>1. CASE StopMoved(w, i) \/ Collides(w, i, row)
      BY <1>4, <2>1, BalancedAbandon DEF CasProtect
    <2>2. CASE ~StopMoved(w, i) /\ ~Collides(w, i, row)
      <3>1. /\ pc[w] = "cas" /\ WriteRow(w, i, row, "stop")
            /\ pc' = [pc EXCEPT ![w] = "commit"]
            /\ UNCHANGED <<held, rows, req, sale, gaps>>
        BY <1>4, <2>2 DEF CasProtect, Goto, ledger
      <3>2. req[w].base \in Rows
        BY <1>r, <3>1 DEF IInv, Places, Reqs
      <3>3. row \in Rows /\ row.remaining = req[w].base.remaining
        BY <1>r, <3>2 DEF Rows, Reqs
      <3> HIDE DEF row
      <3> QED
        BY <3>1, <3>3, BalancedWrite
    <2> QED
      BY <2>1, <2>2
  <1>5. CASE ReadClaim(w)
    <2>1. CASE OpenIds(w) = {}
      BY <1>5, <2>1, BalancedFinish DEF ReadClaim
    <2>2. CASE OpenIds(w) # {}
      <3> DEFINE r == [req[w] EXCEPT !.key = <<OpenId(w), req[w].kind>>]
      <3>1. <<OpenId(w), req[w].kind>> \in Keys
        BY <1>r, <2>2, OpenIdIsOpen DEF Reqs, Keys
      <3>2. r \in Reqs
        BY <1>r, <3>1 DEF Reqs
      <3>3. /\ pc[w] = "claim" /\ pc' = [pc EXCEPT ![w] = "claimcas"]
            /\ Take(w, r, OpenId(w))
            /\ UNCHANGED <<held, rows, own, sale, gaps>>
        BY <1>5, <2>2 DEF ReadClaim, Goto, ledger
      <3> HIDE DEF r
      <3> QED
        BY <2>2, <3>2, <3>3, BalancedTake
    <2> QED
      BY <2>1, <2>2
  <1>6. CASE CasClaim(w)
    <2> DEFINE row == [req[w].base EXCEPT !.events = @ \cup {req[w].kind}]
    <2>1. CASE Abandon(w)
      BY <2>1, BalancedAbandon
    <2>2. CASE StopMoved(w, i) /\ ~Abandon(w)
      <3>1. /\ pc' = [pc EXCEPT ![w] = "sell"] /\ req' = [req EXCEPT ![w] = req[w]]
            /\ UNCHANGED <<held, rows, sale, own, since, lost, gaps>>
        BY <1>6, <2>2 DEF CasClaim, Goto, ledger, history, IInv, TypeOK
      <3> QED
        BY <3>1, BalancedLocal
    <2>3. CASE ~StopMoved(w, i) /\ ~Abandon(w)
      <3>1. /\ pc[w] = "claimcas" /\ WriteRow(w, i, row, "stop")
            /\ pc' = [pc EXCEPT ![w] = "sell"]
            /\ UNCHANGED <<held, rows, req, sale, gaps>>
        BY <1>6, <2>3 DEF CasClaim, Goto, ledger
      <3>2. req[w].base \in Rows
        BY <1>r, <3>1 DEF IInv, Places, Reqs
      <3>3. row \in Rows /\ row.remaining = req[w].base.remaining
        BY <1>r, <3>2 DEF Rows, Reqs
      <3> HIDE DEF row
      <3> QED
        BY <3>1, <3>3, BalancedWrite
    <2> QED
      BY <2>1, <2>2, <2>3
  <1>7. CASE AutoSell(w)
    <2>1. pc[w] = "sell" /\ sale[w] = 0
      BY <1>7 DEF AutoSell, IInv, AccountHeld
    <2>2. CASE req[w].key \in claimed \/ held = 0
      <3>1. /\ pc' = [pc EXCEPT ![w] = "commit"] /\ req' = [req EXCEPT ![w] = req[w]]
            /\ UNCHANGED <<held, rows, sale, own, since, lost, gaps>>
        BY <1>7, <2>2 DEF AutoSell, Goto, ledger, history, IInv, TypeOK
      <3> QED
        BY <2>1, <3>1, BalancedLocal
    <2>3. CASE ~(req[w].key \in claimed \/ held = 0)
      <3> DEFINE n == IF req[w].kind = "STOP" \/ held < req[w].qty THEN held ELSE req[w].qty
                 r == [req[w] EXCEPT !.sell = n]
      <3>1. /\ pc' = [pc EXCEPT ![w] = "pay"] /\ req' = [req EXCEPT ![w].sell = n]
            /\ UNCHANGED <<held, rows, sale, own, since, lost, gaps>>
        BY <1>7, <2>3 DEF AutoSell, Goto, ledger, history
      <3> HIDE DEF n
      <3>2. req' = [req EXCEPT ![w] = r]
        BY <3>1
      <3> HIDE DEF r
      <3> QED
        BY <2>1, <3>1, <3>2, BalancedLocal
    <2> QED
      BY <2>2, <2>3
  <1>8. CASE AutoTrade(w)
    <2>1. /\ pc[w] = "pay" /\ acct = Free /\ sale[w] = 0
      BY <1>8 DEF AutoTrade, IInv, AccountHeld
    <2>2. CASE Abandon(w)
      BY <2>2, BalancedAbandon
    <2>3. CASE \E label \in {"commit", "persist"} :
                  /\ pc' = [pc EXCEPT ![w] = label] /\ req' = [req EXCEPT ![w] = req[w]]
                  /\ UNCHANGED <<held, rows, sale, own, since, lost, gaps>>
      BY <2>1, <2>3, BalancedLocal
    <2>4. CASE \E n : /\ sale' = [sale EXCEPT ![w] = n]
                      /\ pc' = [pc EXCEPT ![w] = "persist"]
                      /\ UNCHANGED <<held, rows, req, own, since, lost, gaps>>
      BY <2>1, <2>4, BalancedTrade
    <2> QED
      BY <1>8, <2>2, <2>3, <2>4 DEF AutoTrade, Goto, ledger, history, IInv, TypeOK
  <1>9. CASE EndDeadlock(w)
    BY <1>9, BalancedAbandon DEF EndDeadlock
  <1> QED
    BY <1>1, <1>2, <1>3, <1>4, <1>5, <1>6, <1>7, <1>8, <1>9, BalancedBirth,
       BalancedCommit DEF Advance

LEMMA BalancedNext == IInv /\ RowIsLedger /\ [Next]_vars => RowIsLedger'
  <1> SUFFICES ASSUME IInv, RowIsLedger, [Next]_vars PROVE RowIsLedger'
    OBVIOUS
  <1>1. CASE UNCHANGED vars
    BY <1>1 DEF vars, RowIsLedger, Known, Matched, Balanced, IsOpen, Closed
  <1>2. CASE ForgetClaims
    BY <1>2 DEF ForgetClaims, ledger, history, RowIsLedger, Known, Matched, Balanced,
                IsOpen, Closed
  <1> QED
    BY <1>1, <1>2, BalancedBegin, BalancedAdvance DEF Next, Done

LEMMA BalancedInit == Init => RowIsLedger
  <1> SUFFICES ASSUME Init PROVE Matched /\ \A w \in Workers : Balanced(w)
    BY DEF RowIsLedger
  <1> DEFINE row == [remaining |-> Lot, stop |-> 1, target1 |-> FALSE,
                     lastExit |-> NoKey, events |-> {}]
  <1>1. \A w \in Workers : Balanced(w)
    BY DEF Init, Balanced
  <1>2. row \in Rows /\ row # NoRow /\ row.remaining = Lot /\ IsOpen(row)
    <2>1. row \in Rows
      BY PositionAssumption, Kinds3 DEF Rows
    <2> QED
      BY <2>1, RowAssumption, PositionAssumption DEF IsOpen, Closed
  <1>3. held = Lot /\ rows = [i \in Ids |-> IF i = 1 THEN row ELSE NoRow] /\ 1 \in Ids
    BY PositionAssumption DEF Init, Ids
  <1> HIDE DEF row
  <1>4. \A i \in Ids : IsOpen(rows[i]) <=> i = 1
    BY <1>2, <1>3 DEF IsOpen
  <1> QED
    BY <1>1, <1>2, <1>3, <1>4 DEF Matched

-----------------------------------------------------------------------------
(* What a closing fill did to a row stays, unless a stop writer wrote over   *)
(* it.                                                                       *)

\* A request that moves without reading or writing a row for a stop or a fill.
LEMMA UpToDateQuiet ==
    ASSUME IInv, NothingUndone, NEW w \in Workers, NEW label, NEW r, NEW x,
           UNCHANGED <<rows, since, lost>>, pc' = [pc EXCEPT ![w] = label],
           req' = [req EXCEPT ![w] = r], own' = [own EXCEPT ![w] = x],
           label \notin {"write", "cas", "claimcas"},
           x = own[w] \/ x = NoWrite \/ x.by = "birth"
    PROVE  NothingUndone'
  <1> SUFFICES ASSUME NEW v \in Workers, UpToDate(v) PROVE UpToDate(v)'
    BY DEF NothingUndone
  <1>1. CASE v = w
    BY <1>1 DEF UpToDate, IInv, TypeOK
  <1>2. CASE v # w
    <2>1. pc'[v] = pc[v] /\ req'[v] = req[v] /\ own'[v] = own[v]
      BY <1>2 DEF IInv, TypeOK
    <2> QED
      BY <2>1 DEF UpToDate
  <1> QED
    BY <1>1, <1>2

\* A request reads the open row: its own change of it, or the committed row.
LEMMA UpToDateTake ==
    ASSUME IInv, NothingUndone, NEW w \in Workers, NEW label, NEW r \in Reqs,
           OpenIds(w) # {}, pc[w] \in {"idle", "claim", "persist"},
           pc' = [pc EXCEPT ![w] = label], Take(w, r, OpenId(w)), UNCHANGED <<rows, own>>
    PROVE  NothingUndone'
  <1> DEFINE i == OpenId(w)
             base == Row(w, i)
             q == [r EXCEPT !.id = i, !.base = base]
  <1>1. i \in Ids /\ base \in Rows
    BY OpenIdIsOpen, OpenRowIsRow DEF IInv
  <1>2. q.id = i /\ q.base = base
    BY <1>1 DEF Reqs
  <1>3. /\ req' = [req EXCEPT ![w] = q] /\ since' = [since EXCEPT ![w] = {}]
        /\ lost' = lost
    BY DEF Take
  <1>4. own[w] = NoWrite \/ own[w].by = "stop"
    BY DEF IInv, OwnRows, TypeOK, Writes
  <1>5. UpToDate(w) => SameFills(rows[i], base)
    BY <1>4 DEF Row, UpToDate, SameFills
  <1> HIDE DEF i, base, q
  <1> SUFFICES ASSUME NEW v \in Workers, UpToDate(v) PROVE UpToDate(v)'
    BY <1>3 DEF NothingUndone
  <1>6. CASE v = w
    BY <1>2, <1>3, <1>5, <1>6 DEF UpToDate, SameFills, KeepsFills, IInv, TypeOK
  <1>7. CASE v # w
    <2>1. /\ pc'[v] = pc[v] /\ req'[v] = req[v] /\ own'[v] = own[v]
          /\ since'[v] = since[v]
      BY <1>3, <1>7 DEF IInv, TypeOK
    <2> QED
      BY <2>1 DEF UpToDate, SameFills, KeepsFills
  <1> QED
    BY <1>6, <1>7

\* A request writes the row: over a closing fill it had not read only as a stop
\* writer, which is then told in lost.
LEMMA UpToDateWrite ==
    ASSUME IInv, NothingUndone, NEW w \in Workers, NEW label \in {"commit", "sell"},
           NEW row \in Rows, NEW by \in {"exit", "stop"},
           pc[w] \in {"write", "cas", "claimcas"}, pc' = [pc EXCEPT ![w] = label],
           WriteRow(w, req[w].id, row, by), UNCHANGED <<rows, req>>,
           by = "exit" => pc[w] = "write" /\ KeepsFills(req[w].base, row),
           by = "stop" => SameFills(req[w].base, row)
    PROVE  NothingUndone'
  <1> DEFINE i == req[w].id
             x == [id |-> i, row |-> row, by |-> by]
  <1>1. /\ own' = [own EXCEPT ![w] = x] /\ since' = since
        /\ lost' = lost \cup ({by} \X since[w])
    BY DEF WriteRow
  <1>2. x.id = i /\ x.row = row /\ x.by = by
    OBVIOUS
  <1>3. own'[w] = x /\ pc'[w] = label
    BY <1>1 DEF IInv, TypeOK
  <1>4. by = "stop" /\ "exit" \in since[w] => <<"stop", "exit">> \in lost'
    BY <1>1
  <1>5. by = "exit" => "exit" \notin since[w]
    BY DEF IInv, OwnStops
  <1> HIDE DEF i, x
  <1> SUFFICES ASSUME <<"stop", "exit">> \notin lost', NEW v \in Workers, UpToDate(v)
               PROVE  UpToDate(v)'
    BY <1>1 DEF NothingUndone
  <1>6. CASE v = w
    <2>1. SameFills(rows[i], req[w].base)
      BY <1>4, <1>5, <1>6 DEF UpToDate, i
    <2>2. (by = "stop" => SameFills(rows[i], row)) /\ (by = "exit" => KeepsFills(rows[i], row))
      BY <2>1 DEF SameFills, KeepsFills
    <2> QED
      BY <1>2, <1>3, <1>6, <2>2 DEF UpToDate, SameFills, KeepsFills
  <1>7. CASE v # w
    <2>1. /\ pc'[v] = pc[v] /\ req'[v] = req[v] /\ own'[v] = own[v]
          /\ since'[v] = since[v]
      BY <1>1, <1>7 DEF IInv, TypeOK
    <2> QED
      BY <2>1 DEF UpToDate, SameFills, KeepsFills
  <1> QED
    BY <1>6, <1>7

\* A commit: no other transaction has a change of that row, no other closing
\* fill is at work, and a stop writer that is has been told of this one.
LEMMA UpToDateCommit ==
    ASSUME IInv, NothingUndone, NEW w \in Workers, Commit(w)
    PROVE  NothingUndone'
  <1> USE DEF IInv
  <1>1. /\ pc[w] = "commit" /\ pc' = [pc EXCEPT ![w] = "done"]
        /\ own' = [own EXCEPT ![w] = NoWrite]
        /\ UNCHANGED <<req, lost>>
    BY DEF Commit
  <1> SUFFICES ASSUME NEW v \in Workers, UpToDate(v), UpToDate(w) PROVE UpToDate(v)'
    BY <1>1 DEF NothingUndone
  <1>2. CASE v = w
    BY <1>1, <1>2 DEF UpToDate, TypeOK
  <1>3. CASE v # w /\ own[w] = NoWrite
    <2>1. rows' = rows /\ since' = since /\ pc'[v] = pc[v] /\ own'[v] = own[v]
      BY <1>1, <1>3 DEF Commit, TypeOK
    <2> QED
      BY <1>1, <2>1 DEF UpToDate
  <1>4. CASE v # w /\ own[w] # NoWrite
    <2> DEFINE i == own[w].id
               row == own[w].row
               by == own[w].by
    <2>1. i \in Ids /\ by \in {"exit", "stop", "birth"}
      BY <1>4 DEF TypeOK, Writes
    <2>2. /\ rows' = [rows EXCEPT ![i] = row]
          /\ since' = [u \in Workers |-> IF u # w /\ req[u].id = i
                                         THEN since[u] \cup {by} ELSE since[u]]
      BY <1>4 DEF Commit
    <2>3. rows'[i] = row /\ \A j \in Ids \ {i} : rows'[j] = rows[j]
      BY <2>1, <2>2 DEF TypeOK
    <2>4. pc'[v] = pc[v] /\ own'[v] = own[v] /\ req'[v] = req[v]
      BY <1>1, <1>4 DEF TypeOK
    <2>5. since'[v] = IF req[v].id = i THEN since[v] \cup {by} ELSE since[v]
      BY <1>4, <2>2
    <2>6. by = "stop" => SameFills(rows[i], row)
      BY <1>4 DEF UpToDate
    <2>7. by # "birth" => rowLock[i] = w
      BY <1>4 DEF OwnRows
    <2>8. by = "birth" => rows[i] = NoRow
      BY <1>4 DEF OwnRows
    <2>9. by = "exit" => acct = w
      BY <1>4 DEF OwnRows
    <2> HIDE DEF i, row, by
    <2>10. (own[v] # NoWrite /\ own[v].by # "birth") => rows'[own[v].id] = rows[own[v].id]
      <3>1. (own[v] # NoWrite /\ own[v].by # "birth") =>
               rowLock[own[v].id] = v /\ rows[own[v].id] # NoRow /\ own[v].id \in Ids
        BY DEF OwnRows, TypeOK, Writes
      <3> QED
        BY <1>4, <2>1, <2>3, <2>7, <2>8, <3>1
    <2>11. (pc[v] \in {"write", "cas", "claimcas"} /\ "exit" \notin since'[v])
             => SameFills(rows'[req[v].id], req[v].base)
      <3> SUFFICES ASSUME pc[v] \in {"write", "cas", "claimcas"}, "exit" \notin since'[v]
                   PROVE  SameFills(rows'[req[v].id], req[v].base)
        OBVIOUS
      <3>1. SameFills(rows[req[v].id], req[v].base)
        BY <2>5 DEF UpToDate
      <3>2. req[v].id \in Ids /\ rows[req[v].id] # NoRow
        BY DEF Places
      <3>3. CASE req[v].id # i
        BY <2>3, <3>1, <3>2, <3>3
      <3>4. CASE req[v].id = i
        <4>1. by = "stop"
          BY <2>1, <2>5, <2>8, <3>2, <3>4
        <4> QED
          BY <2>3, <2>6, <3>1, <3>4, <4>1 DEF SameFills
      <3> QED
        BY <3>3, <3>4
    <2> QED
      BY <2>4, <2>10, <2>11 DEF UpToDate, SameFills, KeepsFills
  <1> QED
    BY <1>2, <1>3, <1>4

\* The requests that neither read nor write a row.
LEMMA UpToDateBegin ==
    ASSUME IInv, NothingUndone, NEW w \in Workers, Begin(w)
    PROVE  NothingUndone'
  <1> USE DEF IInv, TypeOK, Goto, ledger, history
  <1>o. own = [own EXCEPT ![w] = own[w]] /\ req = [req EXCEPT ![w] = req[w]]
    OBVIOUS
  <1>1. ASSUME Finish(w) PROVE NothingUndone'
    BY <1>o, <1>1, UpToDateQuiet DEF Finish
  <1>2. ASSUME NEW q \in 1..Lot, NEW mark \in BOOLEAN, StartExit(w, w, q, mark)
        PROVE  NothingUndone'
    <2>1. CASE sold[w] > 0
      BY <1>1, <1>2, <2>1 DEF StartExit
    <2>2. CASE ~(sold[w] > 0)
      <3> DEFINE r == [NoReq EXCEPT !.key = w, !.qty = q, !.mark = mark]
      <3>1. /\ req' = [req EXCEPT ![w] = r] /\ pc' = [pc EXCEPT ![w] = "trade"]
            /\ UNCHANGED <<rows, own, since, lost>>
        BY <1>2, <2>2 DEF StartExit
      <3> HIDE DEF r
      <3> QED
        BY <1>o, <3>1, UpToDateQuiet
    <2> QED
      BY <2>1, <2>2
  <1>3. ASSUME NEW s \in Stops, NEW audited \in BOOLEAN, ReadProtect(w, s, audited)
        PROVE  NothingUndone'
    <2>1. CASE OpenIds(w) = {} \/ (s < Row(w, OpenId(w)).stop /\ ~audited)
      BY <1>1, <1>3, <2>1 DEF ReadProtect
    <2>2. CASE OpenIds(w) # {} /\ ~(s < Row(w, OpenId(w)).stop /\ ~audited)
      <3> DEFINE r == [NoReq EXCEPT !.stop = s, !.mark = audited]
      <3>1. r \in Reqs
        BY Kinds3 DEF Reqs
      <3>2. /\ pc[w] = "idle" /\ pc' = [pc EXCEPT ![w] = "cas"] /\ Take(w, r, OpenId(w))
            /\ UNCHANGED <<rows, own>>
        BY <1>3, <2>2 DEF ReadProtect
      <3> HIDE DEF r
      <3> QED
        BY <2>2, <3>1, <3>2, UpToDateTake
    <2> QED
      BY <2>1, <2>2
  <1>4. ASSUME NEW kind \in Kinds, Decide(w, kind) PROVE NothingUndone'
    <2>1. CASE OpenIds(w) = {}
      BY <1>1, <1>4, <2>1 DEF Decide
    <2>2. CASE OpenIds(w) # {}
      <3> DEFINE r == [NoReq EXCEPT !.kind = kind, !.mark = (kind = "TARGET_1"),
                          !.qty = IF kind = "STOP" THEN Row(w, OpenId(w)).remaining ELSE 1]
      <3>1. /\ req' = [req EXCEPT ![w] = r] /\ pc' = [pc EXCEPT ![w] = "claim"]
            /\ UNCHANGED <<rows, own, since, lost>>
        BY <1>4, <2>2 DEF Decide
      <3> HIDE DEF r
      <3> QED
        BY <1>o, <3>1, UpToDateQuiet
    <2> QED
      BY <2>1, <2>2
  <1>5. CASE Buy(w)
    <2>1. pc' = [pc EXCEPT ![w] = "birth"] /\ UNCHANGED <<rows, req, own, since, lost>>
      BY <1>5 DEF Buy
    <2> QED
      BY <1>o, <2>1, UpToDateQuiet
  <1> QED
    BY <1>2, <1>3, <1>4, <1>5 DEF Begin

LEMMA UpToDateAdvance ==
    ASSUME IInv, NothingUndone, NEW w \in Workers, Advance(w)
    PROVE  NothingUndone'
  <1> DEFINE i == req[w].id
  <1>r. req[w] \in Reqs
    BY DEF IInv, TypeOK
  <1>o. own = [own EXCEPT ![w] = own[w]] /\ req = [req EXCEPT ![w] = req[w]]
    BY DEF IInv, TypeOK
  <1>0. ASSUME Abandon(w) \/ Finish(w) PROVE NothingUndone'
    <2>1. CASE Abandon(w)
      <3>1. /\ pc' = [pc EXCEPT ![w] = "done"] /\ own' = [own EXCEPT ![w] = NoWrite]
            /\ UNCHANGED <<rows, req, since, lost>>
        BY <2>1 DEF Abandon, ledger, history
      <3> QED
        BY <1>o, <3>1, UpToDateQuiet
    <2>2. CASE Finish(w)
      BY <1>o, <2>2, UpToDateQuiet DEF Finish, Goto, ledger, history
    <2> QED
      BY <1>0, <2>1, <2>2
  <1>q. ASSUME NEW label \in {"persist", "commit", "sell", "pay", "done"}, NEW r,
               pc' = [pc EXCEPT ![w] = label], req' = [req EXCEPT ![w] = r],
               UNCHANGED <<rows, own, since, lost>>
        PROVE  NothingUndone'
    BY <1>o, <1>q, UpToDateQuiet
  <1>1. CASE ExitTrade(w)
    BY <1>1, <1>o, <1>0, <1>q DEF ExitTrade, Goto, ledger, history
  <1>2. CASE ReadExit(w)
    <2>1. CASE OpenIds(w) = {} \/ Unfit(Row(w, OpenId(w)), req[w])
      <3>1. /\ pc' = [pc EXCEPT ![w] = "commit"] /\ UNCHANGED <<rows, req, own, since, lost>>
        BY <1>2, <2>1 DEF ReadExit, Goto, ledger
      <3> QED
        BY <1>o, <1>q, <3>1
    <2>2. CASE OpenIds(w) # {} /\ ~Unfit(Row(w, OpenId(w)), req[w])
      <3>1. /\ pc[w] = "persist" /\ pc' = [pc EXCEPT ![w] = "write"]
            /\ Take(w, req[w], OpenId(w)) /\ UNCHANGED <<rows, own>>
        BY <1>2, <2>2 DEF ReadExit, Goto, ledger
      <3> QED
        BY <1>r, <2>2, <3>1, UpToDateTake
    <2> QED
      BY <2>1, <2>2
  <1>3. CASE WriteExit(w)
    <2> DEFINE row == Reduced(req[w].base, req[w])
    <2>1. CASE Collides(w, i, row)
      BY <1>0, <1>3, <2>1 DEF WriteExit
    <2>2. CASE ~Collides(w, i, row)
      <3>1. /\ pc[w] = "write" /\ WriteRow(w, i, row, "exit")
            /\ pc' = [pc EXCEPT ![w] = "commit"] /\ UNCHANGED <<rows, req>>
        BY <1>3, <2>2 DEF WriteExit, Goto, ledger
      <3>2. req[w].base \in Rows /\ req[w].qty <= req[w].base.remaining
        BY <1>r, <3>1 DEF IInv, Places, Reqs
      <3>3. row \in Rows
        BY <1>r, <3>2, ReducedIsRow
      <3>4. req[w].qty \in Nat /\ req[w].base.remaining \in Nat
        BY <1>r, <3>2, PositionAssumption DEF Rows, Reqs
      <3>5. /\ row.remaining = req[w].base.remaining - req[w].qty
            /\ row.target1 = (req[w].base.target1 \/ req[w].mark)
        BY <3>2 DEF Reduced, Rows
      <3> HIDE DEF row
      <3>6. KeepsFills(req[w].base, row)
        <4>1. row.remaining <= req[w].base.remaining
          BY <3>4, <3>5
        <4>2. req[w].base.target1 => row.target1
          BY <3>5
        <4> QED
          BY <4>1, <4>2 DEF KeepsFills
      <3> QED
        BY <3>1, <3>3, <3>6, UpToDateWrite
    <2> QED
      BY <2>1, <2>2
  <1>4. CASE CasProtect(w)
    <2> DEFINE row == [req[w].base EXCEPT !.stop = req[w].stop,
                                          !.events = @ \cup {"PROTECT"}]
    <2>1. CASE StopMoved(w, i) \/ Collides(w, i, row)
      BY <1>0, <1>4, <2>1 DEF CasProtect
    <2>2. CASE ~StopMoved(w, i) /\ ~Collides(w, i, row)
      <3>1. /\ pc[w] = "cas" /\ WriteRow(w, i, row, "stop")
            /\ pc' = [pc EXCEPT ![w] = "commit"] /\ UNCHANGED <<rows, req>>
        BY <1>4, <2>2 DEF CasProtect, Goto, ledger
      <3>2. req[w].base \in Rows
        BY <1>r, <3>1 DEF IInv, Places, Reqs
      <3>3. row \in Rows /\ SameFills(req[w].base, row)
        BY <1>r, <3>2 DEF Rows, Reqs, SameFills
      <3> HIDE DEF row
      <3> QED
        BY <3>1, <3>3, UpToDateWrite
    <2> QED
      BY <2>1, <2>2
  <1>5. CASE ReadClaim(w)
    <2>1. CASE OpenIds(w) = {}
      BY <1>0, <1>5, <2>1 DEF ReadClaim
    <2>2. CASE OpenIds(w) # {}
      <3> DEFINE r == [req[w] EXCEPT !.key = <<OpenId(w), req[w].kind>>]
      <3>1. <<OpenId(w), req[w].kind>> \in Keys
        BY <1>r, <2>2, OpenIdIsOpen DEF Reqs, Keys
      <3>2. r \in Reqs
        BY <1>r, <3>1 DEF Reqs
      <3>3. /\ pc[w] = "claim" /\ pc' = [pc EXCEPT ![w] = "claimcas"]
            /\ Take(w, r, OpenId(w)) /\ UNCHANGED <<rows, own>>
        BY <1>5, <2>2 DEF ReadClaim, Goto, ledger
      <3> HIDE DEF r
      <3> QED
        BY <2>2, <3>2, <3>3, UpToDateTake
    <2> QED
      BY <2>1, <2>2
  <1>6. CASE CasClaim(w)
    <2> DEFINE row == [req[w].base EXCEPT !.events = @ \cup {req[w].kind}]
    <2>1. CASE Abandon(w)
      BY <1>0, <2>1
    <2>2. CASE StopMoved(w, i) /\ ~Abandon(w)
      BY <1>6, <1>o, <1>q, <2>2 DEF CasClaim, Goto, ledger, history
    <2>3. CASE ~StopMoved(w, i) /\ ~Abandon(w)
      <3>1. /\ pc[w] = "claimcas" /\ WriteRow(w, i, row, "stop")
            /\ pc' = [pc EXCEPT ![w] = "sell"] /\ UNCHANGED <<rows, req>>
        BY <1>6, <2>3 DEF CasClaim, Goto, ledger
      <3>2. req[w].base \in Rows
        BY <1>r, <3>1 DEF IInv, Places, Reqs
      <3>3. row \in Rows /\ SameFills(req[w].base, row)
        BY <1>r, <3>2 DEF Rows, Reqs, SameFills
      <3> HIDE DEF row
      <3> QED
        BY <3>1, <3>3, UpToDateWrite
    <2> QED
      BY <2>1, <2>2, <2>3
  <1>7. CASE AutoSell(w)
    <2>1. CASE req[w].key \in claimed \/ held = 0
      BY <1>7, <1>o, <1>q, <2>1 DEF AutoSell, Goto, ledger, history
    <2>2. CASE ~(req[w].key \in claimed \/ held = 0)
      <3> DEFINE n == IF req[w].kind = "STOP" \/ held < req[w].qty THEN held ELSE req[w].qty
                 r == [req[w] EXCEPT !.sell = n]
      <3>1. /\ pc' = [pc EXCEPT ![w] = "pay"] /\ req' = [req EXCEPT ![w].sell = n]
            /\ UNCHANGED <<rows, own, since, lost>>
        BY <1>7, <2>2 DEF AutoSell, Goto, ledger, history
      <3> HIDE DEF n
      <3>2. req' = [req EXCEPT ![w] = r]
        BY <3>1
      <3> HIDE DEF r
      <3> QED
        BY <1>q, <3>1, <3>2
    <2> QED
      BY <2>1, <2>2
  <1>8. CASE AutoTrade(w)
    <2>1. CASE Abandon(w)
      BY <1>0, <2>1
    <2>2. CASE ~Abandon(w)
      BY <1>8, <1>o, <1>q, <2>2 DEF AutoTrade, Goto, ledger, history
    <2> QED
      BY <2>1, <2>2
  <1>9. CASE Birth(w)
    <2> DEFINE x == own'[w]
    <2>1. CASE OpenIds(w) # {}
      BY <1>9, <1>o, <1>q, <2>1 DEF Birth, Goto, ledger
    <2>2. CASE Abandon(w)
      BY <1>0, <2>2
    <2>3. CASE OpenIds(w) = {} /\ ~Abandon(w)
      <3>1. PICK y : y.by = "birth" /\ own' = [own EXCEPT ![w] = y]
        BY <1>9, <2>3 DEF Birth
      <3>2. pc' = [pc EXCEPT ![w] = "commit"] /\ UNCHANGED <<rows, req, since, lost>>
        BY <1>9, <2>3 DEF Birth, Goto, ledger, history
      <3> QED
        BY <1>o, <3>1, <3>2, UpToDateQuiet
    <2> QED
      BY <2>1, <2>2, <2>3
  <1>10. CASE EndDeadlock(w)
    BY <1>0, <1>10 DEF EndDeadlock
  <1> QED
    BY <1>1, <1>2, <1>3, <1>4, <1>5, <1>6, <1>7, <1>8, <1>9, <1>10, UpToDateCommit
       DEF Advance

LEMMA UpToDateNext == IInv /\ NothingUndone /\ [Next]_vars => NothingUndone'
  <1> SUFFICES ASSUME IInv, NothingUndone, [Next]_vars PROVE NothingUndone'
    OBVIOUS
  <1>1. CASE UNCHANGED vars
    BY <1>1 DEF vars, NothingUndone, UpToDate
  <1>2. CASE ForgetClaims
    BY <1>2 DEF ForgetClaims, ledger, history, NothingUndone, UpToDate
  <1> QED
    BY <1>1, <1>2, UpToDateBegin, UpToDateAdvance DEF Next, Done

\* Only a commit changes a committed row.
LEMMA OnlyCommitWrites ==
    ASSUME Next, rows' # rows
    PROVE  \E w \in Workers : Commit(w)
  <1>1. ASSUME NEW w \in Workers, Begin(w) PROVE rows' = rows
    BY <1>1 DEF Begin, StartExit, ReadProtect, Decide, Buy, Finish, ledger
  <1>2. ASSUME NEW w \in Workers, Advance(w) PROVE rows' = rows \/ Commit(w)
    BY <1>2 DEF Advance, ExitTrade, ReadExit, WriteExit, CasProtect, ReadClaim,
          CasClaim, AutoSell, AutoTrade, Birth, EndDeadlock, Abandon, Finish, ledger
  <1>3. ForgetClaims \/ Done => rows' = rows
    BY DEF ForgetClaims, Done, vars
  <1> QED
    BY <1>1, <1>2, <1>3 DEF Next

-----------------------------------------------------------------------------
(* The theorems.                                                             *)

\* The inductive invariant holds in every state (transactions of
\* get_db_session under lock_account and the row's FOR UPDATE).
THEOREM Invariance == Spec => []IInv
  <1> QED
    BY InitIInv, NextIInv, PTL DEF Spec

\* Type correctness, for any requests and bounds: no fill leaves a row with
\* fewer than no shares (apply_position_reduce).
THEOREM TypeCorrect == Spec => []TypeOK
  <1>1. IInv => TypeOK
    BY DEF IInv
  <1> QED
    BY <1>1, Invariance, PTL

\* Closing fills never write over each other's change of the row: lock_account
\* comes before the read of the row and lasts until the commit.
THEOREM ExitsInOrder == Spec => []ExitsSerialize
  <1>1. IInv => ExitsSerialize
    BY DEF IInv
  <1> QED
    BY <1>1, Invariance, PTL

\* Outside a money transaction the row and the ledger tell of the same shares,
\* unless a document was written over another's change or one of the listed
\* gaps came between: whatever requests run, in whatever order.
THEOREM RowsAgree == Spec => []AgreesUnlessKnown
  <1>1. RowIsLedger => AgreesUnlessKnown
    BY DEF RowIsLedger, Known, Matched, AgreesUnlessKnown
  <1>2. Spec => []RowIsLedger
    BY BalancedInit, BalancedNext, Invariance, PTL DEF Spec
  <1> QED
    BY <1>1, <1>2, PTL

\* A committed stop worsens only by an audited protect, or by a closing fill
\* that writes back the stop it read before another moved it.
THEOREM StopsKept == Spec => WorsensOnlyAudited
  <1> DEFINE Fine == \A i \in Ids :
          (rows[i] # NoRow /\ rows'[i] # NoRow /\ rows'[i].stop < rows[i].stop) =>
             \E w \in Workers : /\ pc[w] = "commit" /\ pc'[w] = "done"
                                /\ \/ w \in Protects /\ req[w].mark
                                   \/ own[w].by = "exit" /\ "stop" \in since[w]
  <1>1. ASSUME IInv, Next, NEW i \in Ids, rows[i] # NoRow, rows'[i].stop < rows[i].stop
        PROVE  \E w \in Workers : /\ pc[w] = "commit" /\ pc'[w] = "done"
                                  /\ \/ w \in Protects /\ req[w].mark
                                     \/ own[w].by = "exit" /\ "stop" \in since[w]
    <2>1. rows[i] \in Rows /\ rows[i].stop \in Int
      BY <1>1 DEF IInv, TypeOK, Rows, Stops
    <2>2. rows' # rows
      BY <1>1, <2>1
    <2>3. PICK w \in Workers : Commit(w)
      BY <1>1, <2>2, OnlyCommitWrites
    <2>4. own[w] # NoWrite /\ rows' = [rows EXCEPT ![own[w].id] = own[w].row]
      BY <2>2, <2>3 DEF Commit
    <2>5. own[w] \in Writes
      BY <1>1, <2>4 DEF IInv, TypeOK
    <2>6. own[w].id = i /\ rows'[i] = own[w].row /\ own[w].row.stop \in Int
      BY <1>1, <2>1, <2>4, <2>5 DEF IInv, TypeOK, Writes, Rows, Stops
    <2>7. pc[w] = "commit" /\ pc'[w] = "done"
      BY <1>1, <2>3 DEF Commit, IInv, TypeOK
    <2>8. own[w].by \in {"exit", "stop"}
      BY <1>1, <2>4, <2>5, <2>6 DEF IInv, OwnRows, Writes
    <2>9. ~(rows[own[w].id].stop <= own[w].row.stop)
      BY <1>1, <2>1, <2>6
    <2> QED
      BY <1>1, <2>4, <2>7, <2>8, <2>9 DEF IInv, OwnStops
  <1>2. IInv /\ [Next]_vars => [Fine]_vars
    BY <1>1
  <1> QED
    BY <1>2, Invariance, PTL DEF Spec, WorsensOnlyAudited

\* What closing fills did to a row, fewer shares and target 1 executed, is
\* undone only by a stop writer that wrote over a closing fill it had not read
\* (compare_and_swap_stop compares the stop alone).
THEOREM FillsStick == Spec => ExitsStick
  <1> DEFINE Fine == <<"stop", "exit">> \notin lost' =>
          \A i \in Ids : rows[i] # NoRow =>
              /\ rows[i].target1 => rows'[i].target1
              /\ rows'[i].remaining <= rows[i].remaining
  <1>1. ASSUME IInv, NothingUndone, Next, <<"stop", "exit">> \notin lost',
               NEW i \in Ids, rows[i] # NoRow
        PROVE  /\ rows[i].target1 => rows'[i].target1
               /\ rows'[i].remaining <= rows[i].remaining
    <2>1. rows[i].remaining \in Int
      BY <1>1, PositionAssumption DEF IInv, TypeOK, Rows
    <2>2. CASE rows' = rows
      BY <2>1, <2>2
    <2>3. CASE rows' # rows
      <3>1. PICK w \in Workers : Commit(w)
        BY <1>1, <2>3, OnlyCommitWrites
      <3>2. /\ own[w] # NoWrite /\ rows' = [rows EXCEPT ![own[w].id] = own[w].row]
            /\ lost' = lost
        BY <2>3, <3>1 DEF Commit
      <3>3. CASE own[w].id # i
        <4>1. rows'[i] = rows[i]
          BY <1>1, <3>2, <3>3 DEF IInv, TypeOK
        <4> QED
          BY <2>1, <4>1
      <3>4. CASE own[w].id = i
        <4>1. rows'[i] = own[w].row
          BY <1>1, <3>2, <3>4 DEF IInv, TypeOK
        <4>2. own[w].by \in {"exit", "stop"}
          BY <1>1, <3>2, <3>4 DEF IInv, TypeOK, OwnRows, Writes
        <4>3. UpToDate(w)
          BY <1>1, <3>2 DEF NothingUndone
        <4> QED
          BY <2>1, <3>2, <3>4, <4>1, <4>2, <4>3 DEF UpToDate, SameFills, KeepsFills
      <3> QED
        BY <3>3, <3>4
    <2> QED
      BY <2>2, <2>3
  <1>2. IInv /\ NothingUndone /\ [Next]_vars => [Fine]_vars
    BY <1>1
  <1>3. Init => NothingUndone
    BY DEF Init, NothingUndone, UpToDate
  <1> QED
    BY <1>2, <1>3, UpToDateNext, Invariance, PTL DEF Spec, ExitsStick

=============================================================================
