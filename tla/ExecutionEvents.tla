--------------------------- MODULE ExecutionEvents ---------------------------
(***************************************************************************)
(* The durable, exactly-one-owner application of captured fills            *)
(* (bolsa_application/execution_event.py) together with the money movement *)
(* it drives (ExecuteTrade, accounts/trade.py) and the background reaper   *)
(* (execution_event_reaper_worker.py).                                     *)
(*                                                                         *)
(* One row of the table execution_events per fill; one process per running *)
(* apply_execution_financial_once (recovery workers and the AUTO simulated *)
(* worker) and one per reaper.  Every SQL statement that commits is one    *)
(* step; what a transaction wrote before its commit is local to its        *)
(* process, so a crash simply forgets it.  The lease clock is abstracted   *)
(* to the flag "stale": updated_at is at least LEASE_WINDOW_SECONDS old.   *)
(***************************************************************************)
EXTENDS Naturals, FiniteSets

CONSTANTS
  Fills,        \* execution ids: "venue_order_id#fill_seq"
  Accounts,     \* investment accounts
  AccountOf,    \* [Fills -> Accounts]
  Payloads,     \* what a caller may say of a fill: price and quantity
  Workers,      \* processes that run apply_execution_financial_once
  SimWorkers,   \* those whose applier is the simulated one
  Reapers,      \* reaper processes
  OwnerName,    \* [Workers \cup Reapers -> lease owner strings]
  Nobody,       \* SQL NULL in lease_owner, and "no fill"
  MaxCalls,     \* bound: invocations of apply_execution_financial_once
  MaxReclaims,  \* bound: value of lease_generation a reclaim may reach
  MaxCrashes    \* bound: process crashes and aborted transactions

ASSUME AccountAssumption == AccountOf \in [Fills -> Accounts]
ASSUME NobodyAssumption == /\ Nobody \notin Fills \cup Workers
                           /\ Nobody \notin Payloads
                           /\ \A p \in Workers \cup Reapers : OwnerName[p] # Nobody
ASSUME ProcessAssumption == /\ SimWorkers \subseteq Workers
                            /\ Workers \cap Reapers = {}
ASSUME BoundAssumption == MaxCalls \in Nat /\ MaxReclaims \in Nat /\ MaxCrashes \in Nat

VARIABLES
  row,      \* [Fills -> row of execution_events], "ABSENT" before the capture
  booked,   \* [Fills -> Nat]: committed transactions under the fill's key
  bookedAs, \* [Fills -> payload of the committed transaction]
  lock,     \* [Accounts -> worker whose transaction holds the account row]
  worker,   \* [Workers -> local state of one apply]
  reaper,   \* [Reapers -> local state of one sweep]
  calls,    \* invocations so far
  crashes   \* crashes so far

vars == <<row, booked, bookedAs, lock, worker, reaper, calls, crashes>>
money == <<booked, bookedAs, lock>>

Statuses == {"ABSENT", "CAPTURED", "APPLYING", "APPLIED", "FAILED", "RETRY"}

\* A change: a caller that raced with the owner re-applies a finished row.
ReapplySources == {"CAPTURED", "RETRY", "FAILED", "APPLIED"}

\* Origins from which start_apply may acquire: APPLYING itself is excluded.
ApplySources == {"CAPTURED", "RETRY", "FAILED"}

\* Results of apply_execution_financial_once; "none" while a call runs.
Outcomes == {"none", "applied", "already_applied", "no_apply_another_in_progress",
             "retry_scheduled", "failed"}

Owners == {OwnerName[p] : p \in Workers \cup Reapers}

-----------------------------------------------------------------------------
\* A worker between two calls, having returned the given outcome.
Resting(outcome) ==
  [pc |-> "idle", fill |-> Nobody, payload |-> Nobody, lapsed |-> 0, fence |-> 0,
   inserted |-> FALSE, pays |-> FALSE, verdict |-> "none", outcome |-> outcome]

ReaperAtRest == [pc |-> "idle", batch |-> {}, claimed |-> {}, fill |-> Nobody, fence |-> 0]

Init ==
  /\ row = [f \in Fills |-> [status |-> "ABSENT", owner |-> Nobody, gen |-> 0, stale |-> FALSE]]
  /\ booked = [f \in Fills |-> 0]
  /\ bookedAs = [f \in Fills |-> Nobody]
  /\ lock = [a \in Accounts |-> Nobody]
  /\ worker = [w \in Workers |-> Resting("none")]
  /\ reaper = [r \in Reapers |-> ReaperAtRest]
  /\ calls = 0
  /\ crashes = 0

\* The SET clause of start_apply and reclaim_stale_apply: a new lease and token.
Leased(r, owner) == [status |-> "APPLYING", owner |-> owner, gen |-> r.gen + 1, stale |-> FALSE]

\* The SET clause of mark_applied, mark_failed and mark_retry.
Finished(r, status) == [r EXCEPT !.status = status, !.owner = Nobody, !.stale = FALSE]

\* The WHERE clause of the fenced terminals.  A terminal clears the owner, so
\* only an APPLYING row can still carry the caller's name.
HoldsFence(r, owner, fence) == r.status = "APPLYING" /\ r.owner = owner /\ r.gen = fence

\* A change: the first lease of a row never counts as expired.
LapsedAgain(r) == IF r.status = "APPLYING" /\ r.stale /\ r.gen > 1 THEN r.gen ELSE 0

\* What stale_before, computed once per call, singles out: the token of the lease
\* that had expired by then (tokens of leases start at 1).
Lapsed(r) == IF r.status = "APPLYING" /\ r.stale THEN r.gen ELSE 0

\* The WHERE clause of reclaim_stale_apply: updated_at has not moved since.
Reclaimable(r, lapsed) == r.status = "APPLYING" /\ r.gen = lapsed

\* Some transaction has inserted the row of f and not committed yet.
InsertPending(f) == \E v \in Workers : worker[v].inserted /\ worker[v].fill = f

\* A change: ExecuteTrade does not look the key up.
NeverRecorded(f) == FALSE

\* find_transaction_by_idempotency finds the fill's transaction.
Recorded(f) == booked[f] > 0

-----------------------------------------------------------------------------
(***************************************************************************)
(* apply_execution_financial_once                                          *)
(***************************************************************************)
\* capture (ON CONFLICT DO NOTHING) and the read that follows it.  The insert
\* is not committed before start_apply commits; a second insert of the same
\* key waits for the first one's transaction.
Begin(w, f, p) ==
  /\ worker[w].pc = "idle"
  /\ calls < MaxCalls
  /\ ~InsertPending(f)
  /\ calls' = calls + 1
  /\ worker' = [worker EXCEPT ![w] =
       IF row[f].status = "APPLIED"
       THEN Resting("already_applied")
       ELSE [Resting("none") EXCEPT !.pc = "captured", !.fill = f, !.payload = p,
                                    !.lapsed = Lapsed(row[f]),
                                    !.inserted = (row[f].status = "ABSENT")]]
  /\ UNCHANGED <<row, money, reaper, crashes>>

\* The exclusive CAS, committed with the pending insert.
StartApply(w) ==
  LET f == worker[w].fill IN
  /\ worker[w].pc = "captured"
  /\ IF worker[w].inserted \/ row[f].status \in ApplySources
     THEN /\ row' = [row EXCEPT ![f] = Leased(@, OwnerName[w])]
          /\ worker' = [worker EXCEPT ![w] = [@ EXCEPT !.pc = "owner", !.inserted = FALSE]]
     ELSE /\ worker' = [worker EXCEPT ![w] = [@ EXCEPT !.pc = "outrun"]]
          /\ UNCHANGED row
  /\ UNCHANGED <<money, reaper, calls, crashes>>

\* reclaim_stale_apply after a lost CAS: only an expired lease is taken over.
Reclaim(w) ==
  LET f == worker[w].fill IN
  /\ worker[w].pc = "outrun"
  /\ IF Reclaimable(row[f], worker[w].lapsed)
     THEN /\ row[f].gen < MaxReclaims
          /\ row' = [row EXCEPT ![f] = Leased(@, OwnerName[w])]
          /\ worker' = [worker EXCEPT ![w] = [@ EXCEPT !.pc = "owner"]]
     ELSE /\ worker' = [worker EXCEPT ![w] = Resting("no_apply_another_in_progress")]
          /\ UNCHANGED row
  /\ UNCHANGED <<money, reaper, calls, crashes>>

\* The fence is read back in a statement of its own, whoever owns the row now.
ReadFence(w) ==
  /\ worker[w].pc = "owner"
  /\ worker' = [worker EXCEPT ![w] = [@ EXCEPT !.pc = "fenced", !.fence = row[worker[w].fill].gen]]
  /\ UNCHANGED <<row, money, reaper, calls, crashes>>

\* ExecuteTrade up to its return: the account row is locked FOR UPDATE, the
\* idempotency key looked up, and the trade either replayed, written (to be
\* committed later), refused for good, or broken off before its first write.
\* The recovery's applier turns a reused key into False; the simulated one
\* lets it through.
Finance(w) ==
  LET f == worker[w].fill
      a == AccountOf[f]
      Leaves(v, pays) ==
        /\ worker' = [worker EXCEPT ![w] = [@ EXCEPT !.pc = "verdict", !.verdict = v, !.pays = pays]]
        /\ lock' = [lock EXCEPT ![a] = w]
  IN
  /\ worker[w].pc = "fenced"
  /\ lock[a] = Nobody
  /\ \/ Recorded(f) /\ bookedAs[f] = worker[w].payload /\ Leaves("effective", FALSE)
     \/ /\ Recorded(f) /\ bookedAs[f] # worker[w].payload
        /\ Leaves(IF w \in SimWorkers THEN "rejected" ELSE "ineffective", FALSE)
     \/ ~Recorded(f) /\ Leaves("effective", TRUE)
     \/ ~Recorded(f) /\ Leaves("rejected", FALSE)
     \/ Leaves("ineffective", FALSE)
  /\ UNCHANGED <<row, booked, bookedAs, reaper, calls, crashes>>

\* A change: a trade that did not go through is reported as done.
TerminalAlwaysApplied(verdict) ==
  CASE verdict = "rejected" -> [status |-> "FAILED", won |-> "failed",
                                lost |-> "no_apply_another_in_progress"]
    [] OTHER -> [status |-> "APPLIED", won |-> "applied", lost |-> "already_applied"]

\* The terminal the verdict asks for, and what the caller is told when the
\* fenced UPDATE matches the row and when it matches nothing.
Terminal(verdict) ==
  CASE verdict = "effective" -> [status |-> "APPLIED", won |-> "applied", lost |-> "already_applied"]
    [] verdict = "rejected"  -> [status |-> "FAILED", won |-> "failed",
                                 lost |-> "no_apply_another_in_progress"]
    [] OTHER                 -> [status |-> "RETRY", won |-> "retry_scheduled",
                                 lost |-> "no_apply_another_in_progress"]

\* mark_applied, mark_failed or mark_retry: one fenced UPDATE and the commit
\* that publishes the trade written before it, even when the UPDATE matched
\* no row.
Mark(w) ==
  LET f == worker[w].fill
      t == Terminal(worker[w].verdict)
      won == HoldsFence(row[f], OwnerName[w], worker[w].fence)
  IN
  /\ worker[w].pc = "verdict"
  /\ row' = IF won THEN [row EXCEPT ![f] = Finished(@, t.status)] ELSE row
  /\ IF worker[w].pays
     THEN /\ booked' = [booked EXCEPT ![f] = @ + 1]
          /\ bookedAs' = [bookedAs EXCEPT ![f] = worker[w].payload]
     ELSE UNCHANGED <<booked, bookedAs>>
  /\ lock' = [lock EXCEPT ![AccountOf[f]] = Nobody]
  /\ worker' = [worker EXCEPT ![w] = Resting(IF won THEN t.won ELSE t.lost)]
  /\ UNCHANGED <<reaper, calls, crashes>>

\* The process dies, or PostgreSQL aborts its transaction: the uncommitted
\* insert, trade and locks are rolled back; what was committed stays.
Crash(w) ==
  /\ worker[w].pc # "idle"
  /\ crashes < MaxCrashes
  /\ crashes' = crashes + 1
  /\ worker' = [worker EXCEPT ![w] = Resting("none")]
  /\ lock' = [a \in Accounts |-> IF lock[a] = w THEN Nobody ELSE lock[a]]
  /\ UNCHANGED <<row, booked, bookedAs, reaper, calls>>

-----------------------------------------------------------------------------
(***************************************************************************)
(* reap_stale_applying as the reaper worker runs it: without resolver or   *)
(* applier, so that every orphan is released to RETRY.                     *)
(***************************************************************************)
ReaperSelect(r) ==
  LET candidates == {f \in Fills : Lapsed(row[f]) > 0} IN
  /\ reaper[r].pc = "idle"
  /\ candidates # {}
  /\ reaper' = [reaper EXCEPT ![r] = [@ EXCEPT !.pc = "claiming",
                                       !.batch = {<<f, row[f].gen>> : f \in candidates}]]
  /\ UNCHANGED <<row, money, worker, calls, crashes>>

\* reclaim_stale_apply re-checks the row for every selected candidate.
ReaperReclaim(r, f, lapsed) ==
  /\ reaper[r].pc = "claiming"
  /\ <<f, lapsed>> \in reaper[r].batch
  /\ IF Reclaimable(row[f], lapsed)
     THEN /\ row[f].gen < MaxReclaims
          /\ row' = [row EXCEPT ![f] = Leased(@, OwnerName[r])]
          /\ reaper' = [reaper EXCEPT ![r] = [@ EXCEPT !.batch = reaper[r].batch \ {<<f, lapsed>>},
                                            !.claimed = reaper[r].claimed \cup {f}]]
     ELSE /\ reaper' = [reaper EXCEPT ![r] = [@ EXCEPT !.batch = reaper[r].batch \ {<<f, lapsed>>}]]
          /\ UNCHANGED row
  /\ UNCHANGED <<money, worker, calls, crashes>>

\* The row is read again; one that was applied meanwhile is left alone.
ReaperRead(r, f) ==
  /\ reaper[r].pc = "claiming" /\ reaper[r].batch = {}
  /\ f \in reaper[r].claimed
  /\ reaper' = [reaper EXCEPT ![r] = [@ EXCEPT !.claimed = reaper[r].claimed \ {f},
                  !.pc = IF row[f].status = "APPLIED" THEN "claiming" ELSE "releasing",
                  !.fill = f, !.fence = row[f].gen]]
  /\ UNCHANGED <<row, money, worker, calls, crashes>>

\* mark_retry("lease_expired_no_candidate") under the reaper's own fence.
ReaperRelease(r) ==
  LET f == reaper[r].fill IN
  /\ reaper[r].pc = "releasing"
  /\ row' = IF HoldsFence(row[f], OwnerName[r], reaper[r].fence)
            THEN [row EXCEPT ![f] = Finished(@, "RETRY")] ELSE row
  /\ reaper' = [reaper EXCEPT ![r] = [@ EXCEPT !.pc = "claiming"]]
  /\ UNCHANGED <<money, worker, calls, crashes>>

ReaperSleep(r) ==
  /\ reaper[r].pc = "claiming" /\ reaper[r].batch = {} /\ reaper[r].claimed = {}
  /\ reaper' = [reaper EXCEPT ![r] = ReaperAtRest]
  /\ UNCHANGED <<row, money, worker, calls, crashes>>

ReaperCrash(r) ==
  /\ reaper[r].pc # "idle"
  /\ crashes < MaxCrashes
  /\ crashes' = crashes + 1
  /\ reaper' = [reaper EXCEPT ![r] = ReaperAtRest]
  /\ UNCHANGED <<row, money, worker, calls>>

\* LEASE_WINDOW_SECONDS pass without a heartbeat: nothing renews updated_at.
LeaseExpires(f) ==
  /\ row[f].status = "APPLYING" /\ ~row[f].stale
  /\ row' = [row EXCEPT ![f].stale = TRUE]
  /\ UNCHANGED <<money, worker, reaper, calls, crashes>>

-----------------------------------------------------------------------------
WorkerStep(w) == StartApply(w) \/ Reclaim(w) \/ ReadFence(w) \/ Finance(w) \/ Mark(w)

ReaperStep(r) ==
  \/ ReaperSelect(r)
  \/ \E b \in reaper[r].batch : ReaperReclaim(r, b[1], b[2])
  \/ \E f \in Fills : ReaperRead(r, f)
  \/ ReaperRelease(r)
  \/ ReaperSleep(r)

Next ==
  \/ \E w \in Workers, f \in Fills, p \in Payloads : Begin(w, f, p)
  \/ \E w \in Workers : WorkerStep(w) \/ Crash(w)
  \/ \E r \in Reapers : ReaperStep(r) \/ ReaperCrash(r)
  \/ \E f \in Fills : LeaseExpires(f)

Spec == Init /\ [][Next]_vars

\* A started call runs on unless it crashes, the reaper ticks for ever and time
\* passes; nobody promises that a call is ever made.
Fairness ==
  /\ \A w \in Workers : WF_vars(WorkerStep(w))
  /\ \A r \in Reapers : WF_vars(ReaperStep(r))
  /\ \A f \in Fills : WF_vars(LeaseExpires(f))

FairSpec == Spec /\ Fairness

-----------------------------------------------------------------------------
(***************************************************************************)
(* Properties                                                              *)
(***************************************************************************)
Rows == [status : Statuses, owner : Owners \cup {Nobody}, gen : Nat, stale : BOOLEAN]

WorkerStates ==
  [pc : {"idle", "captured", "outrun", "owner", "fenced", "verdict"},
   fill : Fills \cup {Nobody}, payload : Payloads \cup {Nobody},
   lapsed : Nat, fence : Nat, inserted : BOOLEAN, pays : BOOLEAN,
   verdict : {"none", "effective", "ineffective", "rejected"}, outcome : Outcomes]

ReaperStates ==
  [pc : {"idle", "claiming", "releasing"}, batch : SUBSET (Fills \X Nat),
   claimed : SUBSET Fills, fill : Fills \cup {Nobody}, fence : Nat]

TypeOK ==
  /\ row \in [Fills -> Rows]
  /\ booked \in [Fills -> Nat]
  /\ bookedAs \in [Fills -> Payloads \cup {Nobody}]
  /\ lock \in [Accounts -> Workers \cup {Nobody}]
  /\ worker \in [Workers -> WorkerStates]
  /\ reaper \in [Reapers -> ReaperStates]
  /\ calls \in Nat
  /\ crashes \in Nat

\* A fill moves money at most once, whatever crashes, lapsed leases, thefts and
\* concurrent calls happen in between (the invariant C3 of
\* apply_execution_financial_once, "nunca 100+100").
MoneyAtMostOnce == \A f \in Fills : booked[f] <= 1

\* A row that says APPLIED stands for money that is committed, never for a trade
\* that a crash has rolled back ("nunca 100+0").
AppliedIsBooked == \A f \in Fills : row[f].status = "APPLIED" => booked[f] = 1

\* No later call, thief or reaper takes a row out of APPLIED, and no token is
\* issued twice: the generation changes exactly when the lease changes hands.
AppliedIsFinal ==
  [][\A f \in Fills : /\ row[f].status = "APPLIED" => row'[f] = row[f]
                      /\ row'[f].gen >= row[f].gen
                      /\ row'[f].owner \notin {row[f].owner, Nobody} => row'[f].gen > row[f].gen]_vars

\* The fill stays in nobody's hands for ever: a row left APPLYING by a dead
\* worker is eventually released or finished.
OrphansAreReleased ==
  \A f \in Fills : row[f].status = "APPLYING" ~> row[f].status # "APPLYING"

\* The abstract promise of FillOnce, with "settled" read off the rows.
Promise == INSTANCE FillOnce WITH money <- booked,
                                  settled <- {f \in Fills : row[f].status = "APPLIED"}
KeepsPromise == Promise!Spec

\* Why the money moves once: a trade waiting for its commit is the only one of
\* its account, was written because the key was free, and every caller that
\* reports success holds such a trade or has found a committed one.  A pending
\* insert of the row is the only one and the row is not there yet.
FinanceInv ==
  /\ MoneyAtMostOnce
  /\ AppliedIsBooked
  /\ \A w \in Workers :
       /\ worker[w].pc # "idle" => worker[w].fill \in Fills
       /\ worker[w].pc = "verdict" => lock[AccountOf[worker[w].fill]] = w
       /\ worker[w].pays => /\ worker[w].pc = "verdict"
                            /\ booked[worker[w].fill] = 0
       /\ worker[w].pc = "verdict" /\ worker[w].verdict = "effective" /\ ~worker[w].pays
            => booked[worker[w].fill] = 1

CaptureInv ==
  \A w \in Workers :
    worker[w].inserted =>
      /\ worker[w].pc = "captured"
      /\ row[worker[w].fill].status = "ABSENT"
      /\ \A v \in Workers : worker[v].inserted /\ worker[v].fill = worker[w].fill => v = w

IInv == TypeOK /\ FinanceInv /\ CaptureInv
=============================================================================
