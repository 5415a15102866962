--------------------------- MODULE LifecycleOutbox ---------------------------
(***************************************************************************)
(* The lifecycle outbox: a fill or a protective stop leaves a row in       *)
(* lifecycle_outbox in the transaction of its position, and workers carry  *)
(* the rows to the event logs, those of one position in the order they     *)
(* were written.                                                           *)
(*                                                                         *)
(* A worker claims rows in one transaction and applies each in another.    *)
(* An apply holds the lock of the position's aggregate from its look at    *)
(* the log to its commit, and reads nothing of the row, so it is one step. *)
(* The kick after a request, and the drain at startup, claim and apply in  *)
(* a single transaction: its claims stay locked until it commits, and if   *)
(* it fails it leaves nothing.                                             *)
(***************************************************************************)
EXTENDS LifecycleLog, FiniteSets

CONSTANTS
  Queued,       \* the events that come through the outbox
  Semi,         \* those of a confirmed protection, written behind a gate
  Workers,      \* processes that run the worker loop
  MaxAttempts,  \* OUTBOX_MAX_ATTEMPTS
  MaxFaults     \* bound on crashes and rolled back applications

\* The others are posted to the log by the HTTP route
Posted == Events \ Queued

ASSUME OutboxAssumption ==
  /\ Queued \subseteq Events
  /\ Semi \subseteq Queued
  /\ MaxAttempts \in Nat \ {0}
  /\ MaxFaults \in Nat

VARIABLES
  log,      \* lifecycle_events, by position
  row,      \* lifecycle_outbox, by event
  clock,    \* the last created_at
  batch,    \* by worker, the rows of its batch and their attempts when claimed
  asked,    \* the rows a request to requeue has found dead
  faults

vars == <<log, row, clock, batch, asked, faults>>

(***************************************************************************)
(* A row of the outbox.  due says that next_attempt_at has come, lapsed    *)
(* that claimed_at is OUTBOX_STALE_PROCESSING_SECONDS old.                 *)
(***************************************************************************)
Statuses == {"absent", "pending", "processing", "applied", "dead"}
Active == {"pending", "processing", "dead"}

Rows == [status : Statuses, attempts : Nat, created : Nat, due : BOOLEAN, lapsed : BOOLEAN]

Absent == [status |-> "absent", attempts |-> 0, created |-> 0, due |-> TRUE, lapsed |-> FALSE]

Fresh(n) == [Absent EXCEPT !.status = "pending", !.created = n]

Claimed(r) == [r EXCEPT !.status = "processing", !.lapsed = FALSE]

MarkApplied(r) == [r EXCEPT !.status = "applied", !.due = TRUE, !.lapsed = FALSE]

\* mark_attempt: the count is the row's, the verdict that of the claimed copy
MarkAttempt(r, claimedAttempts) ==
  IF claimedAttempts + 1 >= MaxAttempts
    THEN [r EXCEPT !.status = "dead", !.attempts = r.attempts + 1, !.due = TRUE, !.lapsed = FALSE]
    ELSE [r EXCEPT !.status = "pending", !.attempts = r.attempts + 1, !.due = FALSE, !.lapsed = FALSE]

\* requeue: the columns it changes of the dead row it has read
Requeued(r) == [r EXCEPT !.status = "pending", !.attempts = 0]

\* One of apply_lifecycle_outbox_row: the result of the append is not looked at
SettledBlindly(r, accepted, claimedAttempts) == MarkApplied(r)

Settled(r, accepted, claimedAttempts) ==
  IF accepted THEN MarkApplied(r) ELSE MarkAttempt(r, claimedAttempts)

Before(f, e) ==
  /\ PositionOf[f] = PositionOf[e]
  /\ 0 < row[f].created
  /\ row[f].created < row[e].created

LogOf(e) == log[PositionOf[e]]

Init ==
  /\ log = [p \in Positions |-> <<>>]
  /\ row = [e \in Queued |-> Absent]
  /\ clock = 0
  /\ batch = [w \in Workers |-> {}]
  /\ asked = {}
  /\ faults = 0

(***************************************************************************)
(* Writers.  A position has rows only after one that opens it, and none    *)
(* after the one that closes it.  A second opening fill leaves the row of  *)
(* the position alone and is enqueued as one more opening.  A writer holds *)
(* the row lock of the position or, after a trade, of the account before   *)
(* it reads the clock for created_at: the rows of one position are         *)
(* committed in the order of their stamps.  A second enqueue of one        *)
(* transaction changes nothing.                                            *)
(***************************************************************************)
Written(p, kind) ==
  \E f \in Queued : PositionOf[f] = p /\ KindOf[f] = kind /\ row[f].status # "absent"

TRAIL_ALLOWED_STAGES == {"t1_executed", "trailing", "t2_executed"}

Enqueue(e) ==
  /\ row[e].status = "absent"
  /\ KindOf[e] = "POSITION_OPENED" \/ Written(PositionOf[e], "POSITION_OPENED")
  /\ ~Written(PositionOf[e], "POSITION_CLOSED")
  /\ e \in Semi => Stage(LogOf(e)) \in TRAIL_ALLOWED_STAGES
  /\ clock' = clock + 1
  /\ row' = [row EXCEPT ![e] = Fresh(clock + 1)]
  /\ UNCHANGED <<log, batch, asked, faults>>

Post(e) ==
  /\ Accepts(LogOf(e), e)
  /\ log' = [log EXCEPT ![PositionOf[e]] = Appended(LogOf(e), e)]
  /\ UNCHANGED <<row, clock, batch, asked, faults>>

(***************************************************************************)
(* claim_batch: of each position the first row that is not applied, if it  *)
(* is due or its claim has lapsed.  Rows another transaction holds at the  *)
(* moment are passed by.                                                   *)
(***************************************************************************)
\* A change: a row under way is passed by
PassesBusy(e) == \A f \in Queued : Before(f, e) => row[f].status \notin {"pending", "dead"}

IsHead(e) == \A f \in Queued : Before(f, e) => row[f].status \notin Active

\* Changes of the claim: any row that is due, and no claim that lapsed
AnyDue(e) ==
  \/ row[e].status = "pending" /\ row[e].due
  \/ row[e].status = "processing" /\ row[e].lapsed
NeverReclaimed(e) == IsHead(e) /\ row[e].status = "pending" /\ row[e].due

Claimable(e) ==
  /\ IsHead(e)
  /\ \/ row[e].status = "pending" /\ row[e].due
     \/ row[e].status = "processing" /\ row[e].lapsed

Heads == {e \in Queued : Claimable(e)}

Claim(w, S) ==
  /\ batch[w] = {}
  /\ S # {}
  /\ S \subseteq Heads
  /\ row' = [e \in Queued |-> IF e \in S THEN Claimed(row[e]) ELSE row[e]]
  /\ batch' = [batch EXCEPT ![w] = {[event |-> e, attempts |-> row[e].attempts] : e \in S}]
  /\ UNCHANGED <<log, clock, asked, faults>>

(***************************************************************************)
(* apply_lifecycle_outbox_row and its commit, for the next row of a batch. *)
(* Nothing asks whether the row is still this worker's.                    *)
(***************************************************************************)
NextOf(w, b) ==
  /\ b \in batch[w]
  /\ \A c \in batch[w] : row[b.event].created <= row[c.event].created

Apply(w) ==
  \E b \in batch[w] :
    /\ NextOf(w, b)
    /\ LET e == b.event IN
         /\ log' = [log EXCEPT ![PositionOf[e]] = Appended(LogOf(e), e)]
         /\ row' = [row EXCEPT ![e] = Settled(row[e], Accepts(LogOf(e), e), b.attempts)]
    /\ batch' = [batch EXCEPT ![w] = batch[w] \ {b}]
    /\ UNCHANGED <<clock, asked, faults>>

\* An exception rolls the application back and the row stays processing; or
\* the process stops and is started again without its batch
Interrupted(w) ==
  /\ faults < MaxFaults
  /\ \E b \in batch[w] :
       NextOf(w, b) /\ \E left \in {batch[w] \ {b}, {}} : batch' = [batch EXCEPT ![w] = left]
  /\ faults' = faults + 1
  /\ UNCHANGED <<log, row, clock, asked>>

\* drain_lifecycle_outbox on a session of its own
Kick(S) ==
  /\ S # {}
  /\ S \subseteq Heads
  /\ row' = [e \in Queued |->
               IF e \in S THEN Settled(row[e], Accepts(LogOf(e), e), row[e].attempts)
                          ELSE row[e]]
  /\ log' = [p \in Positions |->
               IF \E e \in S : PositionOf[e] = p
                 THEN Appended(log[p], CHOOSE e \in S : PositionOf[e] = p)
                 ELSE log[p]]
  /\ UNCHANGED <<clock, batch, asked, faults>>

(***************************************************************************)
(* The operator's route.  It reads the row and checks it before it looks   *)
(* up the account, and writes it without reading it again: a late worker   *)
(* may have applied it, or revived it, in between.                         *)
(***************************************************************************)
AskRequeue(e) ==
  /\ row[e].status = "dead"
  /\ asked' = asked \cup {e}
  /\ UNCHANGED <<log, row, clock, batch, faults>>

Requeue(e) ==
  /\ e \in asked
  /\ asked' = asked \ {e}
  /\ row' = [row EXCEPT ![e] = Requeued(row[e])]
  /\ UNCHANGED <<log, clock, batch, faults>>

(***************************************************************************)
(* Time.                                                                   *)
(***************************************************************************)
BackoffElapses(e) ==
  /\ row[e].status = "pending" /\ ~row[e].due
  /\ row' = [row EXCEPT ![e] = [row[e] EXCEPT !.due = TRUE]]
  /\ UNCHANGED <<log, clock, batch, asked, faults>>

ClaimLapses(e) ==
  /\ row[e].status = "processing" /\ ~row[e].lapsed
  /\ row' = [row EXCEPT ![e] = [row[e] EXCEPT !.lapsed = TRUE]]
  /\ UNCHANGED <<log, clock, batch, asked, faults>>

\* Only the first row of a position ever has a backoff or a claim to run out
TimePasses(p) ==
  \E e \in Queued : PositionOf[e] = p /\ (BackoffElapses(e) \/ ClaimLapses(e))

Next ==
  \/ \E e \in Queued : Enqueue(e) \/ AskRequeue(e) \/ Requeue(e)
  \/ \E p \in Positions : TimePasses(p)
  \/ \E e \in Posted : Post(e)
  \/ \E S \in SUBSET Heads : Kick(S)
  \/ \E w \in Workers :
       \/ \E S \in SUBSET Heads : Claim(w, S)
       \/ Apply(w)
       \/ Interrupted(w)

Spec == Init /\ [][Next]_vars

\* The loop polls, its batches go on and time passes; nobody has to kick, to
\* requeue or to write.  A row is passed by only while another transaction
\* holds it, which is not at every poll: Claim is fair even to a worker that
\* is busy in between.
Fairness ==
  /\ \A w \in Workers : SF_vars(Claim(w, Heads)) /\ WF_vars(Apply(w))
  /\ \A p \in Positions : WF_vars(TimePasses(p))

FairSpec == Spec /\ Fairness

(***************************************************************************)
(* Properties.                                                             *)
(***************************************************************************)

\* Every variable holds a value of its kind.
TypeOK ==
  /\ log \in [Positions -> Seq([event : Events, kind : Kinds, at : Nat])]
  /\ row \in [Queued -> Rows]
  /\ clock \in Nat
  /\ batch \in [Workers -> SUBSET [event : Queued, attempts : Nat]]
  /\ asked \in SUBSET Queued
  /\ faults \in 0..MaxFaults

\* A second target that was logged behind a trigger announced by hand: a later
\* trail makes its replay look for a trigger of its own, which comes too late
Alone(e) == KindOf[e] = "T2_EXECUTED" /\ ~HasTrigger(LogOf(e), e)

\* A row that is applied has its event in the log, for the append and
\* mark_applied are one commit; and an event that is in the log never ends as a
\* dead letter, whatever late worker or requeue puts its row back, unless it is
\* an execution logged without its own trigger.
AppliedIsLogged ==
  \A e \in Queued :
    /\ row[e].status = "applied" => Has(LogOf(e), e)
    /\ Has(LogOf(e), e) /\ row[e].status = "dead" => Alone(e)

\* A row that was applied stays applied: no late worker's mark_attempt puts it
\* back in front of the queue of its position.  Two things do: the write of a
\* requeue that had found it dead, and the refused replay of an execution that
\* was logged without its own trigger.
AppliedIsFinal ==
  [][\A e \in Queued :
       row[e].status = "applied"
         => row'[e].status = "applied" \/ e \in asked \ asked' \/ Alone(e)]_vars

Once(l) ==
  \A i, j \in 1..Len(l) : l[i].event = l[j].event /\ l[i].kind = l[j].kind => i = j

\* The log has an event once, although its row is delivered at least once.
LoggedOnce == \A p \in Positions : Once(log[p])

\* Rows of one position reach its log in the order they were written; a dead
\* row is not passed by.
InOrder ==
  \A e, f \in Queued :
    Before(f, e) /\ Has(LogOf(e), e) => Has(LogOf(f), f)

\* Of two rows of one position that are under way, the first is only a row put
\* back whose event is in the log: two workers never work on two events of a
\* position, which only the order of the claims ensures.
OneHeadAtATime ==
  \A e, f \in Queued :
    Before(f, e) /\ row[e].status = "processing" /\ row[f].status = "processing"
      => Has(LogOf(f), f)

\* Every log reduces to a stage, in the order of its events' times, and the
\* trigger that stands in for a second target is followed by its execution:
\* no crash between the two, and no other writer, comes in between.
LogIsSound ==
  \A p \in Positions :
    /\ Stage(log[p]) \in Stages
    /\ \A i \in 1..Len(log[p]) - 1 : log[p][i].at <= log[p][i + 1].at
    /\ \A i \in 1..Len(log[p]) :
         log[p][i].kind = "T2_TRIGGERED" /\ log[p][i].event \in Queued
           /\ KindOf[log[p][i].event] = "T2_EXECUTED"
         => i < Len(log[p]) /\ log[p][i + 1] = Entry(log[p][i].event)

(***************************************************************************)
(* The inductive invariant.  Reached is what makes a late worker harmless: *)
(* whatever was ever claimed, in whoever's batch it still is, had the      *)
(* events of all rows before it in the log, and so still has.              *)
(***************************************************************************)
Stamped ==
  \A e \in Queued :
    /\ row[e].created <= clock
    /\ row[e].status = "absent" <=> row[e].created = 0

StampsDiffer ==
  \A e, f \in Queued : 0 < row[e].created /\ row[e].created = row[f].created => e = f

InBatch(e) == \E w \in Workers : \E b \in batch[w] : b.event = e

WasClaimed(e) ==
  \/ row[e].status \in {"processing", "applied", "dead"}
  \/ Has(LogOf(e), e)
  \/ InBatch(e)

Ready(e) ==
  /\ row[e].status # "absent"
  /\ \A f \in Queued : Before(f, e) => Has(LogOf(f), f)

Reached == \A e \in Queued : WasClaimed(e) => Ready(e)

AskedWasClaimed == \A e \in asked : row[e].status # "absent"

Own(l, p) == \A i \in 1..Len(l) : PositionOf[l[i].event] = p /\ Has(l, l[i].event)

OwnEntries == \A p \in Positions : Own(log[p], p)

IInv ==
  /\ TypeOK
  /\ Stamped
  /\ StampsDiffer
  /\ Reached
  /\ AskedWasClaimed
  /\ AppliedIsLogged
  /\ OwnEntries
  /\ LoggedOnce

Resolved(e) ==
  \/ row[e].status \in {"absent", "applied"}
  \/ \E f \in Queued : (f = e \/ Before(f, e)) /\ row[f].status = "dead"

\* With workers that poll and time that passes, a position never keeps a row
\* that is neither applied nor held up by one that was given up: not after a
\* crash, a rolled back application, a lapsed claim or a backoff, and whatever
\* an operator requeues.
RowsSettle ==
  \A p \in Positions :
    []<>(\A e \in Queued : PositionOf[e] = p => Resolved(e))

\* The outbox is a queue with a lane for each position.
Delivery == INSTANCE OrderedDelivery WITH
    Items <- Queued, Lanes <- Positions,
    LaneOf <- [e \in Queued |-> PositionOf[e]],
    created <- [e \in Queued |-> row[e].created],
    delivered <- {e \in Queued : Has(LogOf(e), e)}

\* It delivers every row once and after those written before it: the whole of
\* what the two transactions of a worker, the kick, the lapse of claims and
\* the retries are to amount to.
IsOrderedDelivery == Delivery!Spec
=============================================================================
