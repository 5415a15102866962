---------------------------- MODULE LiveRecovery ----------------------------
(***************************************************************************)
(* Live orders whose outcome is UNKNOWN and the recovery workers that ask  *)
(* the venue for it (live_order_store.py, cognitive/live_order.py,         *)
(* live_order_recovery_worker.py, recovery_apply.py).                      *)
(*                                                                         *)
(* A worker's tick claims the UNKNOWN rows it finds neither locked nor     *)
(* freshly claimed, asks the venue about them one by one, writes what it   *)
(* learns with an unconditional upsert that commits, and at the end moves  *)
(* the money of the fills it resolved.  A tick works on the copies of the  *)
(* rows it read when it claimed them; every claimed copy is UNKNOWN with   *)
(* nothing filled, so that a batch is a set of orders.  The rows stay      *)
(* locked until the first commit of the tick, which also publishes the     *)
(* claims of the whole batch, stamped with the time of the claim.          *)
(*                                                                         *)
(* The financial switch is on and the venue attests fill_seq and price.    *)
(* One application of a fill is one step here: ExecutionEvents shows what  *)
(* that step stands for.  Quantities are in units of the smallest fill.    *)
(***************************************************************************)
EXTENDS Naturals, FiniteSets

CONSTANTS
  Orders,       \* order ids
  Quantity,     \* quantity of every order
  Workers,      \* recovery workers, one per process of the API
  Nobody,       \* no worker
  SlowBatches,  \* may a claim lapse while its worker still has the row ahead of it?
  MaxFaults     \* bound: crashes, unanswered queries and failed applications

ASSUME QuantityAssumption == Quantity \in Nat \ {0}
ASSUME NobodyAssumption == Nobody \notin Workers
ASSUME SlowAssumption == SlowBatches \in BOOLEAN
ASSUME FaultsAssumption == MaxFaults \in Nat

VARIABLES
  row,     \* [Orders -> row of live_orders], "ABSENT" before Confirm writes it
  lock,    \* [Orders -> worker whose transaction holds the row]
  venue,   \* [Orders -> what the broker has done with the order]
  worker,  \* [Workers -> local state of a tick]
  event,   \* [Orders \X fill_seq -> fate of the fill in execution_events]
  booked,  \* [Orders -> Nat]: quantity whose money has moved
  faults   \* faults so far

vars == <<row, lock, venue, worker, event, booked, faults>>
money == <<event, booked>>

Terminal == {"FILLED", "REJECTED", "CANCELLED"}
Statuses == Terminal \cup {"ABSENT", "UNKNOWN", "WORKING", "PARTIAL"}
Seqs == 1..Quantity

-----------------------------------------------------------------------------
\* A tick at work: the orders of its batch it has not dealt with yet, the one it has
\* an answer about, and the fills it resolved, <<order, quantity, fill_seq>>.
Tick(pc, batch, fills) ==
  [pc |-> pc, batch |-> batch, order |-> Nobody,
   answer |-> [outcome |-> "none", filled |-> 0, seq |-> 0], fills |-> fills]

Resting == Tick("idle", {}, {})

Init ==
  /\ row = [o \in Orders |-> [status |-> "ABSENT", filled |-> 0, bound |-> FALSE, claim |-> "none"]]
  /\ lock = [o \in Orders |-> Nobody]
  /\ venue = [o \in Orders |-> [state |-> "working", filled |-> 0, seq |-> 0]]
  /\ worker = [w \in Workers |-> Resting]
  /\ event = [o \in Orders |-> [s \in Seqs |-> "ABSENT"]]
  /\ booked = [o \in Orders |-> 0]
  /\ faults = 0

Fault == faults < MaxFaults /\ faults' = faults + 1

-----------------------------------------------------------------------------
(***************************************************************************)
(* The venue, and the request that sent the order                          *)
(***************************************************************************)
\* persist_after_submit: the venue answered "filled" at once (bound to a venue id)
\* or did not answer (no id).  Orders it answered with "submitted" are SUBMITTED,
\* which no worker looks at.
Submit(o) ==
  /\ row[o].status = "ABSENT"
  /\ \E b \in BOOLEAN :
       row' = [row EXCEPT ![o] = [status |-> "UNKNOWN", filled |-> 0, bound |-> b, claim |-> "none"]]
  /\ UNCHANGED <<lock, venue, worker, money, faults>>

\* The broker fills some more of the order, under the next fill_seq.
VenueFills(o) ==
  /\ venue[o].state = "working"
  /\ \E n \in 1..(Quantity - venue[o].filled) :
       venue' = [venue EXCEPT ![o] =
         [state |-> IF venue[o].filled + n = Quantity THEN "filled" ELSE "working",
          filled |-> venue[o].filled + n, seq |-> venue[o].seq + 1]]
  /\ UNCHANGED <<row, lock, worker, money, faults>>

\* The broker rejects the order, or cancels what is left of it.
VenueEnds(o) ==
  /\ venue[o].state = "working"
  /\ \E s \in {"cancelled", "rejected"} :
       /\ s = "rejected" => venue[o].filled = 0
       /\ venue' = [venue EXCEPT ![o].state = s]
  /\ UNCHANGED <<row, lock, worker, money, faults>>

\* What GET /orders/{id} says of the order.
Outcome(v) == IF v.state = "working" /\ v.filled > 0 THEN "partial" ELSE v.state

-----------------------------------------------------------------------------
(***************************************************************************)
(* The claim                                                               *)
(***************************************************************************)
\* A change: the claim of another worker is not looked at.
IgnoresClaim(o) == row[o].status = "UNKNOWN" /\ lock[o] = Nobody

\* A change: a claimed row is never claimed again.
NeverClaimed(o) == row[o].status = "UNKNOWN" /\ row[o].claim = "none" /\ lock[o] = Nobody

\* A change: partially filled orders are followed up.
Unfinished(o) ==
  row[o].status \in {"UNKNOWN", "PARTIAL"} /\ row[o].claim # "fresh" /\ lock[o] = Nobody

\* The WHERE clause of claim_unknown_batch, and SKIP LOCKED.
Claimable(o) == row[o].status = "UNKNOWN" /\ row[o].claim # "fresh" /\ lock[o] = Nobody

\* The claims are flushed, not committed: only the row locks protect them.
\* The batch limit of 50 is above the number of orders.
Claim(w) ==
  LET batch == {o \in Orders : Claimable(o)} IN
  /\ worker[w].pc = "idle"
  /\ batch # {}
  /\ lock' = [o \in Orders |-> IF o \in batch THEN w ELSE lock[o]]
  /\ worker' = [worker EXCEPT ![w] = Tick("draining", batch, {})]
  /\ UNCHANGED <<row, venue, money, faults>>

\* LIVE_RECOVERY_CLAIM_STALE_SECONDS pass after the claim (120 by default).  A batch
\* of 50 queries with a timeout of 5 seconds each can take longer than that.
ClaimLapses(o) ==
  /\ row[o].claim = "fresh"
  /\ SlowBatches \/ \A w \in Workers : o \notin worker[w].batch
  /\ row' = [row EXCEPT ![o].claim = "stale"]
  /\ UNCHANGED <<lock, venue, worker, money, faults>>

-----------------------------------------------------------------------------
(***************************************************************************)
(* The drain: one order at a time                                          *)
(***************************************************************************)
Unavailable == [outcome |-> "unavailable", filled |-> 0, seq |-> 0]

\* query_broker_order: the truth of this moment; nothing (no venue id, timeout,
\* HTTP error); or, from a bridge that reports no quantity, a fill of zero.
Query(w, o) ==
  LET truth == [outcome |-> Outcome(venue[o]), filled |-> venue[o].filled, seq |-> venue[o].seq]
  IN /\ worker[w].pc = "draining" /\ o \in worker[w].batch
     /\ \E answer \in {Unavailable, truth, [truth EXCEPT !.filled = 0]} :
          /\ worker' = [worker EXCEPT ![w].pc = "answered", ![w].order = o, ![w].answer = answer]
          /\ \/ row[o].bound /\ answer = truth /\ UNCHANGED faults
             \/ row[o].bound /\ answer # truth /\ Fault
             \/ ~row[o].bound /\ answer = Unavailable /\ UNCHANGED faults
     /\ UNCHANGED <<row, lock, venue, money>>

\* to_live_status: what an answer of the venue makes of the order.
LiveStatus == [working |-> "WORKING", partial |-> "PARTIAL", filled |-> "FILLED",
               cancelled |-> "CANCELLED", rejected |-> "REJECTED"]

\* An unanswered query leaves the order UNKNOWN.
Target(a) == IF a.outcome = "unavailable" THEN "UNKNOWN" ELSE LiveStatus[a.outcome]

IsFill(a) == a.outcome \in {"partial", "filled"}

\* A change: a terminal status is accepted with whatever quantity came along.
AnyQuantity(a) == a.outcome = "partial" => 0 < a.filled /\ a.filled < Quantity

\* transition_live_order raises on the other answers: the row is not written.
Legal(a) == /\ a.outcome = "filled"  => a.filled = Quantity
            /\ a.outcome = "partial" => 0 < a.filled /\ a.filled < Quantity

\* The rows whose lock w holds get the claim it stamped on them.
Published(w) == [o \in Orders |-> [row[o] EXCEPT !.claim = IF lock[o] = w THEN "fresh" ELSE @]]
ReleasedBy(w) == [o \in Orders |-> IF lock[o] = w THEN Nobody ELSE lock[o]]

\* Only FILLED and PARTIAL carry the quantity of the answer over to the row.
Written(r, a) == [r EXCEPT !.status = Target(a), !.filled = IF IsFill(a) THEN a.filled ELSE 0]

Past(w, o) == worker[w].batch \ {o}
AfterOrder(w, o) == IF Past(w, o) = {} THEN "applying" ELSE "draining"

\* resolve_one_unknown: the upsert ON CONFLICT DO UPDATE, without any condition on
\* the row it replaces; it waits for whoever holds the row and commits.
Put(w) ==
  LET o == worker[w].order
      a == worker[w].answer
  IN /\ worker[w].pc = "answered" /\ Legal(a)
     /\ lock[o] \in {Nobody, w}
     /\ row' = [Published(w) EXCEPT ![o] = Written(@, a)]
     /\ lock' = ReleasedBy(w)
     /\ worker' = [worker EXCEPT ![w] = Tick(AfterOrder(w, o), Past(w, o),
          worker[w].fills \cup IF IsFill(a) THEN {<<o, a.filled, a.seq>>} ELSE {})]
     /\ UNCHANGED <<venue, money, faults>>

\* The transition is illegal: the order counts as an error of the tick.
Skip(w) ==
  LET o == worker[w].order IN
  /\ worker[w].pc = "answered" /\ ~Legal(worker[w].answer)
  /\ worker' = [worker EXCEPT ![w] = Tick(AfterOrder(w, o), Past(w, o), worker[w].fills)]
  /\ UNCHANGED <<row, lock, venue, money, faults>>

-----------------------------------------------------------------------------
(***************************************************************************)
(* The money of the tick                                                   *)
(***************************************************************************)
\* apply_execution_financial_once for execution_id = venue_order_id#fill_seq: it
\* does nothing once the row is APPLIED, and leaves RETRY or FAILED when the trade
\* does not go through.
Apply(w) ==
  /\ worker[w].pc = "applying"
  /\ \E f \in worker[w].fills :
       LET o == f[1]
           s == f[3]
       IN /\ worker' = [worker EXCEPT ![w].fills = @ \ {f}]
          /\ \/ /\ event[o][s] = "APPLIED"
                /\ UNCHANGED <<money, faults>>
             \/ /\ event[o][s] # "APPLIED"
                /\ event' = [event EXCEPT ![o][s] = "APPLIED"]
                /\ booked' = [booked EXCEPT ![o] = @ + f[2]]
                /\ UNCHANGED faults
             \/ /\ event[o][s] # "APPLIED"
                /\ Fault
                /\ \E verdict \in {"RETRY", "FAILED"} : event' = [event EXCEPT ![o][s] = verdict]
                /\ UNCHANGED booked
  /\ UNCHANGED <<row, lock, venue>>

\* The tick ends and its session closes: what it did not commit is rolled back.
EndTick(w) ==
  /\ worker[w].pc = "applying" /\ worker[w].fills = {}
  /\ worker' = [worker EXCEPT ![w] = Resting]
  /\ lock' = ReleasedBy(w)
  /\ UNCHANGED <<row, venue, money, faults>>

Crash(w) ==
  /\ worker[w].pc # "idle"
  /\ Fault
  /\ worker' = [worker EXCEPT ![w] = Resting]
  /\ lock' = ReleasedBy(w)
  /\ UNCHANGED <<row, venue, money>>

-----------------------------------------------------------------------------
WorkerStep(w) ==
  \/ Claim(w)
  \/ \E o \in Orders : Query(w, o)
  \/ Put(w)
  \/ Skip(w)
  \/ Apply(w)
  \/ EndTick(w)

Next ==
  \/ \E o \in Orders : Submit(o) \/ VenueFills(o) \/ VenueEnds(o) \/ ClaimLapses(o)
  \/ \E w \in Workers : WorkerStep(w) \/ Crash(w)

Spec == Init /\ [][Next]_vars

\* Workers run for ever and time passes; the venue and the operator owe nothing.
FairSpec ==
  /\ Spec
  /\ \A w \in Workers : WF_vars(WorkerStep(w))
  /\ \A o \in Orders : WF_vars(ClaimLapses(o))

-----------------------------------------------------------------------------
(***************************************************************************)
(* Properties                                                              *)
(***************************************************************************)
\* Every variable stays within its type: the shapes of LiveOrderRow and of a tick.
TypeOK ==
  /\ row \in [Orders -> [status : Statuses, filled : 0..Quantity, bound : BOOLEAN,
                        claim : {"none", "fresh", "stale"}]]
  /\ lock \in [Orders -> Workers \cup {Nobody}]
  /\ venue \in [Orders -> [state : {"working", "filled", "cancelled", "rejected"},
                          filled : 0..Quantity, seq : Nat]]
  /\ worker \in [Workers ->
       [pc : {"idle", "draining", "answered", "applying"}, batch : SUBSET Orders,
        order : Orders \cup {Nobody},
        answer : [outcome : {"none", "unavailable", "working", "partial", "filled", "cancelled",
                             "rejected"}, filled : 0..Quantity, seq : Nat],
        fills : SUBSET (Orders \X (0..Quantity) \X Nat)]]
  /\ event \in [Orders -> [Seqs -> {"ABSENT", "RETRY", "FAILED", "APPLIED"}]]
  /\ booked \in [Orders -> Nat]
  /\ faults \in 0..MaxFaults

\* "No se fabrica cierre": whatever the workers do to one another, a row never says
\* more than the venue has done: no quantity it did not fill, no end it did not
\* decide (resolve_one_unknown, fail-closed).
NothingInvented ==
  \A o \in Orders :
    /\ row[o].filled <= venue[o].filled
    /\ row[o].status = "FILLED" => venue[o].state = "filled" /\ row[o].filled = Quantity
    /\ row[o].status = "CANCELLED" => venue[o].state = "cancelled"
    /\ row[o].status = "REJECTED" => venue[o].state = "rejected"

\* The docstring of _drain_unknowns: two workers do not process one order in parallel.
OneWorkerPerOrder ==
  \A o \in Orders : \A v, w \in Workers :
    o \in worker[v].batch /\ o \in worker[w].batch => v = w

\* The money moved for an order is behind its row, never ahead of it, and a crash
\* or a second worker does not add to it (_drain_once: put first, then apply).
BookedIsRecorded == \A o \in Orders : booked[o] <= row[o].filled

\* What the workers hold against one another, when claims outlive their batches:
\* a row in a batch is locked or freshly claimed, and still as the batch read it...
BatchesAreGuarded ==
  \A w \in Workers : \A o \in worker[w].batch :
    /\ lock[o] = w \/ (lock[o] = Nobody /\ row[o].claim = "fresh")
    /\ row[o].status = "UNKNOWN" /\ row[o].filled = 0 /\ booked[o] = 0

\* ...and a fill whose money has not moved is the only one of its order.
FillsAreSingle ==
  \A w \in Workers : \A f \in worker[w].fills :
    /\ f[2] = row[f[1]].filled /\ row[f[1]].status \in {"PARTIAL", "FILLED"} /\ booked[f[1]] = 0
    /\ \A v \in Workers : \A g \in worker[v].fills : f[1] = g[1] => v = w /\ f = g

\* What a worker was told about the order it is about to write is still true.
AnswersHold ==
  \A w \in Workers : worker[w].pc = "answered" =>
    LET a == worker[w].answer
        v == venue[worker[w].order]
    IN /\ worker[w].order \in worker[w].batch
       /\ a.filled <= v.filled
       /\ a.outcome \in {"filled", "cancelled", "rejected"} => v.state = a.outcome
       /\ a.outcome # "none"

\* The part that carries every safety property over a step.
IInv ==
  /\ TypeOK
  /\ NothingInvented
  /\ AnswersHold
  /\ \A o \in Orders : row[o].status \in {"ABSENT", "UNKNOWN"} => row[o].filled = 0
  /\ \A w \in Workers : worker[w].pc \in {"idle", "applying"} => worker[w].batch = {}
  /\ ~SlowBatches => OneWorkerPerOrder /\ BatchesAreGuarded /\ FillsAreSingle /\ BookedIsRecorded

\* live_order.py: a terminal order admits no more transitions.
TerminalIsFinal ==
  [][\A o \in Orders : row[o].status \in Terminal => row'[o].status = row[o].status]_row

\* As long as claims outlive their batches, all that the workers do together is to resolve
\* each UNKNOWN order once and for good, into what the venue has really done, and to move
\* the money of the quantity it was resolved with at most once (claim_unknown_batch,
\* resolve_one_unknown and the financial step of _drain_once together).
Resolution == INSTANCE OrderResolution WITH
  fate <- [o \in Orders |-> venue[o].state],
  traded <- [o \in Orders |-> venue[o].filled],
  status <- [o \in Orders |-> row[o].status],
  recorded <- [o \in Orders |-> row[o].filled],
  paid <- booked
IsOrderResolution == Resolution!Spec

\* Through crashes, lapsed claims and unanswered queries, an UNKNOWN order with a
\* venue id is resolved for good.
BoundOrdersResolve ==
  \A o \in Orders : <>[](row[o].bound => row[o].status # "UNKNOWN")

\* _drain_once: "siguiente tick reintenta desde la fila / execution_events": the
\* money of an order recovered as FILLED moves, or its fill is parked as FAILED.
FillsAreBooked ==
  \A o \in Orders :
    row[o].status = "FILLED" ~> \E s \in Seqs : event[o][s] \in {"APPLIED", "FAILED"}
=============================================================================
