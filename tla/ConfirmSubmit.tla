---------------------------- MODULE ConfirmSubmit ----------------------------
(***************************************************************************)
(* Sending one leg of a confirmed recommendation, at most once             *)
(* (ConfirmRecommendationIntent._run_submit_and_sync with the coordinators *)
(* of bolsa_application/confirm).                                          *)
(*                                                                         *)
(* One leg is one idempotency key (decision, action, side).  Its durable   *)
(* row in submit_intents is written before anything is sent, so that a     *)
(* request that finds the row answers "unknown" and does not send again.   *)
(* A client is one HTTP request at a time, with a database session of its  *)
(* own.  On a paper account the effect of the leg is a transaction of      *)
(* ExecuteTrade, flushed under the lock of the account row and committed   *)
(* by the next commit of the session; on a live account it is an order     *)
(* created at the venue.  Every SELECT and every commit is a step.         *)
(***************************************************************************)
EXTENDS Naturals

CONSTANTS
  Clients,     \* concurrent requests
  Overlaps,    \* venues on which two requests for the leg may overlap
  Nobody,      \* nobody holds the account row
  MaxCalls,    \* bound: requests
  MaxCrashes   \* bound: requests that die (process, connection, aborted transaction)

ASSUME OverlapAssumption == Overlaps \subseteq {"paper", "live"}
ASSUME NobodyAssumption == Nobody \notin Clients
ASSUME BoundAssumption == MaxCalls \in Nat /\ MaxCrashes \in Nat

VARIABLES
  row,      \* the leg's row of submit_intents
  booked,   \* committed transactions under the leg's key
  orders,   \* orders created at the venue for the leg
  lock,     \* the client whose transaction holds the account row
  live,     \* the leg's row of live_orders
  client,   \* [Clients -> local state of a request]
  calls,
  crashes

vars == <<row, booked, orders, lock, live, client, calls, crashes>>
effects == <<booked, orders>>
bounds == <<calls, crashes>>

Venues == {"paper", "live"}
Phases == {"ABSENT", "recorded", "send_attempted", "venue_bound", "filled"}
Tasks == {"none", "record", "mark", "persist", "erase"}
Receipts == {"none", "executed", "submitted", "unknown", "rejected"}

\* status of result["trade"]; "lost": the request died without an answer.
Answers == {"none", "executed", "unknown", "skipped", "error", "lost"}

\* SQL NULL in venue_order_id is 0; orders are numbered from 1.
Absent == [id |-> 0, phase |-> "ABSENT", vid |-> 0]
NoReceipt == [status |-> "none", vid |-> 0]
NoTrace == [status |-> "ABSENT", vid |-> 0]

Resting(answer) ==
  [pc |-> "idle", task |-> "none", venue |-> "paper", id |-> 0, seen |-> Absent,
   receipt |-> NoReceipt, pays |-> FALSE, answer |-> answer]

Init ==
  /\ row = Absent
  /\ booked = 0
  /\ orders = 0
  /\ lock = Nobody
  /\ live = NoTrace
  /\ client = [c \in Clients |-> Resting("none")]
  /\ calls = 0
  /\ crashes = 0

Active(c) == client[c].pc # "idle"

MayBegin(v) == \A d \in Clients : Active(d) => v \in Overlaps /\ client[d].venue \in Overlaps

\* The session of c ends its transaction, and with it the lock of the account row.
Released(c) == IF lock = c THEN Nobody ELSE lock

\* A change: an acknowledged order counts as a fill.
BoundFilled(receipt) ==
  CASE receipt.status \in {"executed", "submitted"} -> "filled"
    [] receipt.status = "unknown" /\ receipt.vid # 0 -> "venue_bound"
    [] OTHER -> "send_attempted"

\* bind_venue_order and mark_submit_filled on the row that recorded the attempt.
Bound(receipt) ==
  CASE receipt.status = "executed" -> "filled"
    [] receipt.status # "executed" /\ receipt.vid # 0 -> "venue_bound"
    [] OTHER -> "send_attempted"

\* What a put of the task writes.
Intended(c) ==
  LET r == client[c].receipt IN
  [id    |-> client[c].id,
   phase |-> CASE client[c].task = "record" -> "recorded"
               [] client[c].task = "mark" -> "send_attempted"
               [] OTHER -> Bound(r),
   vid   |-> IF client[c].task = "persist" THEN r.vid ELSE 0]

\* The UPDATE of the session sets the columns that differ from those it read.
Merged(seen, new) ==
  [id    |-> row.id,
   phase |-> IF new.phase = seen.phase THEN row.phase ELSE new.phase,
   vid   |-> IF new.vid = seen.vid THEN row.vid ELSE new.vid]

\* INSERT meets no other row; UPDATE meets the row that was read.
Storable(c) ==
  IF client[c].seen = Absent THEN row = Absent
  ELSE row # Absent /\ row.id = client[c].seen.id

Stored(c) ==
  IF client[c].seen = Absent THEN Intended(c) ELSE Merged(client[c].seen, Intended(c))

-----------------------------------------------------------------------------
(***************************************************************************)
(* Before the effect                                                       *)
(***************************************************************************)
Begin(c, v) ==
  /\ ~Active(c)
  /\ calls < MaxCalls
  /\ MayBegin(v)
  /\ calls' = calls + 1
  /\ client' = [client EXCEPT ![c] =
       [Resting("none") EXCEPT !.pc = "peek", !.venue = v, !.id = calls + 1]]
  /\ UNCHANGED <<row, effects, lock, live, crashes>>

\* find_existing_fill: a committed transaction under the key is replayed.
Peek(c) ==
  /\ client[c].pc = "peek"
  /\ client' = [client EXCEPT ![c] =
       IF booked > 0 THEN Resting("executed") ELSE [@ EXCEPT !.pc = "recover"]]
  /\ UNCHANGED <<row, effects, lock, live, bounds>>

\* A change: the row does not stop the request.
NothingInFlight == FALSE

\* A durable row means the leg may have been sent, whatever its phase.
InFlight == row # Absent

\* try_recover_in_flight.
Recover(c) ==
  /\ client[c].pc = "recover"
  /\ client' = [client EXCEPT ![c] =
       IF InFlight THEN Resting("unknown") ELSE [@ EXCEPT !.pc = "look", !.task = "record"]]
  /\ UNCHANGED <<row, effects, lock, live, bounds>>

\* The SELECT with which put and delete begin.
Look(c) ==
  /\ client[c].pc = "look"
  /\ client' = [client EXCEPT ![c] = [@ EXCEPT !.pc = "store", !.seen = row]]
  /\ UNCHANGED <<row, effects, lock, live, bounds>>

\* record_before_submit: put recorded, then put send_attempted.  A put that
\* fails rolls back and the request ends without sending.
Record(c) ==
  /\ client[c].pc = "store"
  /\ client[c].task \in {"record", "mark"}
  /\ IF Storable(c)
     THEN /\ row' = Stored(c)
          /\ client' = [client EXCEPT ![c] =
               [@ EXCEPT !.pc = IF client[c].task = "record" THEN "look" ELSE "submit",
                         !.task = IF client[c].task = "record" THEN "mark" ELSE "persist",
                         !.seen = Absent]]
     ELSE /\ client' = [client EXCEPT ![c] = Resting("error")]
          /\ UNCHANGED row
  /\ UNCHANGED <<effects, lock, live, bounds>>

-----------------------------------------------------------------------------
(***************************************************************************)
(* The effect                                                              *)
(***************************************************************************)
\* A change: no order id in the receipt is taken for no order.
ReceiveErasing(c, receipt, pays) ==
  client' = [client EXCEPT ![c] =
    [@ EXCEPT !.pc = "look",
              !.task = IF client[c].venue = "live" /\ receipt.vid = 0 THEN "erase" ELSE "persist",
              !.receipt = receipt, !.pays = pays]]

\* The receipt comes back; the row of the leg is persisted or erased next.
Receive(c, receipt, pays) ==
  client' = [client EXCEPT ![c] =
    [@ EXCEPT !.pc = "look", !.task = IF receipt.status = "rejected" THEN "erase" ELSE "persist",
              !.receipt = receipt, !.pays = pays]]

Receipt(status, vid) == [status |-> status, vid |-> vid]

\* find_transaction_by_idempotency finds nothing.
Unbooked == booked = 0

\* PaperBrokerAdapter: ExecuteTrade under the lock of the account row.  It pays,
\* refuses (unknown), replays the transaction of the key, or finds the key used
\* with another payload (unknown).
Paper(c) ==
  /\ client[c].pc = "submit"
  /\ client[c].venue = "paper"
  /\ lock = Nobody
  /\ lock' = c
  /\ \/ Receive(c, Receipt("executed", 0), Unbooked)
     \/ Receive(c, Receipt("unknown", 0), FALSE)
  /\ UNCHANGED <<row, effects, live, bounds>>

\* The bridge accepts the order; the answer says so, says filled (reported as
\* unknown), or does not arrive; the order's id may be missing from it.
Accepted(c) ==
  /\ orders' = orders + 1
  /\ \E status \in {"submitted", "unknown"}, vid \in {0, orders + 1} :
       Receive(c, Receipt(status, vid), FALSE)

\* XtbBrokerAdapter: kill switch, not wired or rejected by the bridge; no
\* answer and no order; or an order.
Post(c) ==
  /\ client[c].pc = "submit"
  /\ client[c].venue = "live"
  /\ \/ Receive(c, Receipt("rejected", 0), FALSE) /\ UNCHANGED orders
     \/ Receive(c, Receipt("unknown", 0), FALSE) /\ UNCHANGED orders
     \/ Accepted(c)
  /\ UNCHANGED <<row, booked, lock, live, bounds>>

-----------------------------------------------------------------------------
(***************************************************************************)
(* After the effect                                                        *)
(***************************************************************************)
\* After the row: a live order is traced next, a paper request answers.
Reported(c) ==
  IF client[c].venue = "live" THEN [client[c] EXCEPT !.pc = "track", !.seen = Absent]
  ELSE Resting(client[c].receipt.status)

\* persist_after_adapter: the put whose commit also commits the trade.  A put
\* that fails rolls the trade back, and the request answers all the same.
Persist(c) ==
  /\ client[c].pc = "store"
  /\ client[c].task = "persist"
  /\ IF Storable(c)
     THEN /\ row' = Stored(c)
          /\ booked' = IF client[c].pays THEN booked + 1 ELSE booked
     ELSE UNCHANGED <<row, booked>>
  /\ lock' = Released(c)
  /\ client' = [client EXCEPT ![c] = Reported(c)]
  /\ UNCHANGED <<orders, live, bounds>>

\* persist_after_adapter of a rejection: the row is deleted, so that the leg can
\* be sent again.
Erase(c) ==
  /\ client[c].pc = "store"
  /\ client[c].task = "erase"
  /\ row' = IF client[c].seen # Absent /\ row.id = client[c].seen.id THEN Absent ELSE row
  /\ client' = [client EXCEPT ![c] = Resting("skipped")]
  /\ UNCHANGED <<effects, lock, live, bounds>>

\* A change: the trace forgets the id of the order.
Untraced(trace, receipt) ==
  [status |-> IF receipt.status = "submitted" THEN "SUBMITTED" ELSE "UNKNOWN", vid |-> 0]

\* live_order_from_submit_result and the upsert of live_orders.
Traced(trace, receipt) ==
  IF trace.status = "UNKNOWN" THEN trace
  ELSE [status |-> IF receipt.status = "submitted" THEN "SUBMITTED" ELSE "UNKNOWN",
        vid |-> IF receipt.vid # 0 THEN receipt.vid ELSE trace.vid]

\* LiveOrderCoordinator.persist_after_submit.
Track(c) ==
  /\ client[c].pc = "track"
  /\ live' = Traced(live, client[c].receipt)
  /\ client' = [client EXCEPT ![c] = Resting("unknown")]
  /\ UNCHANGED <<row, effects, lock, bounds>>

\* A request dies: what it had not committed is gone.  The order it was posting
\* may have reached the venue.
Crash(c) ==
  /\ Active(c)
  /\ crashes < MaxCrashes
  /\ crashes' = crashes + 1
  /\ lock' = Released(c)
  /\ client' = [client EXCEPT ![c] = Resting("lost")]
  /\ \/ UNCHANGED orders
     \/ client[c].pc = "submit" /\ client[c].venue = "live" /\ orders' = orders + 1
  /\ UNCHANGED <<row, booked, live, calls>>

Step(c) ==
  \/ Peek(c) \/ Recover(c) \/ Look(c) \/ Record(c)
  \/ Paper(c) \/ Post(c) \/ Persist(c) \/ Erase(c) \/ Track(c)

Next == \E c \in Clients : Step(c) \/ Crash(c) \/ \E v \in Venues : Begin(c, v)

Spec == Init /\ [][Next]_vars

-----------------------------------------------------------------------------
(***************************************************************************)
(* Properties                                                              *)
(***************************************************************************)
Row == [id : 0 .. MaxCalls, phase : Phases, vid : Nat]

Request == [pc : {"idle", "peek", "recover", "look", "store", "submit", "track"},
            task : Tasks, venue : Venues, id : 0 .. MaxCalls, seen : Row,
            receipt : [status : Receipts, vid : Nat], pays : BOOLEAN, answer : Answers]

\* Shape of the two rows and of every request.
TypeOK ==
  /\ row \in Row
  /\ booked \in Nat
  /\ orders \in Nat
  /\ lock \in Clients \cup {Nobody}
  /\ live \in [status : {"ABSENT", "SUBMITTED", "UNKNOWN"}, vid : Nat]
  /\ client \in [Clients -> Request]
  /\ calls \in 0 .. MaxCalls
  /\ crashes \in 0 .. MaxCrashes

\* However requests for a leg repeat, overlap on a paper account or die, the leg
\* takes effect at most once: one transaction of ExecuteTrade or one order at the
\* venue (the docstring of submit_intent.py: a durable row means no second POST).
OneEffectPerLeg == booked + orders <= 1

\* An order that may exist at the venue is never without a row that says it was
\* sent: later requests answer unknown, and the recovery knows of it.
SentIsRecorded == orders > 0 => row.phase \in {"send_attempted", "venue_bound"}

\* A row says filled only when the transaction of the leg is committed, although
\* the transaction and the row are written by different coordinators.
FilledIsBooked == row.phase = "filled" => booked = 1

\* The trace in live_orders names the same order as the row of submit_intents, and
\* without crashes no order is left without a trace once its request has answered.
TraceAgrees ==
  /\ live.status # "ABSENT" => row # Absent /\ live.vid = row.vid
  /\ orders > 0 /\ live.status = "ABSENT" /\ crashes = 0 => \E c \in Clients : Active(c)

\* What a request answers is true: executed only when the transaction is
\* committed, skipped only when the leg has had no effect at all.
HonestAnswers ==
  [][\A c \in Clients :
       Active(c) /\ client'[c].pc = "idle" =>
         /\ client'[c].answer = "executed" => booked' = 1
         /\ client'[c].answer = "skipped" => booked' + orders' = 0]_vars

\* The order id of the venue, once in the row, stays there ("the first venue id
\* wins", bind_venue_order): recovery queries the venue by it.
VenueIdIsKept == [][row.vid # 0 => row'.vid = row.vid]_vars

\* All that the requests for a leg do together is to take it, to give it back while nothing
\* has come of it, to have its one effect while it is taken, and to learn the name of its
\* order once (_run_submit_and_sync with its coordinators; the row before the POST, its
\* deletion after a rejection, and the first venue id of bind_venue_order).
Leg == INSTANCE LegOnce WITH taken <- row # Absent, trades <- booked, name <- row.vid
IsLegOnce == Leg!Spec

-----------------------------------------------------------------------------
(***************************************************************************)
(* The inductive invariant, when requests overlap on paper accounts only.  *)
(* Its local parts speak of the state q of one request.                    *)
(***************************************************************************)
AtRow(q) == q.pc \in {"look", "store"}

\* The request found no row and has not had its effect yet.
Recording(q) == AtRow(q) /\ q.task \in {"record", "mark"}
Sending(q) == Recording(q) \/ q.pc = "submit"

\* The request has its receipt.
Persisting(q) == AtRow(q) /\ q.task = "persist"
Erasing(q) == AtRow(q) /\ q.task = "erase"

\* The request is at one of the points of _run_submit_and_sync, with the receipts
\* its venue gives.
Located(q) ==
  /\ q.pc = "idle" => q = Resting(q.answer)
  /\ AtRow(q) => Recording(q) \/ Persisting(q) \/ Erasing(q)
  /\ q.pc \in {"submit", "track"} => q.task = "persist"
  /\ q.pc = "track" \/ Erasing(q) => q.venue = "live"
  /\ Erasing(q) => q.receipt = Receipt("rejected", 0)
  /\ Persisting(q) => q.receipt.status \in {"executed", "submitted", "unknown"}
  /\ q.pc = "track" => q.receipt.status \in {"submitted", "unknown"}
  /\ q.venue = "live" => q.receipt.status # "executed" /\ ~q.pays
  /\ q.venue = "paper" => q.receipt.vid = 0 /\ q.receipt.status # "submitted"
  /\ q.receipt.vid # 0 => Persisting(q) \/ q.pc = "track"
  /\ q.pc # "idle" => q.id # 0
  /\ q.pc # "store" => q.seen = Absent
  /\ q.seen.phase = "ABSENT" => q.seen = Absent
  /\ q.seen.phase # "ABSENT" => q.seen.id # 0

\* While a request can still send, or persists on a paper account, no order exists
\* and none is traced; until a live request sends, nothing is booked either.
NothingSent(q) ==
  /\ Sending(q) \/ Erasing(q) \/ (q.venue = "paper" /\ Persisting(q)) =>
       orders = 0 /\ live = NoTrace
  /\ q.venue = "live" /\ q.pc \notin {"idle", "peek"} => booked = 0

\* What a live request knows of its row, which nobody else writes.
LiveRow(q) ==
  q.venue = "live" =>
    /\ q.pc = "store" => q.seen = row
    /\ Recording(q) /\ q.task = "record" => row = Absent
    /\ Recording(q) /\ q.task = "mark" => row.phase = "recorded" /\ row.vid = 0
    /\ q.pc = "submit" \/ Persisting(q) \/ Erasing(q) =>
         row.phase = "send_attempted" /\ row.vid = 0 /\ live = NoTrace
    /\ q.pc = "track" =>
         row.phase = Bound(q.receipt) /\ row.vid = q.receipt.vid /\ live = NoTrace

\* A paper request that has written its row finds it again.
PaperRow(q) ==
  q.venue = "paper" /\ (Sending(q) \/ Persisting(q)) =>
    /\ ~(Recording(q) /\ q.task = "record") => row # Absent
    /\ q.pc = "store" /\ q.task # "record" => q.seen # Absent
    /\ q.pc = "store" /\ q.seen # Absent => row # Absent /\ q.seen.id = row.id
    /\ q.seen.vid = 0 /\ row.vid = 0

\* Request c pays under the lock, for a leg that has had no effect; a request that
\* reports executed pays or replays a committed transaction.
PaysOnce(c, q) ==
  /\ q.pays => Persisting(q) /\ lock = c /\ booked = 0
  /\ Persisting(q) /\ q.receipt.status = "executed" => q.pays \/ booked = 1
  /\ q.receipt.vid # 0 => orders = 1

Fits(c, q) ==
  Located(q) /\ NothingSent(q) /\ LiveRow(q) /\ PaperRow(q) /\ PaysOnce(c, q)

\* A live request runs alone.
LiveIsAlone ==
  \A c, d \in Clients : Active(c) /\ client[c].venue = "live" /\ c # d => ~Active(d)

\* The rows and the effects agree.
RowAgrees ==
  /\ row.phase = "ABSENT" => row = Absent
  /\ row.phase # "ABSENT" => row.id # 0
  /\ row.vid # 0 => orders = 1
  /\ live.status = "ABSENT" => live = NoTrace

\* The proof behind TraceAgrees: an order without a trace has its request, or a
\* request died.
Pending ==
  orders > 0 /\ live.status = "ABSENT" /\ crashes = 0 =>
    \E c \in Clients : client[c].venue = "live" /\ (Persisting(client[c]) \/ client[c].pc = "track")

Effects == OneEffectPerLeg /\ SentIsRecorded /\ FilledIsBooked /\ TraceAgrees

IInv ==
  /\ TypeOK
  /\ Effects
  /\ LiveIsAlone
  /\ RowAgrees
  /\ Pending
  /\ \A c \in Clients : Fits(c, client[c])
=============================================================================
