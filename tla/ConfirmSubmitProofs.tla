------------------------- MODULE ConfirmSubmitProofs -------------------------
(***************************************************************************)
(* Proofs about ConfirmSubmit for every set of clients and every bound,    *)
(* when requests for one leg overlap on paper accounts only.  A live       *)
(* request then runs alone; paper requests share the row and are kept      *)
(* apart by the lock of the account and the look-up of the key.            *)
(***************************************************************************)
EXTENDS ConfirmSubmit, TLAPS

PaperOnly == Overlaps \subseteq {"paper"}

Pcs == {"idle", "peek", "recover", "look", "store", "submit", "track"}
ReceiptSet == [status : Receipts, vid : Nat]

LEMMA RequestParts ==
  Request = [pc : Pcs, task : Tasks, venue : Venues, id : 0 .. MaxCalls, seen : Row,
             receipt : ReceiptSet, pays : BOOLEAN, answer : Answers]
  BY DEF Request, Pcs, ReceiptSet

\* A request at rest has its type, and the local invariants in every state.
LEMMA RestingType ==
  ASSUME NEW a \in Answers
  PROVE  /\ Resting(a) \in Request
         /\ Resting(a).pc = "idle" /\ Resting(a).venue = "paper" /\ Resting(a).pays = FALSE
         /\ Resting(a).task = "none" /\ Resting(a).receipt = NoReceipt
         /\ Resting(a).seen = Absent /\ Resting(a).answer = a
  <1>1. 0 \in 0 .. MaxCalls BY BoundAssumption
  <1>2. Absent \in Row BY <1>1 DEF Absent, Row, Phases
  <1>3. NoReceipt \in ReceiptSet BY DEF NoReceipt, ReceiptSet, Receipts
  <1> QED BY <1>1, <1>2, <1>3, RequestParts DEF Resting, Pcs, Tasks, Venues

LEMMA RestingFits ==
  ASSUME NEW c, NEW q, q.pc = "idle", q = Resting(q.answer)
  PROVE  Fits(c, q)
  <1>1. /\ q.venue = "paper" /\ q.pays = FALSE /\ q.task = "none"
        /\ q.receipt = NoReceipt /\ q.seen = Absent
    BY DEF Resting
  <1>2. q.receipt.vid = 0 /\ q.receipt.status = "none" /\ Absent.phase = "ABSENT"
    BY <1>1 DEF NoReceipt, Absent
  <1>3. ~AtRow(q) /\ ~Recording(q) /\ ~Sending(q) /\ ~Persisting(q) /\ ~Erasing(q)
    BY DEF AtRow, Recording, Sending, Persisting, Erasing
  <1>4. Located(q) BY <1>1, <1>2, <1>3 DEF Located
  <1>5. NothingSent(q) /\ LiveRow(q) /\ PaperRow(q) /\ PaysOnce(c, q)
    BY <1>1, <1>2, <1>3 DEF NothingSent, LiveRow, PaperRow, PaysOnce
  <1> QED BY <1>4, <1>5 DEF Fits

LEMMA RestingFitsNext ==
  ASSUME NEW c \in Clients, client'[c].pc = "idle", client'[c] = Resting(client'[c].answer)
  PROVE  Fits(c, client[c])'
  <1> DEFINE q == client'[c]
  <1>1. /\ q.venue = "paper" /\ q.pays = FALSE /\ q.task = "none"
        /\ q.receipt = NoReceipt /\ q.seen = Absent
    BY DEF Resting
  <1>2. q.receipt.vid = 0 /\ q.receipt.status = "none" /\ Absent.phase = "ABSENT"
    BY <1>1 DEF NoReceipt, Absent
  <1>3. ~AtRow(q) /\ ~Recording(q) /\ ~Sending(q) /\ ~Persisting(q) /\ ~Erasing(q)
    BY DEF AtRow, Recording, Sending, Persisting, Erasing
  <1>4. Located(q) BY <1>1, <1>2, <1>3 DEF Located
  <1>5. NothingSent(client[c])' BY <1>1, <1>2, <1>3 DEF NothingSent
  <1>6. LiveRow(client[c])' BY <1>1 DEF LiveRow
  <1>7. PaperRow(client[c])' BY <1>3 DEF PaperRow
  <1>8. PaysOnce(c, client[c])' BY <1>1, <1>2, <1>3 DEF PaysOnce
  <1> QED BY <1>4, <1>5, <1>6, <1>7, <1>8 DEF Fits

-----------------------------------------------------------------------------
(* What a step leaves to the other requests. *)

\* With the shared state unchanged, a request that does not move still fits.
LEMMA SameFits ==
  ASSUME NEW d \in Clients, Fits(d, client[d]), client'[d] = client[d],
         UNCHANGED <<row, booked, orders, lock, live>>
  PROVE  Fits(d, client[d])'
  BY DEF Fits, Located, NothingSent, LiveRow, PaperRow, PaysOnce

\* A live request runs alone; a paper one leaves the others the row with its id,
\* their lock, and at most the transaction they will replay.
LEMMA OthersFit ==
  ASSUME IInv, NEW c \in Clients, NEW d \in Clients, c # d, Active(c), client'[d] = client[d],
         \/ client[c].venue = "live"
         \/ /\ UNCHANGED <<orders, live>>
            /\ lock = d => lock' = d
            /\ booked' = booked \/ (booked' = 1 /\ lock = c)
            /\ row' = row \/ (row'.vid = 0 /\ row' # Absent /\ (row # Absent => row'.id = row.id))
  PROVE  Fits(d, client[d])'
  <1>1. Fits(d, client[d]) BY DEF IInv
  <1>2. CASE client[d].pc = "idle"
    <2>1. client[d] = Resting(client[d].answer) BY <1>1, <1>2 DEF Fits, Located
    <2> QED BY <1>2, <2>1, RestingFitsNext
  <1>3. CASE client[d].pc # "idle"
    <2>1. Active(d) BY <1>3 DEF Active
    <2>2. client[c].venue # "live" /\ client[d].venue # "live" BY <2>1 DEF IInv, LiveIsAlone
    <2>3. client[d].venue = "paper" BY <2>2, RequestParts DEF IInv, TypeOK, Venues
    <2>4. Located(client[d])' BY <1>1 DEF Fits, Located
    <2>5. NothingSent(client[d])' BY <1>1, <2>2, <2>3 DEF Fits, NothingSent
    <2>6. LiveRow(client[d])' BY <2>3 DEF LiveRow
    <2>7. PaperRow(client[d])' BY <1>1, <2>2, <2>3 DEF Fits, PaperRow
    <2>8. PaysOnce(d, client[d])' BY <1>1, <2>2 DEF Fits, PaysOnce
    <2> QED BY <2>4, <2>5, <2>6, <2>7, <2>8 DEF Fits
  <1> QED BY <1>2, <1>3

\* No step of a request turns a paper request into a live one.
LEMMA StillAlone ==
  ASSUME LiveIsAlone, NEW c \in Clients, Active(c), NEW y,
         client' = [client EXCEPT ![c] = y], client \in [Clients -> Request],
         y.pc = "idle" \/ y.venue = client[c].venue
  PROVE  LiveIsAlone'
  BY DEF LiveIsAlone, Active

\* The request that has to trace the order is still there.
LEMMA StillPending ==
  ASSUME Pending, client \in [Clients -> Request], NEW c \in Clients, NEW y,
         client' = [client EXCEPT ![c] = y], UNCHANGED <<orders, live, crashes>>,
         client[c].venue = "live" /\ (Persisting(client[c]) \/ client[c].pc = "track") =>
           y.venue = "live" /\ (Persisting(y) \/ y.pc = "track")
  PROVE  Pending'
  <1> SUFFICES ASSUME orders > 0, live.status = "ABSENT", crashes = 0
               PROVE  \E d \in Clients : client'[d].venue = "live"
                                         /\ (Persisting(client'[d]) \/ client'[d].pc = "track")
    BY DEF Pending, Persisting, AtRow
  <1>1. PICK d \in Clients : client[d].venue = "live"
                             /\ (Persisting(client[d]) \/ client[d].pc = "track")
    BY DEF Pending
  <1>2. client'[d] = IF d = c THEN y ELSE client[d] OBVIOUS
  <1> QED BY <1>1, <1>2

\* Of TraceAgrees, what Pending does not say.
TraceOfRow == live.status # "ABSENT" => row # Absent /\ live.vid = row.vid

LEMMA TraceParts == TraceOfRow' /\ Pending' => TraceAgrees'
  BY DEF TraceOfRow, Pending, TraceAgrees, Active, Persisting, AtRow

Traces == [status : {"ABSENT", "SUBMITTED", "UNKNOWN"}, vid : Nat]

\* What remains to be shown of a step of an active request c that leaves it as y.
LEMMA StepKeeps ==
  ASSUME IInv, NEW c \in Clients, Active(c), NEW y \in Request,
         client' = [client EXCEPT ![c] = y], calls' = calls,
         y.pc = "idle" \/ y.venue = client[c].venue,
         row' \in Row, booked' \in Nat, orders' \in Nat, lock' \in Clients \cup {Nobody},
         live' \in Traces, crashes' \in 0 .. MaxCrashes,
         OneEffectPerLeg', SentIsRecorded', FilledIsBooked', TraceOfRow', RowAgrees', Pending',
         Fits(c, client[c])',
         \/ client[c].venue = "live"
         \/ /\ UNCHANGED <<orders, live>>
            /\ \A d \in Clients : d # c /\ lock = d => lock' = d
            /\ booked' = booked \/ (booked' = 1 /\ lock = c)
            /\ row' = row \/ (row'.vid = 0 /\ row' # Absent /\ (row # Absent => row'.id = row.id))
  PROVE  IInv'
  <1>1. client \in [Clients -> Request] BY DEF IInv, TypeOK
  <1>2. client' \in [Clients -> Request] BY <1>1
  <1>3. TypeOK' BY <1>2 DEF IInv, TypeOK, Traces
  <1>4. LiveIsAlone' BY <1>1, StillAlone DEF IInv
  <1>5. Effects' BY TraceParts DEF Effects
  <1>6. ASSUME NEW d \in Clients, c # d PROVE Fits(d, client[d])'
    <2>1. client'[d] = client[d] BY <1>1, <1>6
    <2> QED BY <1>6, <2>1, OthersFit
  <1>7. \A d \in Clients : Fits(d, client[d])' BY <1>6
  <1> QED BY <1>3, <1>4, <1>5, <1>7 DEF IInv

\* A step that leaves the rows and the effects alone.
LEMMA QuietKeeps ==
  ASSUME IInv, NEW c \in Clients, Active(c), NEW y \in Request,
         client' = [client EXCEPT ![c] = y], calls' = calls,
         y.pc = "idle" \/ y.venue = client[c].venue,
         UNCHANGED <<row, booked, orders, live>>,
         lock' \in Clients \cup {Nobody}, \A d \in Clients : d # c /\ lock = d => lock' = d,
         crashes' \in 0 .. MaxCrashes, Pending',
         Fits(c, client[c])'
  PROVE  IInv'
  <1>1. /\ row \in Row /\ booked \in Nat /\ orders \in Nat /\ live \in Traces
    BY DEF IInv, TypeOK, Traces
  <1>2. OneEffectPerLeg' /\ SentIsRecorded' /\ FilledIsBooked'
    BY DEF IInv, Effects, OneEffectPerLeg, SentIsRecorded, FilledIsBooked
  <1>3. TraceOfRow' BY DEF IInv, Effects, TraceAgrees, TraceOfRow
  <1>4. RowAgrees' BY DEF IInv, RowAgrees
  <1> QED BY <1>1, <1>2, <1>3, <1>4, StepKeeps

-----------------------------------------------------------------------------
(* The steps before the effect. *)

LEMMA InitInv == Init => IInv
  <1> SUFFICES ASSUME Init PROVE IInv OBVIOUS
  <1>1. 0 \in 0 .. MaxCalls /\ 0 \in 0 .. MaxCrashes BY BoundAssumption
  <1>2. Absent \in Row BY <1>1 DEF Absent, Row, Phases
  <1>3. "none" \in Answers BY DEF Answers
  <1>4. Resting("none") \in Request BY <1>3, RestingType
  <1>5. client \in [Clients -> Request] BY <1>4 DEF Init
  <1>6. NoTrace \in Traces BY DEF NoTrace, Traces
  <1>7. TypeOK BY <1>1, <1>2, <1>5, <1>6 DEF Init, TypeOK, Traces
  <1>8. /\ Absent.phase = "ABSENT" /\ Absent.vid = 0 /\ NoTrace.status = "ABSENT"
    BY DEF Absent, NoTrace
  <1>9. OneEffectPerLeg /\ SentIsRecorded /\ FilledIsBooked /\ TraceAgrees
    BY <1>8 DEF Init, OneEffectPerLeg, SentIsRecorded, FilledIsBooked, TraceAgrees
  <1>10. RowAgrees /\ Pending BY <1>8 DEF Init, RowAgrees, Pending
  <1>11. \A c \in Clients : client[c] = Resting("none") BY DEF Init
  <1>12. \A c \in Clients : client[c].pc = "idle" /\ client[c].answer = "none"
    <2>1. Resting("none").pc = "idle" /\ Resting("none").answer = "none" BY <1>3, RestingType
    <2> QED BY <1>11, <2>1
  <1>13. LiveIsAlone BY <1>12 DEF LiveIsAlone, Active
  <1>14. \A c \in Clients : Fits(c, client[c]) BY <1>11, <1>12, RestingFits
  <1> QED BY <1>7, <1>9, <1>10, <1>13, <1>14 DEF IInv, Effects

LEMMA BeginKeeps ==
  ASSUME IInv, PaperOnly, NEW c \in Clients, NEW v \in Venues, Begin(c, v)
  PROVE  IInv'
  <1> DEFINE y == [Resting("none") EXCEPT !.pc = "peek", !.venue = v, !.id = calls + 1]
  <1>1. "none" \in Answers BY DEF Answers
  <1>2. /\ Resting("none") \in Request
        /\ Resting("none").pays = FALSE /\ Resting("none").receipt = NoReceipt
        /\ Resting("none").seen = Absent
    BY <1>1, RestingType
  <1>3. calls \in 0 .. MaxCalls /\ calls < MaxCalls BY DEF Begin, IInv, TypeOK
  <1>4. calls + 1 \in 0 .. MaxCalls /\ calls + 1 # 0 BY <1>3, BoundAssumption
  <1>5. /\ y \in Request /\ y.pc = "peek" /\ y.venue = v /\ y.pays = FALSE
        /\ y.receipt = NoReceipt /\ y.seen = Absent /\ y.id = calls + 1
    BY <1>2, <1>4, RequestParts DEF Pcs
  <1>6. client' = [client EXCEPT ![c] = y] BY DEF Begin
  <1> HIDE DEF y
  <1>7. client \in [Clients -> Request] BY DEF IInv, TypeOK
  <1>8. client' \in [Clients -> Request] BY <1>5, <1>6, <1>7
  <1>9. TypeOK' BY <1>4, <1>8 DEF Begin, effects, IInv, TypeOK
  <1>10. client'[c] = y BY <1>6, <1>7
  <1>11. ASSUME NEW d \in Clients, d # c PROVE client'[d] = client[d] BY <1>6, <1>7, <1>11
  <1>12. OneEffectPerLeg' /\ SentIsRecorded' /\ FilledIsBooked' /\ RowAgrees' /\ TraceOfRow'
    BY DEF Begin, effects, IInv, Effects, OneEffectPerLeg, SentIsRecorded, FilledIsBooked, RowAgrees,
           TraceAgrees, TraceOfRow
  <1>13. client[c].pc = "idle" /\ ~Persisting(client[c])
    BY DEF Begin, Active, Persisting, AtRow
  <1>14. Pending' BY <1>6, <1>7, <1>13, StillPending DEF Begin, effects, IInv
  <1>15. LiveIsAlone'
    <2>1. \A d \in Clients : d # c /\ Active(d) => v = "paper" /\ client[d].venue = "paper"
      BY DEF Begin, MayBegin, PaperOnly
    <2> QED BY <1>5, <1>10, <1>11, <2>1 DEF IInv, LiveIsAlone, Active
  <1>16. Fits(c, client[c])'
    <2>1. ~AtRow(y) /\ y.receipt.vid = 0 /\ y.receipt.status = "none" /\ Absent.phase = "ABSENT"
      BY <1>5 DEF AtRow, NoReceipt, Absent
    <2>2. ~Recording(y) /\ ~Sending(y) /\ ~Persisting(y) /\ ~Erasing(y)
      BY <1>5, <2>1 DEF Recording, Sending, Persisting, Erasing
    <2>3. Located(y) BY <1>4, <1>5, <2>1, <2>2 DEF Located
    <2>4. NothingSent(client[c])' /\ LiveRow(client[c])' /\ PaperRow(client[c])'
          /\ PaysOnce(c, client[c])'
      BY <1>5, <1>10, <2>1, <2>2 DEF NothingSent, LiveRow, PaperRow, PaysOnce
    <2> QED BY <1>10, <2>3, <2>4 DEF Fits
  <1>17. \A d \in Clients : Fits(d, client[d])'
    BY <1>11, <1>16, SameFits DEF Begin, effects, IInv
  <1>18. Effects' BY <1>12, <1>14, TraceParts DEF Effects
  <1> QED BY <1>9, <1>12, <1>14, <1>15, <1>17, <1>18 DEF IInv

\* A request that answers without touching anything (a replay, an unknown, an error).
LEMMA AnswerKeeps ==
  ASSUME IInv, NEW c \in Clients, NEW a \in Answers, Active(c),
         client' = [client EXCEPT ![c] = Resting(a)], calls' = calls,
         UNCHANGED <<row, booked, orders, lock, live, crashes>>,
         ~(Persisting(client[c]) \/ client[c].pc = "track")
  PROVE  IInv'
  <1> DEFINE y == Resting(a)
  <1>1. y \in Request /\ y.pc = "idle" /\ y.answer = a BY RestingType
  <1> HIDE DEF y
  <1>2. client' = [client EXCEPT ![c] = y] BY DEF y
  <1>3. client \in [Clients -> Request] /\ lock \in Clients \cup {Nobody}
        /\ crashes \in 0 .. MaxCrashes
    BY DEF IInv, TypeOK
  <1>4. client'[c] = y BY <1>2, <1>3
  <1>5. y = Resting(y.answer) BY <1>1 DEF y
  <1>6. Fits(c, client[c])' BY <1>1, <1>4, <1>5, RestingFitsNext
  <1>7. Pending' BY <1>2, <1>3, StillPending DEF IInv
  <1> QED BY <1>1, <1>2, <1>3, <1>6, <1>7, QuietKeeps

LEMMA PeekKeeps ==
  ASSUME IInv, NEW c \in Clients, Peek(c)
  PROVE  IInv'
  <1> DEFINE q == client[c]
             y == [q EXCEPT !.pc = "recover"]
  <1>1. client \in [Clients -> Request] /\ q \in Request /\ booked \in Nat
        /\ lock \in Clients \cup {Nobody} /\ crashes \in 0 .. MaxCrashes
    BY DEF IInv, TypeOK
  <1>2. q.pc = "peek" /\ Active(c) /\ ~Persisting(q) BY DEF Peek, Active, Persisting, AtRow
  <1>3. UNCHANGED <<row, booked, orders, lock, live, calls, crashes>>
    BY DEF Peek, effects, bounds
  <1>4. CASE booked > 0
    <2>1. client' = [client EXCEPT ![c] = Resting("executed")] BY <1>4 DEF Peek
    <2>2. "executed" \in Answers BY DEF Answers
    <2> QED BY <1>2, <1>3, <2>1, <2>2, AnswerKeeps
  <1>5. CASE ~(booked > 0)
    <2>1. client' = [client EXCEPT ![c] = y] BY <1>5 DEF Peek
    <2>2. /\ y \in Request /\ y.pc = "recover" /\ y.task = q.task /\ y.venue = q.venue
          /\ y.id = q.id /\ y.seen = q.seen /\ y.receipt = q.receipt /\ y.pays = q.pays
      BY <1>1, RequestParts DEF Pcs
    <2> HIDE DEF y
    <2>3. client'[c] = y BY <1>1, <2>1
    <2>4. Fits(c, q) BY DEF IInv
    <2>5. /\ ~AtRow(y) /\ ~Recording(y) /\ ~Sending(y) /\ ~Persisting(y) /\ ~Erasing(y)
          /\ ~AtRow(q) /\ ~Recording(q) /\ ~Sending(q) /\ ~Persisting(q) /\ ~Erasing(q)
      BY <1>2, <2>2 DEF AtRow, Recording, Sending, Persisting, Erasing
    <2>6. Located(y) BY <1>2, <2>2, <2>4, <2>5 DEF Fits, Located
    <2>7. NothingSent(client[c])' /\ LiveRow(client[c])' /\ PaperRow(client[c])'
          /\ PaysOnce(c, client[c])'
      BY <1>1, <1>2, <1>3, <1>5, <2>2, <2>3, <2>4, <2>5
      DEF Fits, NothingSent, LiveRow, PaperRow, PaysOnce
    <2>8. Fits(c, client[c])' BY <2>3, <2>6, <2>7 DEF Fits
    <2>9. Pending' BY <1>1, <1>2, <1>3, <2>1, StillPending DEF IInv
    <2> QED BY <1>1, <1>2, <1>3, <2>1, <2>2, <2>8, <2>9, QuietKeeps
  <1> QED BY <1>4, <1>5

LEMMA RecoverKeeps ==
  ASSUME IInv, NEW c \in Clients, Recover(c)
  PROVE  IInv'
  <1> DEFINE q == client[c]
             y == [q EXCEPT !.pc = "look", !.task = "record"]
  <1>1. client \in [Clients -> Request] /\ q \in Request
        /\ lock \in Clients \cup {Nobody} /\ crashes \in 0 .. MaxCrashes /\ orders \in Nat
    BY DEF IInv, TypeOK
  <1>2. q.pc = "recover" /\ Active(c) /\ ~Persisting(q)
    BY DEF Recover, Active, Persisting, AtRow
  <1>3. UNCHANGED <<row, booked, orders, lock, live, calls, crashes>>
    BY DEF Recover, effects, bounds
  <1>4. CASE InFlight
    <2>1. client' = [client EXCEPT ![c] = Resting("unknown")] BY <1>4 DEF Recover
    <2>2. "unknown" \in Answers BY DEF Answers
    <2> QED BY <1>2, <1>3, <2>1, <2>2, AnswerKeeps
  <1>5. CASE ~InFlight
    <2>1. client' = [client EXCEPT ![c] = y] BY <1>5 DEF Recover
    <2>2. /\ y \in Request /\ y.pc = "look" /\ y.task = "record" /\ y.venue = q.venue
          /\ y.id = q.id /\ y.seen = q.seen /\ y.receipt = q.receipt /\ y.pays = q.pays
      BY <1>1, RequestParts DEF Pcs, Tasks
    <2> HIDE DEF y
    <2>3. client'[c] = y BY <1>1, <2>1
    <2>4. Fits(c, q) BY DEF IInv
    <2>5. /\ AtRow(y) /\ Recording(y) /\ Sending(y) /\ ~Persisting(y) /\ ~Erasing(y)
          /\ ~AtRow(q) /\ ~Recording(q) /\ ~Sending(q) /\ ~Persisting(q) /\ ~Erasing(q)
      BY <1>2, <2>2 DEF AtRow, Recording, Sending, Persisting, Erasing
    <2>6. row = Absent /\ row.phase = "ABSENT" /\ row.vid = 0 BY <1>5 DEF InFlight, Absent
    <2>7. orders = 0 /\ live = NoTrace
      BY <1>1, <2>6 DEF IInv, Effects, SentIsRecorded, TraceAgrees, RowAgrees
    <2>8. Located(y) BY <1>2, <2>2, <2>4, <2>5 DEF Fits, Located
    <2>9. NothingSent(client[c])'
      BY <1>2, <1>3, <2>2, <2>3, <2>4, <2>5, <2>7 DEF Fits, NothingSent
    <2>10. LiveRow(client[c])' BY <1>3, <2>2, <2>3, <2>5, <2>6 DEF LiveRow
    <2>11. q.pc # "store" /\ y.pc # "store" BY <1>2, <2>2
    <2>12. PaperRow(client[c])'
      <3>1. y.seen.vid = 0
        BY <1>2, <2>2, <2>4 DEF Fits, Located, Absent
      <3> QED BY <1>3, <2>2, <2>3, <2>5, <2>6, <2>11, <3>1 DEF PaperRow
    <2>13. PaysOnce(c, client[c])' BY <1>3, <2>2, <2>3, <2>4, <2>5 DEF Fits, PaysOnce
    <2>14. Fits(c, client[c])' BY <2>3, <2>8, <2>9, <2>10, <2>12, <2>13 DEF Fits
    <2>15. Pending' BY <1>1, <1>2, <1>3, <2>1, StillPending DEF IInv
    <2> QED BY <1>1, <1>2, <1>3, <2>1, <2>2, <2>14, <2>15, QuietKeeps
  <1> QED BY <1>4, <1>5

LEMMA LookKeeps ==
  ASSUME IInv, NEW c \in Clients, Look(c)
  PROVE  IInv'
  <1> DEFINE q == client[c]
             y == [q EXCEPT !.pc = "store", !.seen = row]
  <1>1. client \in [Clients -> Request] /\ q \in Request /\ row \in Row
        /\ lock \in Clients \cup {Nobody} /\ crashes \in 0 .. MaxCrashes
    BY DEF IInv, TypeOK
  <1>2. q.pc = "look" /\ Active(c) BY DEF Look, Active
  <1>3. UNCHANGED <<row, booked, orders, lock, live, calls, crashes>>
    BY DEF Look, effects, bounds
  <1>4. client' = [client EXCEPT ![c] = y] BY DEF Look
  <1>5. /\ y \in Request /\ y.pc = "store" /\ y.task = q.task /\ y.venue = q.venue
        /\ y.id = q.id /\ y.seen = row /\ y.receipt = q.receipt /\ y.pays = q.pays
    BY <1>1, RequestParts DEF Pcs
  <1> HIDE DEF y
  <1>6. client'[c] = y BY <1>1, <1>4
  <1>7. Fits(c, q) /\ RowAgrees BY DEF IInv
  <1>8. /\ AtRow(y) /\ AtRow(q) /\ Recording(y) = Recording(q) /\ Sending(y) = Sending(q)
        /\ Persisting(y) = Persisting(q) /\ Erasing(y) = Erasing(q)
    BY <1>2, <1>5 DEF AtRow, Recording, Sending, Persisting, Erasing
  <1>9. Located(y) BY <1>2, <1>5, <1>7, <1>8 DEF Fits, Located, RowAgrees
  <1>10. NothingSent(client[c])'
    BY <1>2, <1>3, <1>5, <1>6, <1>7, <1>8 DEF Fits, NothingSent
  <1>11. LiveRow(client[c])' BY <1>2, <1>3, <1>5, <1>6, <1>7, <1>8 DEF Fits, LiveRow
  <1>12. PaperRow(client[c])'
    <2>1. Recording(q) /\ q.task = "record" <=> q.task = "record"
      BY <1>2 DEF Recording, AtRow
    <2> QED BY <1>2, <1>3, <1>5, <1>6, <1>7, <1>8, <2>1 DEF Fits, PaperRow
  <1>13. PaysOnce(c, client[c])' BY <1>3, <1>5, <1>6, <1>7, <1>8 DEF Fits, PaysOnce
  <1>14. Fits(c, client[c])' BY <1>6, <1>9, <1>10, <1>11, <1>12, <1>13 DEF Fits
  <1>15. Pending' BY <1>1, <1>2, <1>3, <1>4, <1>5, <1>8, StillPending DEF IInv
  <1> QED BY <1>1, <1>2, <1>3, <1>4, <1>5, <1>14, <1>15, QuietKeeps

\* The row a put leaves: of the type of rows, there, and with the id it had.
LEMMA StoredRow ==
  ASSUME IInv, NEW c \in Clients, client[c].pc = "store", Storable(c), Active(c),
         ~Erasing(client[c])
  PROVE  /\ Stored(c) \in Row /\ Stored(c) # Absent /\ Stored(c).phase # "ABSENT"
         /\ Stored(c).id # 0
         /\ row # Absent => Stored(c).id = row.id
         /\ Stored(c).phase \in {row.phase, Intended(c).phase}
         /\ Stored(c).vid \in {row.vid, Intended(c).vid}
         /\ client[c].seen = row =>
              Stored(c).phase = Intended(c).phase /\ Stored(c).vid = Intended(c).vid
  <1> DEFINE q == client[c]
             i == Intended(c)
  <1>1. q \in Request /\ row \in Row BY DEF IInv, TypeOK
  <1>2. Located(q) /\ RowAgrees BY DEF IInv, Fits
  <1>3. q.id # 0 /\ q.id \in 0 .. MaxCalls BY <1>1, <1>2 DEF Located, Active, Request
  <1>4. Bound(q.receipt) \in {"filled", "venue_bound", "send_attempted"} BY DEF Bound
  <1>5. q.receipt.vid \in Nat BY <1>1 DEF Request
  <1>6. /\ i.id = q.id /\ i.phase \in Phases /\ i.phase # "ABSENT" /\ i.vid \in Nat /\ i \in Row
    BY <1>3, <1>4, <1>5 DEF Intended, Phases, Row
  <1> HIDE DEF i
  <1>7. CASE q.seen = Absent
    <2>1. row = Absent /\ Stored(c) = i BY <1>7 DEF Storable, Stored, i
    <2> QED BY <1>3, <1>6, <1>7, <2>1 DEF i, Absent
  <1>8. CASE q.seen # Absent
    <2> DEFINE m == Merged(q.seen, i)
    <2>1. row # Absent /\ row.id = q.seen.id /\ Stored(c) = m
      BY <1>8 DEF Storable, Stored, i
    <2>2. row.phase # "ABSENT" /\ row.id # 0 BY <1>2, <2>1 DEF RowAgrees
    <2>3. /\ row.id \in 0 .. MaxCalls /\ row.phase \in Phases /\ row.vid \in Nat
      BY <1>1 DEF Row
    <2>4. /\ m \in Row /\ m.id = row.id
          /\ m.phase = (IF i.phase = q.seen.phase THEN row.phase ELSE i.phase)
          /\ m.vid = (IF i.vid = q.seen.vid THEN row.vid ELSE i.vid)
      BY <1>6, <2>3 DEF Merged, Row
    <2> HIDE DEF m
    <2>5. m.phase # "ABSENT" /\ m # Absent BY <1>6, <2>2, <2>4 DEF Absent
    <2> QED BY <2>1, <2>2, <2>4, <2>5 DEF i
  <1> QED BY <1>7, <1>8

LEMMA RecordKeeps ==
  ASSUME IInv, NEW c \in Clients, Record(c)
  PROVE  IInv'
  <1> DEFINE q == client[c]
             y == [q EXCEPT !.pc = IF q.task = "record" THEN "look" ELSE "submit",
                            !.task = IF q.task = "record" THEN "mark" ELSE "persist",
                            !.seen = Absent]
  <1>1. client \in [Clients -> Request] /\ q \in Request /\ row \in Row /\ live \in Traces
        /\ lock \in Clients \cup {Nobody} /\ crashes \in 0 .. MaxCrashes
        /\ booked \in Nat /\ orders \in Nat
    BY DEF IInv, TypeOK, Traces
  <1>2. q.pc = "store" /\ q.task \in {"record", "mark"} /\ Active(c) BY DEF Record, Active
  <1>3. /\ Recording(q) /\ Sending(q) /\ ~Persisting(q) /\ ~Erasing(q)
    BY <1>2 DEF AtRow, Recording, Sending, Persisting, Erasing
  <1>4. UNCHANGED <<booked, orders, lock, live, calls, crashes>> BY DEF Record, effects, bounds
  <1>5. Fits(c, q) /\ RowAgrees BY DEF IInv
  <1>6. CASE ~Storable(c)
    <2>1. client' = [client EXCEPT ![c] = Resting("error")] /\ UNCHANGED row
      BY <1>6 DEF Record
    <2>2. "error" \in Answers BY DEF Answers
    <2> QED BY <1>2, <1>3, <1>4, <2>1, <2>2, AnswerKeeps
  <1>7. CASE Storable(c)
    <2>1. client' = [client EXCEPT ![c] = y] /\ row' = Stored(c) BY <1>7 DEF Record
    <2>2. 0 \in 0 .. MaxCalls /\ Absent \in Row /\ Absent.phase = "ABSENT" /\ Absent.vid = 0
      BY BoundAssumption DEF Absent, Row, Phases
    <2>3. /\ y \in Request /\ y.venue = q.venue /\ y.seen = Absent
          /\ y.id = q.id /\ y.receipt = q.receipt /\ y.pays = q.pays
          /\ q.task = "record" => y.pc = "look" /\ y.task = "mark"
          /\ q.task = "mark" => y.pc = "submit" /\ y.task = "persist"
      BY <1>1, <1>2, <2>2, RequestParts DEF Pcs, Tasks
    <2> HIDE DEF y
    <2>4. client'[c] = y BY <1>1, <2>1
    <2>5. /\ row' \in Row /\ row' # Absent /\ row'.phase # "ABSENT" /\ row'.id # 0
          /\ row # Absent => row'.id = row.id
          /\ row'.phase \in {row.phase, Intended(c).phase}
          /\ row'.vid \in {row.vid, Intended(c).vid}
          /\ q.seen = row => row'.phase = Intended(c).phase /\ row'.vid = Intended(c).vid
      BY <1>2, <1>3, <1>7, <2>1, StoredRow
    <2>6. /\ Intended(c).vid = 0
          /\ q.task = "record" => Intended(c).phase = "recorded"
          /\ q.task = "mark" => Intended(c).phase = "send_attempted"
      BY <1>2 DEF Intended
    <2>7. orders = 0 /\ live = NoTrace /\ live.status = "ABSENT"
      BY <1>3, <1>5 DEF Fits, NothingSent, NoTrace
    <2>8. row'.vid = 0 BY <1>5, <2>5, <2>6, <2>7 DEF RowAgrees
    <2>9. /\ ~Persisting(y) /\ ~Erasing(y) /\ Sending(y)
          /\ q.task = "record" => Recording(y)
          /\ q.task = "mark" => ~Recording(y)
      BY <1>2, <2>3 DEF AtRow, Recording, Sending, Persisting, Erasing
    <2>10. ~q.pays /\ q.receipt.vid = 0
      BY <1>2, <1>3, <1>5 DEF Fits, PaysOnce, Located
    <2>11. Located(y)
      <3>1. AtRow(y) => Recording(y) BY <1>2, <2>3, <2>9 DEF AtRow
      <3> QED BY <1>2, <1>5, <2>2, <2>3, <2>9, <2>10, <3>1 DEF Fits, Located
    <2>12. NothingSent(client[c])'
      BY <1>2, <1>4, <1>5, <2>3, <2>4, <2>7 DEF Fits, NothingSent
    <2>13. LiveRow(client[c])'
      BY <1>2, <1>4, <1>5, <2>3, <2>4, <2>5, <2>6, <2>7, <2>9 DEF Fits, LiveRow
    <2>14. PaperRow(client[c])'
      BY <1>2, <2>2, <2>3, <2>4, <2>5, <2>8 DEF PaperRow
    <2>15. PaysOnce(c, client[c])' BY <2>3, <2>4, <2>9, <2>10 DEF PaysOnce
    <2>16. Fits(c, client[c])' BY <2>4, <2>11, <2>12, <2>13, <2>14, <2>15 DEF Fits
    <2>17. OneEffectPerLeg' /\ SentIsRecorded' /\ Pending' /\ TraceOfRow'
      BY <1>4, <2>7 DEF IInv, Effects, OneEffectPerLeg, SentIsRecorded, Pending, TraceOfRow
    <2>18. FilledIsBooked'
      BY <1>2, <1>4, <2>5, <2>6 DEF IInv, Effects, FilledIsBooked
    <2>19. RowAgrees' BY <1>4, <2>5, <2>7, <2>8 DEF RowAgrees
    <2> QED BY <1>1, <1>2, <1>4, <2>1, <2>3, <2>5, <2>8, <2>16, <2>17, <2>18, <2>19, StepKeeps
  <1> QED BY <1>6, <1>7

-----------------------------------------------------------------------------
(* The effect. *)

\* What Receive makes of a request that sends.
After(q, r, p) ==
  [q EXCEPT !.pc = "look", !.task = IF r.status = "rejected" THEN "erase" ELSE "persist",
            !.receipt = r, !.pays = p]

LEMMA Received ==
  ASSUME NEW q \in Request, NEW r \in ReceiptSet, NEW p \in BOOLEAN,
         r.status \in {"executed", "submitted", "unknown", "rejected"}
  PROVE  /\ After(q, r, p) \in Request
         /\ After(q, r, p).pc = "look" /\ After(q, r, p).venue = q.venue
         /\ After(q, r, p).id = q.id /\ After(q, r, p).seen = q.seen
         /\ After(q, r, p).receipt = r /\ After(q, r, p).pays = p
         /\ After(q, r, p).task = IF r.status = "rejected" THEN "erase" ELSE "persist"
  BY RequestParts DEF After, Pcs, Tasks

LEMMA AfterPlace ==
  ASSUME NEW y, y.pc = "look", y.task \in {"erase", "persist"}
  PROVE  /\ ~Recording(y) /\ ~Sending(y) /\ AtRow(y)
         /\ Persisting(y) <=> y.task = "persist"
         /\ Erasing(y) <=> y.task = "erase"
  BY DEF AtRow, Recording, Sending, Persisting, Erasing

\* Under the lock of the account: the transaction is still to be made, or it is there.
LEMMA PaperKeeps ==
  ASSUME IInv, NEW c \in Clients, Paper(c)
  PROVE  IInv'
  <1> DEFINE q == client[c]
  <1>1. client \in [Clients -> Request] /\ q \in Request /\ booked \in Nat
        /\ crashes \in 0 .. MaxCrashes /\ orders \in Nat
    BY DEF IInv, TypeOK
  <1>2. q.pc = "submit" /\ q.venue = "paper" /\ Active(c) /\ lock = Nobody /\ lock' = c
    BY DEF Paper, Active
  <1>3. UNCHANGED <<row, booked, orders, live, calls, crashes>> BY DEF Paper, effects, bounds
  <1>4. PICK r \in ReceiptSet, p \in BOOLEAN :
          /\ Receive(c, r, p)
          /\ r.vid = 0
          /\ r.status \in {"executed", "unknown"}
          /\ p => r.status = "executed"
          /\ r.status = "executed" => p = (booked = 0)
    <2>1. Receipt("executed", 0) \in ReceiptSet /\ Receipt("unknown", 0) \in ReceiptSet
      BY DEF Receipt, ReceiptSet, Receipts
    <2>2. /\ Receipt("executed", 0).status = "executed" /\ Receipt("executed", 0).vid = 0
          /\ Receipt("unknown", 0).status = "unknown" /\ Receipt("unknown", 0).vid = 0
      BY DEF Receipt
    <2>3. (booked = 0) \in BOOLEAN OBVIOUS
    <2>4. CASE Receive(c, Receipt("executed", 0), Unbooked)
      BY <2>1, <2>2, <2>3, <2>4 DEF Unbooked
    <2>5. CASE Receive(c, Receipt("unknown", 0), FALSE)
      BY <2>1, <2>2, <2>5
    <2> QED BY <2>4, <2>5 DEF Paper
  <1> DEFINE y == After(q, r, p)
  <1>5. client' = [client EXCEPT ![c] = y] BY <1>4 DEF Receive, After
  <1>6. /\ y \in Request /\ y.pc = "look" /\ y.venue = q.venue /\ y.id = q.id
        /\ y.seen = q.seen /\ y.receipt = r /\ y.pays = p /\ y.task = "persist"
        /\ ~Recording(y) /\ ~Sending(y) /\ AtRow(y) /\ Persisting(y) /\ ~Erasing(y)
    <2>1. /\ y \in Request /\ y.pc = "look" /\ y.venue = q.venue /\ y.id = q.id
          /\ y.seen = q.seen /\ y.receipt = r /\ y.pays = p /\ y.task = "persist"
      BY <1>1, <1>4, Received
    <2> HIDE DEF y
    <2> QED BY <2>1, AfterPlace
  <1> HIDE DEF y
  <1>7. client'[c] = y BY <1>1, <1>5
  <1>8. Fits(c, q) BY DEF IInv
  <1>9. Sending(q) /\ ~Recording(q) /\ ~Persisting(q) /\ ~Erasing(q)
    BY <1>2 DEF Sending, Recording, Persisting, Erasing, AtRow
  <1>10. orders = 0 /\ live = NoTrace BY <1>8, <1>9 DEF Fits, NothingSent
  <1>11. Located(y) BY <1>2, <1>4, <1>6, <1>8 DEF Fits, Located
  <1>12. NothingSent(client[c])' BY <1>2, <1>3, <1>6, <1>7, <1>10 DEF NothingSent
  <1>13. LiveRow(client[c])' BY <1>2, <1>6, <1>7 DEF LiveRow
  <1>14. PaperRow(client[c])'
    BY <1>2, <1>3, <1>6, <1>7, <1>8, <1>9 DEF Fits, PaperRow
  <1>15. booked = 0 \/ booked = 1
    BY <1>1 DEF IInv, Effects, OneEffectPerLeg
  <1>16. PaysOnce(c, client[c])'
    <2>1. y.pays => lock' = c /\ booked' = 0 BY <1>2, <1>3, <1>4, <1>6
    <2>2. y.receipt.status = "executed" => y.pays \/ booked' = 1 BY <1>3, <1>4, <1>6, <1>15
    <2>3. y.receipt.vid = 0 BY <1>4, <1>6
    <2> QED BY <1>6, <1>7, <2>1, <2>2, <2>3 DEF PaysOnce
  <1>17. Fits(c, client[c])' BY <1>7, <1>11, <1>12, <1>13, <1>14, <1>16 DEF Fits
  <1>18. Pending' BY <1>3, <1>10 DEF Pending
  <1>19. \A d \in Clients : d # c /\ lock = d => lock' = d BY <1>2, NobodyAssumption
  <1> QED BY <1>1, <1>2, <1>3, <1>5, <1>6, <1>17, <1>18, <1>19, QuietKeeps

\* The live request is alone: the leg has had no effect, and gets at most one order.
LEMMA PostKeeps ==
  ASSUME IInv, NEW c \in Clients, Post(c)
  PROVE  IInv'
  <1> DEFINE q == client[c]
  <1>1. client \in [Clients -> Request] /\ q \in Request /\ booked \in Nat /\ row \in Row
        /\ live \in Traces /\ lock \in Clients \cup {Nobody}
        /\ crashes \in 0 .. MaxCrashes /\ orders \in Nat
    BY DEF IInv, TypeOK, Traces
  <1>2. q.pc = "submit" /\ q.venue = "live" /\ Active(c) BY DEF Post, Active
  <1>3. UNCHANGED <<row, booked, lock, live, calls, crashes>> BY DEF Post, bounds
  <1>4. Sending(q) /\ ~Recording(q) /\ ~Persisting(q) /\ ~Erasing(q)
    BY <1>2 DEF Sending, Recording, Persisting, Erasing, AtRow
  <1>5. Fits(c, q) /\ RowAgrees BY DEF IInv
  <1>6. orders = 0 /\ live = NoTrace /\ live.status = "ABSENT" /\ booked = 0
    BY <1>2, <1>4, <1>5 DEF Fits, NothingSent, NoTrace
  <1>7. row.phase = "send_attempted" /\ row.vid = 0 BY <1>2, <1>5 DEF Fits, LiveRow
  <1>8. PICK r \in ReceiptSet :
          /\ Receive(c, r, FALSE)
          /\ r.status \in {"submitted", "unknown", "rejected"}
          /\ r.status = "rejected" => r = Receipt("rejected", 0)
          /\ r.vid # 0 => orders' = 1
          /\ orders' \in {0, 1}
          /\ r.status = "rejected" => orders' = 0
    <2>1. \A s \in {"submitted", "unknown", "rejected"}, v \in {0, 1} :
            Receipt(s, v) \in ReceiptSet /\ Receipt(s, v).status = s /\ Receipt(s, v).vid = v
      BY DEF Receipt, ReceiptSet, Receipts
    <2>2. CASE Receive(c, Receipt("rejected", 0), FALSE) /\ UNCHANGED orders
      BY <1>6, <2>1, <2>2
    <2>3. CASE Receive(c, Receipt("unknown", 0), FALSE) /\ UNCHANGED orders
      BY <1>6, <2>1, <2>3
    <2>4. CASE Accepted(c)
      <3>1. orders + 1 = 1 BY <1>6
      <3>2. PICK s \in {"submitted", "unknown"}, v \in {0, 1} :
              Receive(c, Receipt(s, v), FALSE) /\ orders' = 1
        BY <2>4, <3>1 DEF Accepted
      <3> QED BY <2>1, <3>2
    <2> QED BY <2>2, <2>3, <2>4 DEF Post
  <1> DEFINE y == After(q, r, FALSE)
  <1>9. client' = [client EXCEPT ![c] = y] BY <1>8 DEF Receive, After
  <1>10. /\ y \in Request /\ y.pc = "look" /\ y.venue = q.venue /\ y.id = q.id
         /\ y.seen = q.seen /\ y.receipt = r /\ y.pays = FALSE
         /\ ~Recording(y) /\ ~Sending(y) /\ AtRow(y)
         /\ Persisting(y) <=> r.status # "rejected"
         /\ Erasing(y) <=> r.status = "rejected"
    <2>1. FALSE \in BOOLEAN OBVIOUS
    <2>2. /\ y \in Request /\ y.pc = "look" /\ y.venue = q.venue /\ y.id = q.id
          /\ y.seen = q.seen /\ y.receipt = r /\ y.pays = FALSE
          /\ y.task = IF r.status = "rejected" THEN "erase" ELSE "persist"
      <3>1. ASSUME NEW p \in BOOLEAN
            PROVE  /\ After(q, r, p) \in Request /\ After(q, r, p).pc = "look"
                   /\ After(q, r, p).venue = q.venue /\ After(q, r, p).id = q.id
                   /\ After(q, r, p).seen = q.seen /\ After(q, r, p).receipt = r
                   /\ After(q, r, p).pays = p
                   /\ After(q, r, p).task = IF r.status = "rejected" THEN "erase" ELSE "persist"
        BY <1>1, <1>8, Received
      <3> QED BY <2>1, <3>1
    <2> HIDE DEF y
    <2> QED BY <2>2, AfterPlace
  <1> HIDE DEF y
  <1>11. client'[c] = y BY <1>1, <1>9
  <1>12. Located(y) BY <1>2, <1>5, <1>8, <1>10 DEF Fits, Located, Receipt
  <1>13. NothingSent(client[c])'
    BY <1>2, <1>3, <1>6, <1>8, <1>10, <1>11 DEF NothingSent
  <1>14. LiveRow(client[c])' BY <1>3, <1>6, <1>7, <1>10, <1>11 DEF LiveRow
  <1>15. PaperRow(client[c])' BY <1>2, <1>10, <1>11 DEF PaperRow
  <1>16. PaysOnce(c, client[c])' BY <1>8, <1>10, <1>11 DEF PaysOnce
  <1>17. Fits(c, client[c])' BY <1>11, <1>12, <1>13, <1>14, <1>15, <1>16 DEF Fits
  <1>18. orders' \in Nat /\ OneEffectPerLeg'
    <2>1. booked' = 0 /\ (orders' = 0 \/ orders' = 1) BY <1>3, <1>6, <1>8
    <2> QED BY <2>1 DEF OneEffectPerLeg
  <1>19. SentIsRecorded' BY <1>3, <1>7 DEF SentIsRecorded
  <1>20. FilledIsBooked' /\ TraceOfRow' /\ RowAgrees'
    BY <1>3, <1>5, <1>6, <1>7 DEF FilledIsBooked, TraceOfRow, RowAgrees
  <1>21. Pending'
    <2>1. orders' > 0 => y.venue = "live" /\ Persisting(y) BY <1>2, <1>8, <1>10
    <2> QED BY <1>11, <2>1 DEF Pending
  <1> QED BY <1>1, <1>2, <1>3, <1>9, <1>10, <1>17, <1>18, <1>19, <1>20, <1>21, StepKeeps

-----------------------------------------------------------------------------
(* After the effect. *)

LEMMA ReleasedType ==
  ASSUME NEW c \in Clients, lock \in Clients \cup {Nobody}
  PROVE  /\ Released(c) \in Clients \cup {Nobody}
         /\ \A d \in Clients : d # c /\ lock = d => Released(c) = d
  BY DEF Released

LEMMA BoundValues ==
  ASSUME NEW r
  PROVE  /\ Bound(r) \in {"filled", "venue_bound", "send_attempted"}
         /\ Bound(r) = "filled" <=> r.status = "executed"
  BY DEF Bound

\* A request always finds the row it recorded.
LEMMA PersistFinds ==
  ASSUME IInv, NEW c \in Clients, client[c].pc = "store", Persisting(client[c])
  PROVE  Storable(c)
  <1> DEFINE q == client[c]
  <1>1. Fits(c, q) /\ q \in Request BY DEF IInv, TypeOK
  <1>2. CASE q.venue = "live"
    <2>1. q.seen = row /\ row.phase = "send_attempted" BY <1>1, <1>2 DEF Fits, LiveRow
    <2>2. row # Absent BY <2>1 DEF Absent
    <2> QED BY <2>1, <2>2 DEF Storable
  <1>3. CASE q.venue = "paper"
    <2>1. q.task # "record" BY DEF Persisting
    <2>2. q.seen # Absent /\ row # Absent /\ q.seen.id = row.id
      BY <1>1, <1>3, <2>1 DEF Fits, PaperRow
    <2> QED BY <2>2 DEF Storable
  <1> QED BY <1>1, <1>2, <1>3, RequestParts DEF Venues

LEMMA PersistKeeps ==
  ASSUME IInv, NEW c \in Clients, Persist(c)
  PROVE  IInv'
  <1> DEFINE q == client[c]
             r == q.receipt
  <1>1. client \in [Clients -> Request] /\ q \in Request /\ row \in Row /\ live \in Traces
        /\ lock \in Clients \cup {Nobody} /\ crashes \in 0 .. MaxCrashes
        /\ booked \in Nat /\ orders \in Nat
    BY DEF IInv, TypeOK, Traces
  <1>2. q.pc = "store" /\ q.task = "persist" /\ Active(c) BY DEF Persist, Active
  <1>3. /\ Persisting(q) /\ ~Recording(q) /\ ~Sending(q) /\ ~Erasing(q)
    BY <1>2 DEF AtRow, Recording, Sending, Persisting, Erasing
  <1>4. UNCHANGED <<orders, live, calls, crashes>> /\ lock' = Released(c)
    BY DEF Persist, bounds
  <1>5. Fits(c, q) /\ RowAgrees BY DEF IInv
  <1>6. Storable(c) BY <1>2, <1>3, PersistFinds
  <1>7. row' = Stored(c) /\ booked' = IF q.pays THEN booked + 1 ELSE booked
    BY <1>6 DEF Persist
  <1>8. /\ row' \in Row /\ row' # Absent /\ row'.phase # "ABSENT" /\ row'.id # 0
        /\ row # Absent => row'.id = row.id
        /\ row'.phase \in {row.phase, Intended(c).phase}
        /\ row'.vid \in {row.vid, Intended(c).vid}
        /\ q.seen = row => row'.phase = Intended(c).phase /\ row'.vid = Intended(c).vid
    BY <1>2, <1>3, <1>6, <1>7, StoredRow
  <1>9. Intended(c).phase = Bound(r) /\ Intended(c).vid = r.vid BY <1>2 DEF Intended
  <1>10. lock' \in Clients \cup {Nobody} /\ \A d \in Clients : d # c /\ lock = d => lock' = d
    BY <1>1, <1>4, ReleasedType
  <1>11. r.status \in {"executed", "submitted", "unknown"} BY <1>3, <1>5 DEF Fits, Located
  <1>12. CASE q.venue = "live"
    <2> DEFINE y == [q EXCEPT !.pc = "track", !.seen = Absent]
    <2>1. client' = [client EXCEPT ![c] = y] BY <1>12 DEF Persist, Reported
    <2>2. 0 \in 0 .. MaxCalls /\ Absent \in Row /\ Absent.phase = "ABSENT"
      BY BoundAssumption DEF Absent, Row, Phases
    <2>3. /\ y \in Request /\ y.pc = "track" /\ y.venue = q.venue /\ y.seen = Absent
          /\ y.id = q.id /\ y.receipt = r /\ y.pays = q.pays /\ y.task = q.task
      BY <1>1, <2>2, RequestParts DEF Pcs
    <2> HIDE DEF y
    <2>4. client'[c] = y BY <1>1, <2>1
    <2>5. ~AtRow(y) /\ ~Recording(y) /\ ~Sending(y) /\ ~Persisting(y) /\ ~Erasing(y)
      BY <2>3 DEF AtRow, Recording, Sending, Persisting, Erasing
    <2>6. r.status # "executed" /\ ~q.pays BY <1>5, <1>12 DEF Fits, Located
    <2>7. booked' = 0 /\ booked = 0
      BY <1>2, <1>5, <1>7, <1>12, <2>6 DEF Fits, NothingSent
    <2>8. live = NoTrace /\ live.status = "ABSENT"
      BY <1>3, <1>5, <1>12 DEF Fits, LiveRow, NoTrace
    <2>9. row'.phase = Bound(r) /\ row'.vid = r.vid
      BY <1>2, <1>5, <1>8, <1>9, <1>12 DEF Fits, LiveRow
    <2>10. r.vid # 0 => orders = 1 BY <1>5 DEF Fits, PaysOnce
    <2>11. Located(y)
      BY <1>2, <1>5, <1>11, <1>12, <2>2, <2>3, <2>5, <2>6 DEF Fits, Located
    <2>12. NothingSent(client[c])' BY <1>12, <2>3, <2>4, <2>5, <2>7 DEF NothingSent
    <2>13. LiveRow(client[c])' BY <1>4, <2>3, <2>4, <2>5, <2>8, <2>9 DEF LiveRow
    <2>14. PaperRow(client[c])' BY <2>4, <2>5 DEF PaperRow
    <2>15. PaysOnce(c, client[c])' BY <1>4, <2>3, <2>4, <2>5, <2>6, <2>10 DEF PaysOnce
    <2>16. Fits(c, client[c])' BY <2>4, <2>11, <2>12, <2>13, <2>14, <2>15 DEF Fits
    <2>17. OneEffectPerLeg' /\ FilledIsBooked' /\ SentIsRecorded'
      BY <1>4, <2>6, <2>7, <2>9, BoundValues
      DEF IInv, Effects, OneEffectPerLeg, FilledIsBooked, SentIsRecorded
    <2>18. TraceOfRow' BY <1>4, <2>8 DEF TraceOfRow
    <2>19. RowAgrees' BY <1>4, <1>8, <2>8, <2>9, <2>10 DEF RowAgrees
    <2>20. Pending' BY <1>1, <1>4, <1>12, <2>1, <2>3, StillPending DEF IInv
    <2>21. booked' \in Nat BY <2>7
    <2> QED BY <1>1, <1>2, <1>4, <1>8, <1>10, <1>12, <2>1, <2>3, <2>16, <2>17, <2>18, <2>19,
               <2>20, <2>21, StepKeeps
  <1>13. CASE q.venue = "paper"
    <2> DEFINE y == Resting(r.status)
    <2>1. client' = [client EXCEPT ![c] = y] BY <1>13 DEF Persist, Reported
    <2>2. r.status \in {"executed", "unknown"} /\ r.vid = 0
      BY <1>5, <1>11, <1>13 DEF Fits, Located
    <2>3. y \in Request /\ y.pc = "idle" /\ y.answer = r.status
      BY <2>2, RestingType DEF Answers
    <2> HIDE DEF y
    <2>4. client'[c] = y BY <1>1, <2>1
    <2>5. y = Resting(y.answer) BY <2>3 DEF y
    <2>6. Fits(c, client[c])' BY <2>3, <2>4, <2>5, RestingFitsNext
    <2>7. orders = 0 /\ live = NoTrace /\ live.status = "ABSENT"
      BY <1>3, <1>5, <1>13 DEF Fits, NothingSent, NoTrace
    <2>8. row.vid = 0 BY <1>3, <1>5, <1>13 DEF Fits, PaperRow
    <2>9. row'.vid = 0 BY <1>8, <1>9, <2>2, <2>8
    <2>10. q.pays => booked = 0 /\ lock = c BY <1>5 DEF Fits, PaysOnce
    <2>11. r.status = "executed" => q.pays \/ booked = 1 BY <1>3, <1>5 DEF Fits, PaysOnce
    <2>12. booked = 0 \/ booked = 1 BY <1>1 DEF IInv, Effects, OneEffectPerLeg
    <2>13. q.pays => booked' = 1 BY <1>7, <2>10
    <2>14. ~q.pays => booked' = booked BY <1>7
    <2>15. OneEffectPerLeg' /\ booked' \in Nat
      BY <1>4, <2>7, <2>12, <2>13, <2>14 DEF OneEffectPerLeg
    <2>16. FilledIsBooked'
      <3>1. row.phase = "filled" => booked = 1 BY DEF IInv, Effects, FilledIsBooked
      <3>2. row'.phase = "filled" => row.phase = "filled" \/ r.status = "executed"
        BY <1>8, <1>9, BoundValues
      <3> QED BY <2>10, <2>11, <2>13, <2>14, <3>1, <3>2 DEF FilledIsBooked
    <2>17. SentIsRecorded' /\ TraceOfRow' /\ Pending'
      BY <1>4, <2>7 DEF SentIsRecorded, TraceOfRow, Pending
    <2>18. RowAgrees' BY <1>4, <1>8, <2>7, <2>9 DEF RowAgrees
    <2>19. booked' = booked \/ (booked' = 1 /\ lock = c) BY <2>10, <2>13, <2>14
    <2> QED BY <1>1, <1>2, <1>4, <1>8, <1>10, <2>1, <2>3, <2>6, <2>9, <2>15, <2>16, <2>17,
               <2>18, <2>19, StepKeeps
  <1> QED BY <1>1, <1>12, <1>13, RequestParts DEF Venues

LEMMA EraseKeeps ==
  ASSUME IInv, NEW c \in Clients, Erase(c)
  PROVE  IInv'
  <1> DEFINE q == client[c]
             y == Resting("skipped")
  <1>1. client \in [Clients -> Request] /\ q \in Request /\ live \in Traces
        /\ lock \in Clients \cup {Nobody} /\ crashes \in 0 .. MaxCrashes
        /\ booked \in Nat /\ orders \in Nat
    BY DEF IInv, TypeOK, Traces
  <1>2. q.pc = "store" /\ q.task = "erase" /\ Active(c) /\ Erasing(q)
    BY DEF Erase, Active, Erasing, AtRow
  <1>3. UNCHANGED <<booked, orders, lock, live, calls, crashes>>
    BY DEF Erase, effects, bounds
  <1>4. Fits(c, q) BY DEF IInv
  <1>5. q.venue = "live" BY <1>2, <1>4 DEF Fits, Located
  <1>6. booked = 0 /\ orders = 0 /\ live = NoTrace /\ live.status = "ABSENT"
    BY <1>2, <1>4, <1>5 DEF Fits, NothingSent, NoTrace
  <1>7. q.seen = row /\ row.phase = "send_attempted"
    BY <1>2, <1>4, <1>5 DEF Fits, LiveRow
  <1>8. 0 \in 0 .. MaxCalls /\ Absent \in Row /\ Absent.phase = "ABSENT" /\ Absent.vid = 0
    BY BoundAssumption DEF Absent, Row, Phases
  <1>9. row' = Absent BY <1>7, <1>8 DEF Erase
  <1>10. client' = [client EXCEPT ![c] = y] BY DEF Erase
  <1>11. y \in Request /\ y.pc = "idle" /\ y.answer = "skipped" BY RestingType DEF Answers
  <1> HIDE DEF y
  <1>12. client'[c] = y BY <1>1, <1>10
  <1>13. y = Resting(y.answer) BY <1>11 DEF y
  <1>14. Fits(c, client[c])' BY <1>11, <1>12, <1>13, RestingFitsNext
  <1>15. OneEffectPerLeg' /\ SentIsRecorded' /\ FilledIsBooked' /\ TraceOfRow' /\ RowAgrees'
         /\ Pending'
    BY <1>3, <1>6, <1>8, <1>9
    DEF OneEffectPerLeg, SentIsRecorded, FilledIsBooked, TraceOfRow, RowAgrees, Pending
  <1>16. row' \in Row BY <1>8, <1>9
  <1> QED BY <1>1, <1>2, <1>3, <1>5, <1>10, <1>11, <1>14, <1>15, <1>16, StepKeeps

LEMMA TrackKeeps ==
  ASSUME IInv, NEW c \in Clients, Track(c)
  PROVE  IInv'
  <1> DEFINE q == client[c]
             y == Resting("unknown")
             r == q.receipt
  <1>1. client \in [Clients -> Request] /\ q \in Request /\ row \in Row
        /\ lock \in Clients \cup {Nobody} /\ crashes \in 0 .. MaxCrashes
        /\ booked \in Nat /\ orders \in Nat
    BY DEF IInv, TypeOK
  <1>2. q.pc = "track" /\ Active(c) BY DEF Track, Active
  <1>3. UNCHANGED <<row, booked, orders, lock, calls, crashes>> BY DEF Track, effects, bounds
  <1>4. Fits(c, q) /\ RowAgrees BY DEF IInv
  <1>5. q.venue = "live" BY <1>2, <1>4 DEF Fits, Located
  <1>6. row.phase = Bound(r) /\ row.vid = r.vid /\ live = NoTrace
    BY <1>2, <1>4, <1>5 DEF Fits, LiveRow
  <1>7. r.vid \in Nat BY <1>1 DEF Request
  <1>8. live' \in Traces /\ live'.status # "ABSENT" /\ live'.vid = r.vid
    BY <1>6, <1>7 DEF Track, Traced, NoTrace, Traces
  <1>9. row # Absent BY <1>6, BoundValues DEF Absent
  <1>10. client' = [client EXCEPT ![c] = y] BY DEF Track
  <1>11. y \in Request /\ y.pc = "idle" /\ y.answer = "unknown" BY RestingType DEF Answers
  <1> HIDE DEF y
  <1>12. client'[c] = y BY <1>1, <1>10
  <1>13. y = Resting(y.answer) BY <1>11 DEF y
  <1>14. Fits(c, client[c])' BY <1>11, <1>12, <1>13, RestingFitsNext
  <1>15. OneEffectPerLeg' /\ SentIsRecorded' /\ FilledIsBooked'
    BY <1>3 DEF IInv, Effects, OneEffectPerLeg, SentIsRecorded, FilledIsBooked
  <1>16. TraceOfRow' /\ RowAgrees' /\ Pending'
    BY <1>3, <1>4, <1>6, <1>8, <1>9 DEF TraceOfRow, RowAgrees, Pending
  <1> QED BY <1>1, <1>2, <1>3, <1>5, <1>8, <1>10, <1>11, <1>14, <1>15, <1>16, StepKeeps

\* A request that dies loses its uncommitted transaction; an order on its way stays.
LEMMA CrashKeeps ==
  ASSUME IInv, NEW c \in Clients, Crash(c)
  PROVE  IInv'
  <1> DEFINE q == client[c]
             y == Resting("lost")
  <1>1. client \in [Clients -> Request] /\ q \in Request /\ row \in Row /\ live \in Traces
        /\ lock \in Clients \cup {Nobody} /\ crashes \in 0 .. MaxCrashes
        /\ booked \in Nat /\ orders \in Nat
    BY DEF IInv, TypeOK, Traces
  <1>2. Active(c) /\ lock' = Released(c) /\ crashes < MaxCrashes /\ crashes' = crashes + 1
        /\ UNCHANGED <<row, booked, live, calls>>
    BY DEF Crash
  <1>3. crashes' \in 0 .. MaxCrashes /\ crashes' # 0 BY <1>1, <1>2, BoundAssumption
  <1>4. Pending' BY <1>3 DEF Pending
  <1>5. lock' \in Clients \cup {Nobody} /\ \A d \in Clients : d # c /\ lock = d => lock' = d
    BY <1>1, <1>2, ReleasedType
  <1>6. client' = [client EXCEPT ![c] = y] BY DEF Crash
  <1>7. y \in Request /\ y.pc = "idle" /\ y.answer = "lost" BY RestingType DEF Answers
  <1> HIDE DEF y
  <1>8. client'[c] = y BY <1>1, <1>6
  <1>9. y = Resting(y.answer) BY <1>7 DEF y
  <1>10. Fits(c, client[c])' BY <1>7, <1>8, <1>9, RestingFitsNext
  <1>11. CASE UNCHANGED orders
    BY <1>2, <1>3, <1>4, <1>5, <1>6, <1>7, <1>10, <1>11, QuietKeeps
  <1>12. CASE q.pc = "submit" /\ q.venue = "live" /\ orders' = orders + 1
    <2>1. Fits(c, q) /\ RowAgrees BY DEF IInv
    <2>2. Sending(q) BY <1>12 DEF Sending
    <2>3. orders = 0 /\ live = NoTrace /\ live.status = "ABSENT" /\ booked = 0
      BY <1>12, <2>1, <2>2 DEF Fits, NothingSent, NoTrace
    <2>4. orders' = 1 BY <1>12, <2>3
    <2>5. row.phase = "send_attempted" /\ row.vid = 0 BY <1>12, <2>1 DEF Fits, LiveRow
    <2>6. OneEffectPerLeg' /\ SentIsRecorded' /\ FilledIsBooked' /\ TraceOfRow' /\ RowAgrees'
      BY <1>2, <2>1, <2>3, <2>4, <2>5
      DEF OneEffectPerLeg, SentIsRecorded, FilledIsBooked, TraceOfRow, RowAgrees
    <2>7. /\ row' \in Row /\ booked' \in Nat /\ orders' \in Nat /\ live' \in Traces
          /\ calls' = calls
      BY <1>1, <1>2, <2>4
    <2> QED BY <1>2, <1>3, <1>4, <1>5, <1>6, <1>7, <1>10, <1>12, <2>6, <2>7, StepKeeps
  <1> QED BY <1>11, <1>12 DEF Crash

-----------------------------------------------------------------------------
(* The invariant. *)

LEMMA StutterKeeps == ASSUME IInv, UNCHANGED vars PROVE IInv'
  <1>1. UNCHANGED <<row, booked, orders, lock, live, client, calls, crashes>> BY DEF vars
  <1>2. \A c \in Clients : Fits(c, client[c])' BY <1>1, SameFits DEF IInv
  <1>3. TypeOK' /\ LiveIsAlone' /\ RowAgrees'
    BY <1>1 DEF IInv, TypeOK, LiveIsAlone, Active, RowAgrees
  <1>4. Effects' /\ Pending'
    BY <1>1 DEF IInv, Effects, Pending, Persisting, AtRow, OneEffectPerLeg, SentIsRecorded,
                FilledIsBooked, TraceAgrees, Active
  <1> QED BY <1>2, <1>3, <1>4 DEF IInv

LEMMA NextKeeps == ASSUME PaperOnly, IInv, [Next]_vars PROVE IInv'
  <1>1. ASSUME NEW c \in Clients, Step(c) PROVE IInv'
    BY <1>1, PeekKeeps, RecoverKeeps, LookKeeps, RecordKeeps, PaperKeeps, PostKeeps,
       PersistKeeps, EraseKeeps, TrackKeeps DEF Step
  <1>2. ASSUME NEW c \in Clients, NEW v \in Venues, Begin(c, v) PROVE IInv' BY <1>2, BeginKeeps
  <1> QED BY <1>1, <1>2, CrashKeeps, StutterKeeps DEF Next

\* The inductive invariant holds in every state, when only requests on a paper
\* account overlap.
THEOREM Invariance == ASSUME PaperOnly PROVE Spec => []IInv
  <1>1. Init => IInv BY InitInv
  <1>2. IInv /\ [Next]_vars => IInv' BY NextKeeps
  <1> QED BY <1>1, <1>2, PTL DEF Spec

\* The rows of the leg and the requests keep their types.
THEOREM TypeCorrect == ASSUME PaperOnly PROVE Spec => []TypeOK
  <1>1. IInv => TypeOK BY DEF IInv
  <1> QED BY <1>1, Invariance, PTL

\* The leg takes effect at most once, however its requests repeat or die.
THEOREM AtMostOneEffect == ASSUME PaperOnly PROVE Spec => []OneEffectPerLeg
  <1>1. IInv => OneEffectPerLeg BY DEF IInv, Effects
  <1> QED BY <1>1, Invariance, PTL

\* An order that may exist is recorded as sent, so no later request sends again.
THEOREM OrdersAreRecorded == ASSUME PaperOnly PROVE Spec => []SentIsRecorded
  <1>1. IInv => SentIsRecorded BY DEF IInv, Effects
  <1> QED BY <1>1, Invariance, PTL

\* A filled row has its transaction.
THEOREM FilledHasTrade == ASSUME PaperOnly PROVE Spec => []FilledIsBooked
  <1>1. IInv => FilledIsBooked BY DEF IInv, Effects
  <1> QED BY <1>1, Invariance, PTL

\* The two tables name the same order, and an order without a trace has a request
\* at work on it, or lost one.
THEOREM TracesAgree == ASSUME PaperOnly PROVE Spec => []TraceAgrees
  <1>1. IInv => TraceAgrees BY DEF IInv, Effects
  <1> QED BY <1>1, Invariance, PTL

-----------------------------------------------------------------------------
(* What the steps do. *)

\* The order id of the venue stays in the row once it is there.
LEMMA VidStep ==
  ASSUME IInv, [Next]_vars, row.vid # 0
  PROVE  row'.vid = row.vid
  <1>1. orders = 1 BY DEF IInv, RowAgrees
  <1>2. \A c \in Clients : ~Sending(client[c]) /\ ~Erasing(client[c])
    BY <1>1 DEF IInv, Fits, NothingSent
  <1>3. ASSUME NEW c \in Clients, Record(c) PROVE FALSE
    BY <1>2, <1>3 DEF Record, Sending, Recording, AtRow
  <1>4. ASSUME NEW c \in Clients, Erase(c) PROVE FALSE
    BY <1>2, <1>4 DEF Erase, Erasing, AtRow
  <1>5. ASSUME NEW c \in Clients, Persist(c) PROVE FALSE
    <2>1. Persisting(client[c]) BY <1>5 DEF Persist, Persisting, AtRow
    <2>2. CASE client[c].venue = "live" BY <2>1, <2>2 DEF IInv, Fits, LiveRow
    <2>3. CASE client[c].venue = "paper" BY <2>1, <2>3 DEF IInv, Fits, PaperRow
    <2> QED BY <2>2, <2>3, RequestParts DEF IInv, TypeOK, Venues
  <1>6. ASSUME NEW c \in Clients, Step(c) PROVE UNCHANGED row
    BY <1>3, <1>4, <1>5, <1>6 DEF Step, Peek, Recover, Look, Paper, Post, Track
  <1> QED BY <1>6 DEF Next, Crash, Begin, vars

\* The order id of the venue, once in the row, stays there.
THEOREM VenueIdForGood == ASSUME PaperOnly PROVE Spec => VenueIdIsKept
  <1>1. IInv /\ [Next]_vars => [row.vid # 0 => row'.vid = row.vid]_vars BY VidStep
  <1> QED BY <1>1, Invariance, PTL DEF Spec, VenueIdIsKept

\* What request c may say when it answers.
TrueAnswer(c) ==
  /\ client'[c].answer = "executed" => booked' = 1
  /\ client'[c].answer = "skipped" => booked' + orders' = 0

LEMMA SafeAnswer ==
  ASSUME NEW c \in Clients, NEW a \in {"unknown", "error", "lost"},
         client \in [Clients -> Request], client' = [client EXCEPT ![c] = Resting(a)]
  PROVE  TrueAnswer(c)
  <1>1. Resting(a).answer = a BY DEF Resting
  <1>2. client'[c] = Resting(a) OBVIOUS
  <1> QED BY <1>1, <1>2 DEF TrueAnswer

LEMMA PersistAnswer ==
  ASSUME IInv, NEW c \in Clients, Persist(c), client'[c].pc = "idle"
  PROVE  TrueAnswer(c)
  <1> DEFINE q == client[c]
  <1>1. client \in [Clients -> Request] /\ q \in Request /\ booked \in Nat BY DEF IInv, TypeOK
  <1>2. q.pc = "store" /\ Persisting(q) BY DEF Persist, Persisting, AtRow
  <1>3. Storable(c) BY <1>2, PersistFinds
  <1>4. booked' = IF q.pays THEN booked + 1 ELSE booked BY <1>3 DEF Persist
  <1>5. Fits(c, q) BY DEF IInv
  <1>6. CASE q.venue = "live"
    <2>1. client'[c] = [q EXCEPT !.pc = "track", !.seen = Absent]
      BY <1>1, <1>6 DEF Persist, Reported
    <2>2. client'[c].pc = "track" BY <1>1, <2>1, RequestParts
    <2> QED BY <2>2
  <1>7. CASE q.venue = "paper"
    <2>1. client'[c] = Resting(q.receipt.status) BY <1>1, <1>7 DEF Persist, Reported
    <2>2. q.receipt.status \in {"executed", "unknown"} BY <1>2, <1>5, <1>7 DEF Fits, Located
    <2>3. client'[c].answer = q.receipt.status BY <2>1 DEF Resting
    <2>4. q.receipt.status = "executed" => booked' = 1
      BY <1>2, <1>4, <1>5 DEF Fits, PaysOnce
    <2> QED BY <2>2, <2>3, <2>4 DEF TrueAnswer
  <1> QED BY <1>1, <1>6, <1>7, RequestParts DEF Venues

LEMMA AnswerStep ==
  ASSUME IInv, [Next]_vars, NEW c \in Clients, Active(c), client'[c].pc = "idle"
  PROVE  TrueAnswer(c)
  <1> DEFINE q == client[c]
  <1>1. client \in [Clients -> Request] /\ q \in Request /\ booked \in Nat BY DEF IInv, TypeOK
  <1>2. CASE Peek(c)
    <2>1. CASE booked > 0
      <3>1. booked = 1 /\ booked' = booked
        BY <1>1, <1>2, <2>1 DEF Peek, effects, IInv, Effects, OneEffectPerLeg, TypeOK
      <3>2. client'[c] = Resting("executed") BY <1>1, <1>2, <2>1 DEF Peek
      <3>3. client'[c].answer = "executed" BY <3>2 DEF Resting
      <3> QED BY <3>1, <3>3 DEF TrueAnswer
    <2>2. CASE ~(booked > 0)
      <3>1. client'[c].pc = "recover" BY <1>1, <1>2, <2>2, RequestParts DEF Peek
      <3> QED BY <3>1
    <2> QED BY <2>1, <2>2
  <1>3. CASE Recover(c)
    <2>1. CASE InFlight BY <1>1, <1>3, <2>1, SafeAnswer DEF Recover
    <2>2. CASE ~InFlight
      <3>1. client'[c].pc = "look" BY <1>1, <1>3, <2>2, RequestParts DEF Recover
      <3> QED BY <3>1
    <2> QED BY <2>1, <2>2
  <1>4. CASE Look(c)
    <2>1. client'[c].pc = "store" BY <1>1, <1>4, RequestParts DEF Look
    <2> QED BY <2>1
  <1>5. CASE Record(c)
    <2>1. CASE ~Storable(c) BY <1>1, <1>5, <2>1, SafeAnswer DEF Record
    <2>2. CASE Storable(c)
      <3>1. client'[c].pc = IF q.task = "record" THEN "look" ELSE "submit"
        BY <1>1, <1>5, <2>2, RequestParts DEF Record
      <3> QED BY <3>1
    <2> QED BY <2>1, <2>2
  <1>6. CASE Paper(c) \/ Post(c)
    <2>1. \A r, p : Receive(c, r, p) => client'[c].pc = "look"
      BY <1>1, RequestParts DEF Receive
    <2> QED BY <1>6, <2>1 DEF Paper, Post, Accepted
  <1>7. CASE Persist(c) BY <1>7, PersistAnswer
  <1>8. CASE Erase(c)
    <2>1. Erasing(q) /\ q.pc = "store" BY <1>8 DEF Erase, Erasing, AtRow
    <2>2. booked = 0 /\ orders = 0 BY <2>1 DEF IInv, Fits, Located, NothingSent
    <2>3. booked' + orders' = 0 BY <1>8, <2>2 DEF Erase, effects
    <2>4. client'[c] = Resting("skipped") BY <1>1, <1>8 DEF Erase
    <2>5. client'[c].answer = "skipped" BY <2>4 DEF Resting
    <2> QED BY <2>3, <2>5 DEF TrueAnswer
  <1>9. CASE Track(c) BY <1>1, <1>9, SafeAnswer DEF Track
  <1>10. CASE Crash(c) BY <1>1, <1>10, SafeAnswer DEF Crash
  <1>11. CASE \E v \in Venues : Begin(c, v) BY <1>11 DEF Begin
  <1>12. ASSUME NEW d \in Clients, d # c, Step(d) \/ Crash(d) \/ \E v \in Venues : Begin(d, v)
         PROVE  FALSE
    <2>1. client'[c] = client[c]
      BY <1>1, <1>12 DEF Step, Crash, Begin, Peek, Recover, Look, Record, Paper, Post, Accepted,
                         Receive, Persist, Erase, Track
    <2> QED BY <2>1 DEF Active
  <1>13. CASE UNCHANGED vars BY <1>13 DEF vars, Active
  <1> QED BY <1>2, <1>3, <1>4, <1>5, <1>6, <1>7, <1>8, <1>9, <1>10, <1>11, <1>12, <1>13
      DEF Next, Step

\* Executed is answered only of a committed transaction, skipped only of a leg that
\* has had no effect.
THEOREM AnswersAreHonest == ASSUME PaperOnly PROVE Spec => HonestAnswers
  <1>1. IInv /\ [Next]_vars =>
          [\A c \in Clients :
             Active(c) /\ client'[c].pc = "idle" =>
               /\ client'[c].answer = "executed" => booked' = 1
               /\ client'[c].answer = "skipped" => booked' + orders' = 0]_vars
    BY AnswerStep DEF TrueAnswer
  <1> QED BY <1>1, Invariance, PTL DEF Spec, HonestAnswers

-----------------------------------------------------------------------------
(* The requests for a leg implement LegOnce. *)

\* A row that is stored over another one keeps the leg taken; an order's id comes from
\* the receipt of the order.
LEMMA RecordTakes ==
  ASSUME IInv, NEW c \in Clients, Record(c)
  PROVE  [Leg!Next]_(Leg!vars)
  <1> DEFINE q == client[c]
  <1>1. /\ q.pc = "store" /\ q.task \in {"record", "mark"} /\ Active(c)
        /\ UNCHANGED <<booked, orders>>
    BY DEF Record, Active, effects
  <1>2. Recording(q) /\ ~Erasing(q) BY <1>1 DEF Recording, Erasing, AtRow
  <1>3. CASE ~Storable(c)
    BY <1>1, <1>3 DEF Record, Leg!vars
  <1>4. CASE Storable(c)
    <2>1. row' = Stored(c) BY <1>4 DEF Record
    <2>2. row' # Absent /\ row'.vid \in {row.vid, Intended(c).vid}
      BY <1>1, <1>2, <1>4, <2>1, StoredRow
    <2>3. Intended(c).vid = 0 BY <1>1 DEF Intended
    <2>4. row.vid = 0
      <3>1. orders = 0 BY <1>2 DEF IInv, Fits, NothingSent, Sending
      <3> QED BY <3>1 DEF IInv, RowAgrees
    <2>5. row'.vid = row.vid BY <2>2, <2>3, <2>4
    <2> QED BY <1>1, <2>2, <2>5 DEF Leg!Next, Leg!Take, Leg!effects, Leg!vars
  <1> QED BY <1>3, <1>4

\* A request that is posting an order has its row and finds no effect.
LEMMA OrderTakes ==
  ASSUME IInv, NEW c \in Clients, client[c].pc = "submit", client[c].venue = "live",
         UNCHANGED <<row, booked>>, orders' \in {orders, orders + 1}
  PROVE  [Leg!Next]_(Leg!vars)
  <1>1. Sending(client[c]) BY DEF Sending
  <1>2. booked = 0 /\ orders = 0 BY <1>1 DEF IInv, Fits, NothingSent
  <1>3. row # Absent BY DEF IInv, Fits, LiveRow, Absent
  <1>4. CASE orders' = orders BY <1>4 DEF Leg!vars
  <1>5. CASE orders' = orders + 1
    BY <1>2, <1>3, <1>5 DEF Leg!Next, Leg!Order, Leg!NoEffect
  <1> QED BY <1>4, <1>5

LEMMA PersistTakes ==
  ASSUME IInv, NEW c \in Clients, Persist(c)
  PROVE  [Leg!Next]_(Leg!vars)
  <1> DEFINE q == client[c]
             r == q.receipt
  <1>1. /\ q.pc = "store" /\ q.task = "persist" /\ Active(c) /\ q \in Request
        /\ UNCHANGED orders /\ booked \in Nat /\ orders \in Nat
    BY DEF Persist, Active, IInv, TypeOK
  <1>2. Persisting(q) /\ ~Recording(q) /\ ~Erasing(q)
    BY <1>1 DEF AtRow, Recording, Persisting, Erasing
  <1>3. Fits(c, q) BY DEF IInv
  <1>4. Storable(c) BY <1>1, <1>2, PersistFinds
  <1>5. row' = Stored(c) /\ booked' = IF q.pays THEN booked + 1 ELSE booked
    BY <1>4 DEF Persist
  <1>6. /\ row' # Absent /\ row'.vid \in {row.vid, Intended(c).vid}
        /\ q.seen = row => row'.vid = Intended(c).vid
    BY <1>1, <1>2, <1>4, <1>5, StoredRow
  <1>7. Intended(c).vid = r.vid BY <1>1 DEF Intended
  <1>8. CASE q.venue = "live"
    <2>1. row.phase = "send_attempted" /\ row.vid = 0
      BY <1>2, <1>3, <1>8 DEF Fits, LiveRow
    <2>2. row # Absent BY <2>1 DEF Absent
    <2>3. ~q.pays /\ (r.vid # 0 => orders = 1) BY <1>3, <1>8 DEF Fits, Located, PaysOnce
    <2>4. row'.vid \in {0, r.vid} /\ booked' = booked BY <1>5, <1>6, <1>7, <2>1, <2>3
    <2> QED
      BY <1>1, <1>6, <2>1, <2>2, <2>3, <2>4 DEF Leg!Next, Leg!Learn, Leg!effects, Leg!vars
  <1>9. CASE q.venue = "paper"
    <2>1. q.task # "record" /\ row # Absent /\ row.vid = 0
      BY <1>1, <1>2, <1>3, <1>9 DEF Fits, PaperRow, Recording, AtRow
    <2>2. r.vid = 0 BY <1>3, <1>9 DEF Fits, Located
    <2>3. row'.vid = row.vid BY <1>6, <1>7, <2>1, <2>2
    <2>4. orders = 0 BY <1>2, <1>3, <1>9 DEF Fits, NothingSent
    <2>5. CASE q.pays
      <3>1. booked = 0 /\ booked' = 1 BY <1>3, <1>5, <2>5 DEF Fits, PaysOnce
      <3> QED BY <1>1, <1>6, <2>1, <2>3, <2>4, <3>1 DEF Leg!Next, Leg!Trade, Leg!NoEffect
    <2>6. CASE ~q.pays
      BY <1>1, <1>5, <1>6, <2>1, <2>3, <2>6 DEF Leg!vars
    <2> QED BY <2>5, <2>6
  <1> QED BY <1>1, <1>8, <1>9, RequestParts DEF Venues

\* Only a live request erases, and only its own row before any effect.
LEMMA EraseTakes ==
  ASSUME IInv, NEW c \in Clients, Erase(c)
  PROVE  [Leg!Next]_(Leg!vars)
  <1> DEFINE q == client[c]
  <1>1. q.pc = "store" /\ q.task = "erase" /\ UNCHANGED <<booked, orders>>
    BY DEF Erase, effects
  <1>2. Erasing(q) BY <1>1 DEF AtRow, Erasing
  <1>3. q.venue = "live" BY <1>2 DEF IInv, Fits, Located
  <1>4. booked = 0 /\ orders = 0
    BY <1>1, <1>2, <1>3 DEF IInv, Fits, NothingSent
  <1>5. row.vid = 0 /\ row # Absent
    BY <1>2, <1>3 DEF IInv, Fits, LiveRow, Absent
  <1>6. row' = Absent \/ UNCHANGED row BY DEF Erase
  <1>7. Absent.vid = 0 BY DEF Absent
  <1> QED
    BY <1>1, <1>4, <1>5, <1>6, <1>7
    DEF Leg!Next, Leg!GiveBack, Leg!NoEffect, Leg!effects, Leg!vars

LEMMA StepTakes ==
  ASSUME IInv, [Next]_vars
  PROVE  [Leg!Next]_(Leg!vars)
  <1>1. ASSUME UNCHANGED <<row, booked, orders>> PROVE UNCHANGED Leg!vars
    BY <1>1 DEF Leg!vars
  <1>2. ASSUME NEW c \in Clients,
               Peek(c) \/ Recover(c) \/ Look(c) \/ Paper(c) \/ Track(c)
               \/ \E v \in Venues : Begin(c, v)
        PROVE  UNCHANGED Leg!vars
    BY <1>1, <1>2 DEF Peek, Recover, Look, Paper, Track, Begin, effects
  <1>3. ASSUME NEW c \in Clients, Post(c) PROVE [Leg!Next]_(Leg!vars)
    <2>1. /\ client[c].pc = "submit" /\ client[c].venue = "live" /\ UNCHANGED <<row, booked>>
          /\ orders' \in {orders, orders + 1}
      BY <1>3 DEF Post, Accepted
    <2> QED BY <2>1, OrderTakes
  <1>4. ASSUME NEW c \in Clients, Crash(c) PROVE [Leg!Next]_(Leg!vars)
    <2>1. CASE UNCHANGED orders
      BY <1>1, <1>4, <2>1 DEF Crash
    <2>2. CASE client[c].pc = "submit" /\ client[c].venue = "live" /\ orders' = orders + 1
      BY <1>4, <2>2, OrderTakes DEF Crash
    <2> QED BY <1>4, <2>1, <2>2 DEF Crash
  <1>5. CASE UNCHANGED vars BY <1>1, <1>5 DEF vars
  <1> QED
    BY <1>2, <1>3, <1>4, <1>5, RecordTakes, PersistTakes, EraseTakes DEF Next, Step

\* Any number of requests for a leg, overlapping on a paper account, repeated on a live one
\* and dying anywhere, implement a leg that is taken, takes effect and is named once.
THEOREM ImplementsLegOnce == ASSUME PaperOnly PROVE Spec => IsLegOnce
  <1>1. Init => Leg!Init BY DEF Init, Leg!Init, Absent
  <1>2. IInv /\ [Next]_vars => [Leg!Next]_(Leg!vars) BY StepTakes
  <1> QED BY <1>1, <1>2, Invariance, PTL DEF Spec, IsLegOnce, Leg!Spec
=============================================================================
