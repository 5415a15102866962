------------------------- MODULE LifecycleOutboxProofs -------------------------
(***************************************************************************)
(* The outbox for any positions, events, workers and bounds: IInv is       *)
(* inductive, the log and the rows agree, rows reach the log once and in   *)
(* order, applied rows stay applied, and the outbox implements             *)
(* OrderedDelivery.  Up to there nothing depends on what the state machine *)
(* of the lifecycle accepts.  That a log is always a history the machine   *)
(* accepts, in order of time, is proved apart: Stage, a recursion along    *)
(* the log, is unfolded by induction on its length.                        *)
(***************************************************************************)
EXTENDS LifecycleOutbox, WellFoundedInduction, TLAPS

USE EventsAssumption, OutboxAssumption

LogEntries == [event : Events, kind : Kinds, at : Nat]

Logs == Seq(LogEntries)

(***************************************************************************)
(* Appending to a log.                                                     *)
(***************************************************************************)

\* What is inserted is well formed, is about the event alone, ends with it
\* and holds its kind once.
LEMMA EntriesOf ==
  ASSUME NEW l, NEW e \in Events
  PROVE  /\ Entries(l, e) \in Logs
         /\ Len(Entries(l, e)) \in 1..2
         /\ \A i \in 1..Len(Entries(l, e)) : Entries(l, e)[i].event = e
         /\ Entries(l, e)[Len(Entries(l, e))].kind = KindOf[e]
         /\ Once(Entries(l, e))
<1>1. Entry(e) \in [event : Events, kind : Kinds, at : Nat] /\ Entry(e).event = e
      /\ Entry(e).kind = KindOf[e]
  BY DEF Entry
<1>2. Trigger(e) \in [event : Events, kind : Kinds, at : Nat] /\ Trigger(e).event = e
      /\ Trigger(e).kind = "T2_TRIGGERED"
  BY DEF Trigger, Kinds
<1>3. CASE TakesPair(l, e)
  <2>1. Entries(l, e) = <<Trigger(e), Entry(e)>>
    BY <1>3 DEF Entries
  <2>2. KindOf[e] # "T2_TRIGGERED"
    BY <1>3 DEF TakesPair, NeedsPair
  <2>. QED  BY <1>1, <1>2, <2>1, <2>2 DEF Once, Logs, LogEntries
<1>4. CASE ~TakesPair(l, e)
  <2>1. Entries(l, e) = <<Entry(e)>>
    BY <1>4 DEF Entries
  <2>. QED  BY <1>1, <2>1 DEF Once, Logs, LogEntries
<1>. QED  BY <1>3, <1>4

\* The log after an event was offered: itself, or itself and what is inserted.
LEMMA AppendedOf ==
  ASSUME NEW l \in Logs, NEW e \in Events
  PROVE  \/ Appended(l, e) = l /\ (Has(l, e) \/ ~Accepts(l, e))
         \/ Appended(l, e) = l \o Entries(l, e) /\ ~Has(l, e) /\ Accepts(l, e)
BY DEF Appended

\* The shape of a longer log.
LEMMA Longer ==
  ASSUME NEW l \in Logs, NEW s \in Logs
  PROVE  /\ l \o s \in Logs
         /\ Len(l \o s) = Len(l) + Len(s)
         /\ Len(l) \in Nat /\ Len(s) \in Nat
         /\ \A i \in 1..Len(l) : (l \o s)[i] = l[i]
         /\ \A i \in 1..Len(s) : (l \o s)[Len(l) + i] = s[i]
         /\ \A i \in 1..Len(l \o s) : i \in 1..Len(l) \/ (i - Len(l)) \in 1..Len(s)
BY DEF Logs

\* An entry of a log names an event, a kind and a time.
LEMMA EntryOf ==
  ASSUME NEW l \in Logs, NEW i \in 1..Len(l)
  PROVE  l[i].event \in Events /\ l[i].kind \in Kinds /\ l[i].at \in Nat
<1>1. l[i] \in LogEntries
  BY DEF Logs
<1>. QED  BY <1>1 DEF LogEntries

\* An event that is in the log is accepted again, unless it is an execution
\* that was logged without its own trigger.
LEMMA Replayed ==
  ASSUME NEW l, NEW e, Has(l, e),
         ~(KindOf[e] = "T2_EXECUTED" /\ ~HasTrigger(l, e))
  PROVE  Accepts(l, e)
BY DEF Accepts, TakesPair, NeedsPair

\* A log stays well formed, keeps what it has, gets an accepted event and no
\* other, and has nothing twice; what is in it gets no trigger later.
LEMMA AppendLog ==
  ASSUME NEW l \in Logs, NEW e \in Events
  PROVE  /\ Appended(l, e) \in Logs
         /\ Has(Appended(l, e), e) <=> Has(l, e) \/ Accepts(l, e)
         /\ \A f \in Events : Has(l, f) /\ HasTrigger(l, f) => HasTrigger(Appended(l, e), f)
         /\ \A f \in Events : Has(l, f) /\ HasTrigger(Appended(l, e), f) => HasTrigger(l, f)
         /\ \A f \in Events : f # e => (Has(Appended(l, e), f) <=> Has(l, f))
         /\ \A p : Own(l, p) /\ PositionOf[e] = p => Own(Appended(l, e), p)
         /\ Once(l) /\ Own(l, PositionOf[e]) => Once(Appended(l, e))
<1>1. CASE Appended(l, e) = l /\ (Has(l, e) \/ ~Accepts(l, e))
  BY <1>1
<1>2. CASE Appended(l, e) = l \o Entries(l, e) /\ ~Has(l, e) /\ Accepts(l, e)
  <2>. DEFINE s == Entries(l, e)
              m == l \o s
  <2>1. /\ s \in Logs
        /\ Len(s) \in 1..2
        /\ \A i \in 1..Len(s) : s[i].event = e
        /\ s[Len(s)].kind = KindOf[e]
        /\ Once(s)
    BY EntriesOf
  <2>. HIDE DEF s
  <2>2. /\ m \in Logs
        /\ Len(m) = Len(l) + Len(s)
        /\ Len(l) \in Nat /\ Len(s) \in Nat
        /\ \A i \in 1..Len(l) : m[i] = l[i]
        /\ \A i \in 1..Len(s) : m[Len(l) + i] = s[i]
        /\ \A i \in 1..Len(m) : i \in 1..Len(l) \/ (i - Len(l)) \in 1..Len(s)
    BY <2>1, Longer
  <2>3. Appended(l, e) = m
    BY <1>2 DEF s
  <2>. HIDE DEF m
  <2>4. Has(m, e)
    <3>1. Len(s) \in 1..Len(s)
      BY <2>1, <2>2
    <3>2. Len(m) \in 1..Len(m)
      BY <2>2, <3>1
    <3>3. m[Len(m)] = s[Len(s)]
      BY <2>2, <3>1
    <3>4. m[Len(m)].event = e /\ m[Len(m)].kind = KindOf[e]
      BY <2>1, <3>1, <3>3
    <3>. QED  BY <3>2, <3>4 DEF Has
  <2>5. ASSUME NEW f \in Events, Has(l, f)
        PROVE  Has(m, f)
    <3>1. PICK i \in 1..Len(l) : l[i].event = f /\ l[i].kind = KindOf[f]
      BY <2>5 DEF Has
    <3>2. i \in 1..Len(m) /\ m[i] = l[i]
      BY <2>2
    <3>. QED  BY <3>1, <3>2 DEF Has
  <2>6. ASSUME NEW i \in 1..Len(m)
        PROVE  \/ i \in 1..Len(l) /\ m[i] = l[i]
               \/ i \notin 1..Len(l) /\ (i - Len(l)) \in 1..Len(s) /\ m[i] = s[i - Len(l)] /\ m[i].event = e
    <3>1. CASE i \in 1..Len(l)
      BY <2>2, <3>1
    <3>2. CASE i \notin 1..Len(l)
      <4>1. (i - Len(l)) \in 1..Len(s) /\ Len(l) + (i - Len(l)) = i
        BY <2>2, <3>2
      <4>. QED  BY <2>1, <2>2, <3>2, <4>1
    <3>. QED  BY <3>1, <3>2
  <2>7. ASSUME NEW f \in Events, f # e, Has(m, f)
        PROVE  Has(l, f)
    <3>1. PICK i \in 1..Len(m) : m[i].event = f /\ m[i].kind = KindOf[f]
      BY <2>7 DEF Has
    <3>. QED  BY <2>6, <2>7, <3>1 DEF Has
  <2>8. ASSUME NEW p, Own(l, p), PositionOf[e] = p
        PROVE  Own(m, p)
    <3>1. ASSUME NEW i \in 1..Len(m)
          PROVE  PositionOf[m[i].event] = p /\ Has(m, m[i].event)
      <4>1. CASE i \in 1..Len(l) /\ m[i] = l[i]
        <5>1. PositionOf[l[i].event] = p /\ Has(l, l[i].event)
          BY <2>8, <4>1 DEF Own
        <5>2. l[i].event \in Events
          BY <4>1, EntryOf
        <5>. QED  BY <2>5, <4>1, <5>1, <5>2
      <4>2. CASE m[i].event = e
        BY <2>4, <2>8, <4>2
      <4>. QED  BY <2>6, <4>1, <4>2
    <3>. QED  BY <3>1 DEF Own
  <2>9. ASSUME Once(l), Own(l, PositionOf[e])
        PROVE  Once(m)
    <3>1. \A i \in 1..Len(l) : l[i].event # e
      BY <1>2, <2>9 DEF Own
    <3>2. ASSUME NEW i \in 1..Len(m), NEW j \in 1..Len(m),
                 m[i].event = m[j].event, m[i].kind = m[j].kind
          PROVE  i = j
      <4>1. CASE i \in 1..Len(l)
        <5>1. m[i] = l[i] /\ j \in 1..Len(l) /\ m[j] = l[j]
          BY <2>6, <3>1, <3>2, <4>1
        <5>. QED  BY <2>9, <3>2, <4>1, <5>1 DEF Once
      <4>2. CASE i \notin 1..Len(l)
        <5>1. /\ (i - Len(l)) \in 1..Len(s) /\ m[i] = s[i - Len(l)] /\ m[i].event = e
          BY <2>6, <4>2
        <5>2. /\ (j - Len(l)) \in 1..Len(s) /\ m[j] = s[j - Len(l)]
          BY <2>6, <3>1, <3>2, <5>1
        <5>3. i - Len(l) = j - Len(l)
          BY <2>1, <3>2, <5>1, <5>2 DEF Once
        <5>. QED  BY <2>2, <5>3
      <4>. QED  BY <4>1, <4>2
    <3>. QED  BY <3>2 DEF Once
  <2>10. ASSUME NEW f \in Events, Has(l, f)
         PROVE  HasTrigger(m, f) <=> HasTrigger(l, f)
    <3>1. f # e
      BY <1>2, <2>10
    <3>2. ASSUME HasTrigger(m, f) PROVE HasTrigger(l, f)
      <4>1. PICK i \in 1..Len(m) : m[i].event = f /\ m[i].kind = "T2_TRIGGERED"
        BY <3>2 DEF HasTrigger
      <4>. QED  BY <2>6, <3>1, <4>1 DEF HasTrigger
    <3>3. ASSUME HasTrigger(l, f) PROVE HasTrigger(m, f)
      <4>1. PICK i \in 1..Len(l) : l[i].event = f /\ l[i].kind = "T2_TRIGGERED"
        BY <3>3 DEF HasTrigger
      <4>2. i \in 1..Len(m) /\ m[i] = l[i]
        BY <2>2
      <4>. QED  BY <4>1, <4>2 DEF HasTrigger
    <3>. QED  BY <3>2, <3>3
  <2>. QED  BY <1>2, <2>2, <2>3, <2>4, <2>5, <2>7, <2>8, <2>9, <2>10
<1>. QED  BY <1>1, <1>2, AppendedOf

(***************************************************************************)
(* What a step may do to the rows and the logs.                            *)
(***************************************************************************)
Logged(e) == Has(LogOf(e), e)

SameStamps ==
  \A e \in Queued :
    /\ row'[e].created = row[e].created
    /\ row'[e].status = "absent" <=> row[e].status = "absent"

LoggedStays == \A e \in Queued : Logged(e) => Logged(e)'

\* What is logged gets no trigger, and loses none
TriggersStay == \A e \in Queued : Logged(e) => (Alone(e)' <=> Alone(e))

AppliedStays ==
  \A e \in Queued :
    row[e].status = "applied"
      => row'[e].status = "applied" \/ e \in asked \ asked' \/ Alone(e)

\* No row is claimed, and no event logged, before its turn
ClaimedInTurn == \A e \in Queued : WasClaimed(e)' => WasClaimed(e) \/ Ready(e)
LoggedInTurn == \A e \in Queued : Logged(e)' => Logged(e) \/ Ready(e)

\* No row is marked
Unmarked ==
  \A e \in Queued :
    row'[e].status = row[e].status \/ row'[e].status \in {"pending", "processing"}

\* What is proved of every step
StepIsSound == IInv' /\ AppliedStays /\ [Delivery!Next]_(Delivery!queue)

LEMMA StampsKept ==
  ASSUME IInv, SameStamps, clock' = clock, asked' \subseteq asked
  PROVE  Stamped' /\ StampsDiffer' /\ AskedWasClaimed'
<1>1. asked \subseteq Queued
  BY DEF IInv, TypeOK
<1>. QED  BY <1>1 DEF IInv, SameStamps, Stamped, StampsDiffer, AskedWasClaimed

LEMMA ReachedKept ==
  ASSUME IInv, SameStamps, LoggedStays, ClaimedInTurn
  PROVE  Reached'
<1> SUFFICES ASSUME NEW e \in Queued, WasClaimed(e)'
             PROVE  Ready(e)'
  BY DEF Reached
<1>1. Ready(e)
  BY DEF IInv, Reached, ClaimedInTurn
<1>2. row'[e].status # "absent"
  BY <1>1 DEF Ready, SameStamps
<1>3. ASSUME NEW f \in Queued, Before(f, e)'
      PROVE  Has(LogOf(f), f)'
  <2>1. Before(f, e)
    BY <1>3 DEF Before, SameStamps
  <2>. QED  BY <1>1, <2>1 DEF Ready, LoggedStays, Logged
<1>. QED  BY <1>2, <1>3 DEF Ready

\* Events that are logged in their turn, and no change of the stamps, are a
\* delivery.
LEMMA DeliveryStep ==
  ASSUME IInv, SameStamps, LoggedStays, LoggedInTurn
  PROVE  [Delivery!Next]_(Delivery!queue)
<1>. DEFINE T == {e \in Queued : ~Logged(e) /\ Logged(e)'}
            done == {e \in Queued : Has(LogOf(e), e)}
            stamp == [e \in Queued |-> row[e].created]
            lane == [e \in Queued |-> PositionOf[e]]
<1>1. T \cap done = {}
  BY DEF Logged
<1>2. ASSUME NEW e \in T
      PROVE  /\ 0 < stamp[e]
             /\ \A f \in Queued :
                  lane[f] = lane[e] /\ 0 < stamp[f] /\ stamp[f] < stamp[e] => f \in done
  <2>1. Ready(e)
    BY DEF LoggedInTurn
  <2>2. row[e].created \in Nat /\ row[e].created # 0
    BY <2>1 DEF Ready, IInv, TypeOK, Rows, Stamped
  <2>. QED  BY <2>1, <2>2 DEF Ready, Before
<1>3. done' = done \cup T
  BY DEF LoggedStays, Logged
<1>4. stamp' = stamp
  BY DEF SameStamps
<1>5. Delivery!Deliver(T)
  BY <1>1, <1>2, <1>3, <1>4 DEF Delivery!Deliver, Delivery!Before
<1>6. T \in SUBSET Queued
  OBVIOUS
<1>. HIDE DEF T
<1>7. Delivery!Next
  BY <1>5, <1>6 DEF Delivery!Next, Delivery!Deliver
<1>. QED  BY <1>7

(***************************************************************************)
(* Steps that leave the logs alone and mark nothing.                       *)
(***************************************************************************)
LEMMA LogsKept ==
  ASSUME IInv, log' = log, Unmarked
  PROVE  /\ AppliedIsLogged' /\ OwnEntries' /\ LoggedOnce'
         /\ LoggedStays /\ LoggedInTurn
<1>1. ASSUME NEW e \in Queued
      PROVE  (Logged(e)' <=> Logged(e)) /\ (Alone(e)' <=> Alone(e))
  BY DEF Logged, LogOf, Alone
<1>2. AppliedIsLogged'
  <2> SUFFICES ASSUME NEW e \in Queued
               PROVE  /\ row'[e].status = "applied" => Logged(e)'
                      /\ Logged(e)' /\ row'[e].status = "dead" => Alone(e)'
    BY DEF AppliedIsLogged, Logged
  <2>1. /\ row[e].status = "applied" => Logged(e)
        /\ Logged(e) /\ row[e].status = "dead" => Alone(e)
    BY DEF IInv, AppliedIsLogged, Logged
  <2>. QED  BY <1>1, <2>1 DEF Unmarked
<1>3. OwnEntries' /\ LoggedOnce'
  BY DEF IInv, OwnEntries, LoggedOnce
<1>. QED  BY <1>1, <1>2, <1>3 DEF LoggedStays, LoggedInTurn

LEMMA UnmarkedIsSound ==
  ASSUME IInv, TypeOK', log' = log, clock' = clock, asked' \subseteq asked,
         SameStamps, Unmarked, AppliedStays, ClaimedInTurn
  PROVE  StepIsSound
BY LogsKept, StampsKept, ReachedKept, DeliveryStep DEF StepIsSound, IInv

(***************************************************************************)
(* Steps that offer events to the logs, at most one to each.               *)
(***************************************************************************)
Offered(S) ==
  /\ log' = [p \in Positions |-> log'[p]]
  /\ \A e \in S : log'[PositionOf[e]] = Appended(log[PositionOf[e]], e)
  /\ \A p \in Positions : (\A e \in S : PositionOf[e] # p) => log'[p] = log[p]

LEMMA OfferedLog ==
  ASSUME IInv, NEW S \in SUBSET Events, Offered(S)
  PROVE  /\ log' \in [Positions -> Logs]
         /\ OwnEntries' /\ LoggedOnce'
         /\ \A e \in S : Has(LogOf(e), e)' <=> Has(LogOf(e), e) \/ Accepts(LogOf(e), e)
         /\ \A f \in Events \ S : Has(LogOf(f), f)' <=> Has(LogOf(f), f)
         /\ TriggersStay
<1>1. ASSUME NEW p \in Positions
      PROVE  log[p] \in Logs /\ Own(log[p], p) /\ Once(log[p])
  BY DEF IInv, TypeOK, Logs, LogEntries, OwnEntries, LoggedOnce
<1>2. ASSUME NEW p \in Positions
      PROVE  \/ log'[p] = log[p] /\ \A e \in S : PositionOf[e] # p
             \/ \E e \in S : PositionOf[e] = p /\ log'[p] = Appended(log[p], e)
  BY DEF Offered
<1>3. ASSUME NEW p \in Positions
      PROVE  log'[p] \in Logs /\ Own(log'[p], p) /\ Once(log'[p])
  BY <1>1, <1>2, AppendLog
<1>4. log' \in [Positions -> Logs]
  BY <1>3 DEF Offered
<1>5. OwnEntries' /\ LoggedOnce'
  BY <1>3 DEF OwnEntries, LoggedOnce
<1>6. \A e \in S : Has(LogOf(e), e)' <=> Has(LogOf(e), e) \/ Accepts(LogOf(e), e)
  <2> TAKE e \in S
  <2>1. PositionOf[e] \in Positions /\ log[PositionOf[e]] \in Logs
    BY <1>1
  <2>2. log'[PositionOf[e]] = Appended(log[PositionOf[e]], e)
    BY DEF Offered
  <2>. QED  BY <2>1, <2>2, AppendLog DEF LogOf
<1>7. \A f \in Events \ S : Has(LogOf(f), f)' <=> Has(LogOf(f), f)
  <2> TAKE f \in Events \ S
  <2>1. PositionOf[f] \in Positions /\ log[PositionOf[f]] \in Logs
    BY <1>1
  <2>2. CASE log'[PositionOf[f]] = log[PositionOf[f]]
    BY <2>2 DEF LogOf
  <2>3. ASSUME NEW e \in S, log'[PositionOf[f]] = Appended(log[PositionOf[f]], e)
        PROVE  Has(LogOf(f), f)' <=> Has(LogOf(f), f)
    BY <2>1, <2>3, AppendLog DEF LogOf
  <2>. QED  BY <1>2, <2>1, <2>2, <2>3
<1>8. TriggersStay
  <2> SUFFICES ASSUME NEW f \in Queued, Logged(f)
               PROVE  HasTrigger(LogOf(f), f)' <=> HasTrigger(LogOf(f), f)
    BY DEF TriggersStay, Alone
  <2>1. PositionOf[f] \in Positions /\ f \in Events /\ log[PositionOf[f]] \in Logs
    BY <1>1
  <2>2. CASE log'[PositionOf[f]] = log[PositionOf[f]]
    BY <2>2 DEF LogOf
  <2>3. ASSUME NEW e \in S, log'[PositionOf[f]] = Appended(log[PositionOf[f]], e)
        PROVE  HasTrigger(LogOf(f), f)' <=> HasTrigger(LogOf(f), f)
    <3>1. Has(log[PositionOf[f]], f)
      BY DEF Logged, LogOf
    <3>. QED  BY <2>1, <2>3, <3>1, AppendLog DEF LogOf
  <2>. QED  BY <1>2, <2>1, <2>2, <2>3
<1>. QED  BY <1>4, <1>5, <1>6, <1>7, <1>8

\* What apply_lifecycle_outbox_row leaves in a row.
LEMMA SettledRow ==
  ASSUME NEW r \in Rows, NEW n \in Nat
  PROVE  /\ MarkApplied(r) \in Rows
         /\ MarkApplied(r).created = r.created
         /\ MarkApplied(r).status = "applied"
         /\ MarkAttempt(r, n) \in Rows
         /\ MarkAttempt(r, n).created = r.created
         /\ MarkAttempt(r, n).status \in {"pending", "dead"}
<1>1. r.attempts + 1 \in Nat
  BY DEF Rows
<1>. QED  BY <1>1 DEF MarkApplied, MarkAttempt, Rows, Statuses

SettledRows(S) ==
  /\ row' \in [Queued -> Rows]
  /\ \A e \in S :
       /\ row'[e].created = row[e].created
       /\ row'[e].status # "absent"
       /\ row'[e].status = "applied" <=> Accepts(LogOf(e), e)
  /\ \A e \in Queued \ S : row'[e] = row[e]

\* Rows whose turn it is, offered and settled in one step.
LEMMA Drained ==
  ASSUME IInv, NEW S \in SUBSET Queued, \A e \in S : Ready(e),
         Offered(S), SettledRows(S),
         batch' \in [Workers -> SUBSET [event : Queued, attempts : Nat]],
         \A w \in Workers : batch'[w] \subseteq batch[w],
         clock' = clock, asked' = asked, faults' = faults
  PROVE  StepIsSound
<1>1. /\ log' \in [Positions -> Logs]
      /\ OwnEntries' /\ LoggedOnce'
      /\ \A e \in S : Logged(e)' <=> Logged(e) \/ Accepts(LogOf(e), e)
      /\ \A f \in Events \ S : Logged(f)' <=> Logged(f)
      /\ TriggersStay
  BY OfferedLog DEF Logged
<1>2. TypeOK'
  BY <1>1 DEF IInv, TypeOK, SettledRows, Logs, LogEntries
<1>3. SameStamps
  BY DEF SameStamps, SettledRows, Ready
<1>4. \A e \in Queued : Logged(e) /\ ~Alone(e) => Accepts(LogOf(e), e)
  BY Replayed DEF Logged, Alone
<1>5. LoggedStays
  BY <1>1 DEF LoggedStays
<1>6. LoggedInTurn
  BY <1>1 DEF LoggedInTurn
<1>7. ClaimedInTurn
  <2> SUFFICES ASSUME NEW e \in Queued, WasClaimed(e)', e \notin S
               PROVE  WasClaimed(e)
    BY DEF ClaimedInTurn
  <2>1. InBatch(e)' => InBatch(e)
    BY DEF InBatch
  <2>2. Logged(e)' => Logged(e)
    BY <1>1
  <2>3. row'[e] = row[e]
    BY DEF SettledRows
  <2>. QED  BY <2>1, <2>2, <2>3 DEF WasClaimed, Logged
<1>8. ASSUME NEW e \in Queued
      PROVE  /\ row'[e].status = "applied" => Logged(e)'
             /\ Logged(e)' /\ row'[e].status = "dead" => Alone(e)'
             /\ row[e].status = "applied" => row'[e].status = "applied" \/ Alone(e)
  <2>1. /\ row[e].status = "applied" => Logged(e)
        /\ Logged(e) /\ row[e].status = "dead" => Alone(e)
        /\ Logged(e) => (Alone(e)' <=> Alone(e))
    BY <1>1 DEF IInv, AppliedIsLogged, Logged, TriggersStay
  <2>2. CASE e \in S
    BY <1>1, <1>4, <2>1, <2>2 DEF SettledRows
  <2>3. CASE e \notin S
    BY <1>1, <2>1, <2>3 DEF SettledRows
  <2>. QED  BY <2>2, <2>3
<1>9. AppliedIsLogged' /\ AppliedStays
  BY <1>8 DEF AppliedIsLogged, AppliedStays, Logged
<1>. QED  BY <1>1, <1>2, <1>3, <1>5, <1>6, <1>7, <1>9, StampsKept, ReachedKept, DeliveryStep
           DEF StepIsSound, IInv

(***************************************************************************)
(* The steps.                                                              *)
(***************************************************************************)
LEMMA InitIsSound ==
  ASSUME Init
  PROVE  IInv
<1>1. TypeOK
  BY DEF Init, TypeOK, Absent, Rows, Statuses
<1>3. \A p \in Positions : Len(log[p]) = 0
  BY DEF Init
<1>2. Stamped /\ StampsDiffer /\ Reached /\ AskedWasClaimed
  BY <1>3 DEF Init, Stamped, StampsDiffer, Reached, AskedWasClaimed, WasClaimed, InBatch,
              Absent, Has, LogOf
<1>4. OwnEntries /\ LoggedOnce
  BY <1>3 DEF OwnEntries, LoggedOnce, Own, Once
<1>5. AppliedIsLogged
  BY <1>3 DEF Init, AppliedIsLogged, Has, LogOf, Absent
<1>. QED  BY <1>1, <1>2, <1>4, <1>5 DEF IInv

LEMMA EnqueueIsSound ==
  ASSUME IInv, NEW e \in Queued, Enqueue(e)
  PROVE  StepIsSound
<1>1. /\ row \in [Queued -> Rows] /\ clock \in Nat
      /\ row[e].status = "absent" /\ row[e].created = 0
      /\ row' = [row EXCEPT ![e] = Fresh(clock + 1)]
      /\ log' = log /\ batch' = batch /\ asked' = asked /\ faults' = faults
      /\ clock' = clock + 1
  BY DEF IInv, TypeOK, Stamped, Enqueue
<1>0. clock + 1 \in Nat
  BY <1>1
<1>2. /\ Fresh(clock + 1) \in Rows
      /\ Fresh(clock + 1).status = "pending"
      /\ Fresh(clock + 1).created = clock + 1
  BY <1>0 DEF Fresh, Absent, Rows, Statuses
<1>3. /\ row' \in [Queued -> Rows]
      /\ row'[e].status = "pending" /\ row'[e].created = clock + 1
      /\ \A f \in Queued \ {e} : row'[f] = row[f]
  BY <1>1, <1>2
<1>4. \A f \in Queued : row[f].created \in Nat /\ row[f].created <= clock
  BY <1>1 DEF IInv, Stamped, Rows
<1>5. TypeOK'
  BY <1>0, <1>1, <1>3 DEF IInv, TypeOK
<1>6. Stamped'
  BY <1>1, <1>3, <1>4 DEF IInv, Stamped
<1>7. StampsDiffer'
  BY <1>1, <1>3, <1>4 DEF IInv, StampsDiffer
<1>8. ~WasClaimed(e)
  BY <1>1 DEF IInv, Reached, Ready
<1>9. Reached'
  <2> SUFFICES ASSUME NEW x \in Queued, WasClaimed(x)'
               PROVE  Ready(x)'
    BY DEF Reached
  <2>1. x # e /\ WasClaimed(x)
    BY <1>1, <1>3, <1>8 DEF WasClaimed, InBatch, LogOf
  <2>2. row'[x] = row[x] /\ Ready(x) /\ row[x].status # "absent"
    BY <1>3, <2>1 DEF IInv, Reached, Ready
  <2>3. ASSUME NEW f \in Queued, Before(f, x)'
        PROVE  f # e /\ Before(f, x)
    BY <1>1, <1>3, <1>4, <2>2, <2>3 DEF Before
  <2>4. ASSUME NEW f \in Queued, Before(f, x)'
        PROVE  Has(LogOf(f), f)'
    BY <1>1, <2>2, <2>3, <2>4 DEF Ready, LogOf
  <2>. QED  BY <2>2, <2>4 DEF Ready
<1>10. AppliedIsLogged' /\ OwnEntries' /\ LoggedOnce'
  <2>1. ~Has(LogOf(e), e)
    BY <1>8 DEF WasClaimed
  <2>. QED  BY <1>1, <1>3, <2>1 DEF IInv, AppliedIsLogged, Alone, OwnEntries, LoggedOnce, LogOf
<1>11. AppliedStays /\ AskedWasClaimed'
  BY <1>1, <1>3 DEF IInv, TypeOK, AppliedStays, AskedWasClaimed
<1>12. Delivery!Put(e)
  <2>. DEFINE done == {f \in Queued : Has(LogOf(f), f)}
              stamp == [f \in Queued |-> row[f].created]
  <2>1. stamp[e] = 0 /\ stamp'[e] = clock + 1
    BY <1>1, <1>3
  <2>2. stamp' = [stamp EXCEPT ![e] = stamp'[e]]
    BY <1>3
  <2>3. \A f \in Queued : stamp[f] < stamp'[e]
    BY <1>1, <1>4, <2>1
  <2>4. done' = done
    BY <1>1 DEF LogOf
  <2>. QED  BY <2>1, <2>2, <2>3, <2>4 DEF Delivery!Put
<1>. QED  BY <1>5, <1>6, <1>7, <1>9, <1>10, <1>11, <1>12
           DEF StepIsSound, IInv, Delivery!Next, Delivery!Put

LEMMA PostIsSound ==
  ASSUME IInv, NEW e \in Posted, Post(e)
  PROVE  StepIsSound
<1>1. e \in Events /\ e \notin Queued /\ PositionOf[e] \in Positions
  BY DEF Posted
<1>2. log' = [log EXCEPT ![PositionOf[e]] = Appended(LogOf(e), e)]
      /\ row' = row /\ batch' = batch /\ clock' = clock /\ asked' = asked /\ faults' = faults
  BY DEF Post
<1>3. Offered({e})
  <2>1. log' = [p \in Positions |-> log'[p]]
    BY <1>2 DEF IInv, TypeOK
  <2>2. log'[PositionOf[e]] = Appended(log[PositionOf[e]], e)
    BY <1>1, <1>2 DEF IInv, TypeOK, LogOf
  <2>3. \A p \in Positions : PositionOf[e] # p => log'[p] = log[p]
    BY <1>1, <1>2 DEF IInv, TypeOK
  <2>. QED  BY <2>1, <2>2, <2>3 DEF Offered
<1>4. /\ log' \in [Positions -> Logs]
      /\ OwnEntries' /\ LoggedOnce'
      /\ \A f \in Queued : Logged(f)' <=> Logged(f)
      /\ TriggersStay
  BY <1>1, <1>3, OfferedLog DEF Logged
<1>5. TypeOK'
  BY <1>2, <1>4 DEF IInv, TypeOK, Logs, LogEntries
<1>6. AppliedIsLogged'
  BY <1>2, <1>4 DEF IInv, AppliedIsLogged, Logged, TriggersStay
<1>7. SameStamps /\ AppliedStays /\ LoggedStays /\ LoggedInTurn
  BY <1>2, <1>4 DEF SameStamps, AppliedStays, LoggedStays, LoggedInTurn
<1>8. ClaimedInTurn
  BY <1>2, <1>4 DEF ClaimedInTurn, WasClaimed, InBatch, Logged
<1>. QED  BY <1>2, <1>4, <1>5, <1>6, <1>7, <1>8, StampsKept, ReachedKept, DeliveryStep
           DEF StepIsSound, IInv

\* A row that may be claimed has its turn.
LEMMA HeadIsReady ==
  ASSUME IInv, NEW e \in Queued, Claimable(e)
  PROVE  Ready(e)
<1>1. row[e].status # "absent"
  BY DEF Claimable
<1>2. ASSUME NEW f \in Queued, Before(f, e)
      PROVE  Has(LogOf(f), f)
  <2>1. row[f].status \notin Active
    BY <1>2 DEF Claimable, IsHead
  <2>2. row[f].status # "absent" /\ row[f].status \in Statuses
    BY <1>2 DEF Before, IInv, Stamped, TypeOK, Rows
  <2>3. row[f].status = "applied"
    BY <2>1, <2>2 DEF Active, Statuses
  <2>. QED  BY <2>3 DEF IInv, AppliedIsLogged
<1>. QED  BY <1>1, <1>2 DEF Ready

\* A position has one row that may be claimed.
LEMMA OneHead ==
  ASSUME IInv, NEW e \in Queued, NEW f \in Queued, PositionOf[e] = PositionOf[f],
         Claimable(e), Claimable(f)
  PROVE  e = f
<1>1. row[e].status \in Active /\ row[f].status \in Active
  BY DEF Claimable, Active
<1>2. /\ row[e].created \in Nat /\ row[e].created # 0
      /\ row[f].created \in Nat /\ row[f].created # 0
  BY <1>1 DEF Active, IInv, TypeOK, Rows, Stamped
<1>3. ~Before(e, f) /\ ~Before(f, e)
  BY <1>1 DEF Claimable, IsHead
<1>4. row[e].created = row[f].created
  BY <1>2, <1>3 DEF Before
<1>. QED  BY <1>2, <1>4 DEF IInv, StampsDiffer

LEMMA ClaimIsSound ==
  ASSUME IInv, NEW w \in Workers, NEW S \in SUBSET Heads, Claim(w, S)
  PROVE  StepIsSound
<1>1. S \subseteq Queued /\ \A e \in S : Claimable(e)
  BY DEF Heads
<1>2. /\ row' = [e \in Queued |-> IF e \in S THEN Claimed(row[e]) ELSE row[e]]
      /\ batch' = [batch EXCEPT ![w] = {[event |-> e, attempts |-> row[e].attempts] : e \in S}]
      /\ log' = log /\ clock' = clock /\ asked' = asked /\ faults' = faults
  BY DEF Claim
<1>3. ASSUME NEW e \in Queued
      PROVE  /\ row[e] \in Rows
             /\ Claimed(row[e]) \in Rows
             /\ Claimed(row[e]).created = row[e].created
             /\ Claimed(row[e]).status = "processing"
  BY DEF IInv, TypeOK, Claimed, Rows, Statuses
<1>4. TypeOK'
  <2>1. row' \in [Queued -> Rows]
    BY <1>2, <1>3
  <2>2. {[event |-> e, attempts |-> row[e].attempts] : e \in S}
          \in SUBSET [event : Queued, attempts : Nat]
    BY <1>1, <1>3 DEF Rows
  <2>. QED  BY <1>2, <2>1, <2>2 DEF IInv, TypeOK
<1>5. SameStamps /\ Unmarked /\ AppliedStays
  BY <1>1, <1>2, <1>3 DEF SameStamps, Unmarked, AppliedStays, Claimable
<1>6. ClaimedInTurn
  <2> SUFFICES ASSUME NEW e \in Queued, WasClaimed(e)', e \notin S
               PROVE  WasClaimed(e)
    BY <1>1, HeadIsReady DEF ClaimedInTurn
  <2>1. row'[e] = row[e]
    BY <1>2
  <2>2. InBatch(e)' => InBatch(e)
    <3>1. ASSUME NEW v \in Workers, NEW b \in batch'[v], b.event = e
          PROVE  b \in batch[v]
      BY <1>2, <3>1 DEF IInv, TypeOK
    <3>. QED  BY <3>1 DEF InBatch
  <2>. QED  BY <1>2, <2>1, <2>2 DEF WasClaimed, LogOf
<1>. QED  BY <1>2, <1>4, <1>5, <1>6, UnmarkedIsSound

LEMMA ApplyIsSound ==
  ASSUME IInv, NEW w \in Workers, Apply(w)
  PROVE  StepIsSound
<1>1. PICK b \in batch[w] :
        /\ log' = [log EXCEPT ![PositionOf[b.event]] = Appended(LogOf(b.event), b.event)]
        /\ row' = [row EXCEPT ![b.event] =
                     Settled(row[b.event], Accepts(LogOf(b.event), b.event), b.attempts)]
        /\ batch' = [batch EXCEPT ![w] = batch[w] \ {b}]
        /\ clock' = clock /\ asked' = asked /\ faults' = faults
  BY DEF Apply
<1>. DEFINE e == b.event
<1>2. /\ batch[w] \subseteq [event : Queued, attempts : Nat]
      /\ e \in Queued /\ b.attempts \in Nat
  BY DEF IInv, TypeOK
<1>. HIDE DEF e
<1>3. Ready(e)
  <2>1. InBatch(e)
    BY DEF InBatch, e
  <2>. QED  BY <1>2, <2>1 DEF IInv, Reached, WasClaimed
<1>4. e \in Events /\ PositionOf[e] \in Positions /\ row[e] \in Rows
  BY <1>2 DEF IInv, TypeOK
<1>5. Offered({e})
  <2>1. log' = [log EXCEPT ![PositionOf[e]] = Appended(log[PositionOf[e]], e)]
    BY <1>1 DEF LogOf, e
  <2>2. log' = [p \in Positions |-> log'[p]]
    BY <2>1 DEF IInv, TypeOK
  <2>3. log'[PositionOf[e]] = Appended(log[PositionOf[e]], e)
    BY <1>4, <2>1 DEF IInv, TypeOK
  <2>4. \A p \in Positions : PositionOf[e] # p => log'[p] = log[p]
    BY <1>4, <2>1 DEF IInv, TypeOK
  <2>. QED  BY <2>2, <2>3, <2>4 DEF Offered
<1>6. SettledRows({e})
  <2>. DEFINE r == Settled(row[e], Accepts(LogOf(e), e), b.attempts)
  <2>1. /\ r \in Rows /\ r.created = row[e].created /\ r.status # "absent"
        /\ r.status = "applied" <=> Accepts(LogOf(e), e)
    <3>1. CASE Accepts(LogOf(e), e)
      <4>1. r = MarkApplied(row[e])
        BY <3>1 DEF Settled
      <4>. QED  BY <1>2, <1>4, <3>1, <4>1, SettledRow
    <3>2. CASE ~Accepts(LogOf(e), e)
      <4>1. r = MarkAttempt(row[e], b.attempts)
        BY <3>2 DEF Settled
      <4>. QED  BY <1>2, <1>4, <3>2, <4>1, SettledRow
    <3>. QED  BY <3>1, <3>2
  <2>2. row' = [row EXCEPT ![e] = r]
    BY <1>1 DEF e
  <2>. HIDE DEF r
  <2>3. row' \in [Queued -> Rows] /\ row'[e] = r /\ \A f \in Queued \ {e} : row'[f] = row[f]
    BY <1>2, <2>1, <2>2 DEF IInv, TypeOK
  <2>. QED  BY <2>1, <2>3 DEF SettledRows
<1>7. /\ batch' \in [Workers -> SUBSET [event : Queued, attempts : Nat]]
      /\ \A v \in Workers : batch'[v] \subseteq batch[v]
  BY <1>1 DEF IInv, TypeOK
<1>. QED  BY <1>1, <1>2, <1>3, <1>5, <1>6, <1>7, Drained

LEMMA KickIsSound ==
  ASSUME IInv, NEW S \in SUBSET Heads, Kick(S)
  PROVE  StepIsSound
<1>1. /\ S \in SUBSET Queued
      /\ \A e \in S : Claimable(e) /\ Ready(e)
  BY HeadIsReady DEF Heads
<1>2. /\ row' = [e \in Queued |->
                   IF e \in S THEN Settled(row[e], Accepts(LogOf(e), e), row[e].attempts)
                              ELSE row[e]]
      /\ log' = [p \in Positions |->
                   IF \E e \in S : PositionOf[e] = p
                     THEN Appended(log[p], CHOOSE e \in S : PositionOf[e] = p)
                     ELSE log[p]]
      /\ clock' = clock /\ batch' = batch /\ asked' = asked /\ faults' = faults
  BY DEF Kick
<1>3. Offered(S)
  <2>1. log' = [p \in Positions |-> log'[p]]
    BY <1>2
  <2>2. ASSUME NEW e \in S
        PROVE  log'[PositionOf[e]] = Appended(log[PositionOf[e]], e)
    <3>1. PositionOf[e] \in Positions
      BY <1>1
    <3>2. \A f \in S : PositionOf[f] = PositionOf[e] => f = e
      BY <1>1, OneHead
    <3>3. (CHOOSE f \in S : PositionOf[f] = PositionOf[e]) = e
      BY <3>2
    <3>. QED  BY <1>2, <3>1, <3>3
  <2>3. \A p \in Positions : (\A e \in S : PositionOf[e] # p) => log'[p] = log[p]
    BY <1>2
  <2>. QED  BY <2>1, <2>2, <2>3 DEF Offered
<1>4. SettledRows(S)
  <2>1. ASSUME NEW e \in S
        PROVE  /\ row'[e] \in Rows /\ row'[e].created = row[e].created
               /\ row'[e].status # "absent"
               /\ row'[e].status = "applied" <=> Accepts(LogOf(e), e)
    <3>1. row[e] \in Rows /\ row[e].attempts \in Nat
      BY <1>1 DEF IInv, TypeOK, Rows
    <3>2. CASE Accepts(LogOf(e), e)
      <4>1. row'[e] = MarkApplied(row[e])
        BY <1>1, <1>2, <3>2 DEF Settled
      <4>. QED  BY <3>1, <3>2, <4>1, SettledRow
    <3>3. CASE ~Accepts(LogOf(e), e)
      <4>1. row'[e] = MarkAttempt(row[e], row[e].attempts)
        BY <1>1, <1>2, <3>3 DEF Settled
      <4>. QED  BY <3>1, <3>3, <4>1, SettledRow
    <3>. QED  BY <3>2, <3>3
  <2>2. \A e \in Queued \ S : row'[e] = row[e] /\ row[e] \in Rows
    BY <1>2 DEF IInv, TypeOK
  <2>3. row' \in [Queued -> Rows]
    BY <1>2, <2>1, <2>2
  <2>. QED  BY <2>1, <2>2, <2>3 DEF SettledRows
<1>5. /\ batch' \in [Workers -> SUBSET [event : Queued, attempts : Nat]]
      /\ \A w \in Workers : batch'[w] \subseteq batch[w]
  BY <1>2 DEF IInv, TypeOK
<1>. QED  BY <1>1, <1>2, <1>3, <1>4, <1>5, Drained

LEMMA InterruptedIsSound ==
  ASSUME IInv, NEW w \in Workers, Interrupted(w)
  PROVE  StepIsSound
<1>1. /\ log' = log /\ row' = row /\ clock' = clock /\ asked' = asked
      /\ faults' = faults + 1 /\ faults < MaxFaults
      /\ \E left \in SUBSET batch[w] : batch' = [batch EXCEPT ![w] = left]
  BY DEF Interrupted
<1>2. /\ batch' \in [Workers -> SUBSET [event : Queued, attempts : Nat]]
      /\ \A v \in Workers : batch'[v] \subseteq batch[v]
  BY <1>1 DEF IInv, TypeOK
<1>3. TypeOK'
  <2>1. faults \in 0..MaxFaults
    BY DEF IInv, TypeOK
  <2>2. faults' \in 0..MaxFaults
    BY <1>1, <2>1
  <2>. QED  BY <1>1, <1>2, <2>2 DEF IInv, TypeOK
<1>4. SameStamps /\ Unmarked /\ AppliedStays
  BY <1>1 DEF SameStamps, Unmarked, AppliedStays
<1>5. ClaimedInTurn
  <2> SUFFICES ASSUME NEW e \in Queued
               PROVE  WasClaimed(e)' => WasClaimed(e)
    BY DEF ClaimedInTurn
  <2>1. InBatch(e)' => InBatch(e)
    BY <1>2 DEF InBatch
  <2>. QED  BY <1>1, <2>1 DEF WasClaimed, LogOf
<1>. QED  BY <1>1, <1>3, <1>4, <1>5, UnmarkedIsSound

\* The write of a requeue and the passing of time change one row, which keeps
\* its place.
LEMMA RowIsTouched ==
  ASSUME IInv, NEW e \in Queued, NEW r \in Rows,
         row' = [row EXCEPT ![e] = r], r.created = row[e].created,
         r.status \in {"pending", row[e].status}, row[e].status # "absent",
         row[e].status = "applied" => e \in asked \ asked',
         asked' \subseteq asked, UNCHANGED <<log, clock, batch, faults>>
  PROVE  StepIsSound
<1>1. /\ row' \in [Queued -> Rows] /\ row'[e] = r
      /\ \A f \in Queued \ {e} : row'[f] = row[f]
  BY DEF IInv, TypeOK
<1>2. TypeOK'
  BY <1>1 DEF IInv, TypeOK
<1>3. SameStamps /\ Unmarked /\ AppliedStays
  BY <1>1 DEF SameStamps, Unmarked, AppliedStays
<1>4. ClaimedInTurn
  <2> SUFFICES ASSUME NEW f \in Queued
               PROVE  WasClaimed(f)' => WasClaimed(f)
    BY DEF ClaimedInTurn
  <2>1. InBatch(f)' => InBatch(f)
    BY DEF InBatch
  <2>. QED  BY <1>1, <2>1 DEF WasClaimed, LogOf
<1>. QED  BY <1>2, <1>3, <1>4, UnmarkedIsSound

LEMMA RequeueIsSound ==
  ASSUME IInv, NEW e \in Queued, Requeue(e)
  PROVE  StepIsSound
<1>1. /\ row[e] \in Rows /\ row[e].status # "absent"
      /\ row' = [row EXCEPT ![e] = Requeued(row[e])]
      /\ e \in asked \ asked' /\ asked' \subseteq asked
      /\ UNCHANGED <<log, clock, batch, faults>>
  BY DEF IInv, TypeOK, AskedWasClaimed, Requeue
<1>2. /\ Requeued(row[e]) \in Rows
      /\ Requeued(row[e]).created = row[e].created
      /\ Requeued(row[e]).status = "pending"
  BY <1>1 DEF Requeued, Rows, Statuses
<1>. QED  BY <1>1, <1>2, RowIsTouched

LEMMA AskRequeueIsSound ==
  ASSUME IInv, NEW e \in Queued, AskRequeue(e)
  PROVE  StepIsSound
<1>1. /\ row[e].status = "dead" /\ asked' = asked \cup {e}
      /\ log' = log /\ row' = row /\ clock' = clock /\ batch' = batch /\ faults' = faults
  BY DEF AskRequeue
<1>2. TypeOK' /\ AskedWasClaimed'
  BY <1>1 DEF IInv, TypeOK, AskedWasClaimed
<1>3. SameStamps /\ Unmarked /\ AppliedStays
  BY <1>1 DEF SameStamps, Unmarked, AppliedStays
<1>4. Stamped' /\ StampsDiffer'
  BY <1>1 DEF IInv, Stamped, StampsDiffer
<1>5. ClaimedInTurn
  BY <1>1 DEF ClaimedInTurn, WasClaimed, InBatch, LogOf
<1>. QED  BY <1>1, <1>2, <1>3, <1>4, <1>5, LogsKept, ReachedKept, DeliveryStep
           DEF StepIsSound, IInv

LEMMA TimePassesIsSound ==
  ASSUME IInv, NEW p \in Positions, TimePasses(p)
  PROVE  StepIsSound
<1>1. PICK e \in Queued : BackoffElapses(e) \/ ClaimLapses(e)
  BY DEF TimePasses
<1>2. row[e] \in Rows
  BY DEF IInv, TypeOK
<1>3. CASE BackoffElapses(e)
  <2>. DEFINE r == [row[e] EXCEPT !.due = TRUE]
  <2>1. r \in Rows /\ r.created = row[e].created /\ r.status = row[e].status
    BY <1>2 DEF Rows
  <2>. QED  BY <1>3, <2>1, RowIsTouched DEF BackoffElapses
<1>4. CASE ClaimLapses(e)
  <2>. DEFINE r == [row[e] EXCEPT !.lapsed = TRUE]
  <2>1. r \in Rows /\ r.created = row[e].created /\ r.status = row[e].status
    BY <1>2 DEF Rows
  <2>. QED  BY <1>4, <2>1, RowIsTouched DEF ClaimLapses
<1>. QED  BY <1>1, <1>3, <1>4

LEMMA StepsAreSound ==
  ASSUME IInv, [Next]_vars
  PROVE  StepIsSound
<1>1. CASE Next
  BY <1>1, EnqueueIsSound, AskRequeueIsSound, RequeueIsSound, TimePassesIsSound, PostIsSound, KickIsSound,
     ClaimIsSound, ApplyIsSound, InterruptedIsSound DEF Next
<1>2. CASE UNCHANGED vars
  <2>1. /\ log' = log /\ row' = row /\ clock' = clock /\ batch' = batch
        /\ asked' = asked /\ faults' = faults
    BY <1>2 DEF vars
  <2>2. TypeOK' /\ SameStamps /\ Unmarked /\ AppliedStays
    BY <2>1 DEF IInv, TypeOK, SameStamps, Unmarked, AppliedStays
  <2>3. ClaimedInTurn
    BY <2>1 DEF ClaimedInTurn, WasClaimed, InBatch, LogOf
  <2>. QED  BY <2>1, <2>2, <2>3, UnmarkedIsSound
<1>. QED  BY <1>1, <1>2

(***************************************************************************)
(* The reduction of a log (reduce_lifecycle_events), by induction on its   *)
(* length.                                                                 *)
(***************************************************************************)

\* Every set of natural numbers that is not empty has a least one.
LEMMA LeastNumber ==
  ASSUME NEW T \in SUBSET Nat, T # {}
  PROVE  \E n \in T : \A m \in T : n <= m
<1>. DEFINE R == OpToRel(<, Nat)
<1>1. IsWellFoundedOn(R, Nat)
  BY NatLessThanWellFounded
<1>2. PICK n \in T : \A m \in T : <<m, n>> \notin R
  <2>. HIDE DEF R
  <2>. QED  BY <1>1, WFMin
<1>3. \A m \in T : ~(m < n)
  BY <1>2 DEF OpToRel
<1>. HIDE DEF R
<1>. QED  BY <1>2, <1>3

\* f gives the stage after each of the first n entries of l.
Reduces(f, l, n) ==
  f = [i \in 0..n |-> IF i = 0 THEN "candidate" ELSE StageAfter[f[i - 1]][l[i].kind]]

\* The state machine stays among the stages, or ends in "illegal".
LEMMA StageAfterType ==
  ASSUME NEW s \in Stages \cup {"illegal"}, NEW kind \in Kinds
  PROVE  StageAfter[s][kind] \in Stages \cup {"illegal"}
<1>1. CASE \E t \in Stages : <<s, kind, t>> \in TRANSITIONS
  <2>. DEFINE t == CHOOSE t \in Stages : <<s, kind, t>> \in TRANSITIONS
  <2>1. t \in Stages
    BY <1>1
  <2>2. StageAfter[s][kind] = t
    BY <1>1 DEF StageAfter
  <2>. QED  BY <2>1, <2>2
<1>2. CASE ~\E t \in Stages : <<s, kind, t>> \in TRANSITIONS
  BY <1>2 DEF StageAfter
<1>. QED  BY <1>1, <1>2

\* One more entry.
LEMMA ReducesOneMore ==
  ASSUME NEW l, NEW n \in Nat, NEW g, Reduces(g, l, n)
  PROVE  Reduces([i \in 0..n + 1 |-> IF i = n + 1 THEN StageAfter[g[n]][l[n + 1].kind] ELSE g[i]],
                 l, n + 1)
<1>. DEFINE f == [i \in 0..n + 1 |-> IF i = n + 1 THEN StageAfter[g[n]][l[n + 1].kind] ELSE g[i]]
<1>1. \A i \in 0..n : f[i] = g[i] /\ i # n + 1
  OBVIOUS
<1>2. f[n + 1] = StageAfter[g[n]][l[n + 1].kind]
  OBVIOUS
<1>3. \A i \in 0..n : g[i] = IF i = 0 THEN "candidate" ELSE StageAfter[g[i - 1]][l[i].kind]
  BY DEF Reduces
<1>. HIDE DEF f
<1>4. ASSUME NEW i \in 0..n + 1
      PROVE  f[i] = IF i = 0 THEN "candidate" ELSE StageAfter[f[i - 1]][l[i].kind]
  <2>1. CASE i = n + 1
    <3>1. i # 0 /\ i - 1 = n /\ n \in 0..n
      BY <2>1
    <3>. QED  BY <1>1, <1>2, <2>1, <3>1
  <2>2. CASE i = 0
    BY <1>1, <1>3, <2>2
  <2>3. CASE i # 0 /\ i # n + 1
    <3>1. i \in 0..n /\ i - 1 \in 0..n
      BY <2>3
    <3>. QED  BY <1>1, <1>3, <2>3, <3>1
  <2>. QED  BY <2>1, <2>2, <2>3
<1>5. f = [i \in 0..n + 1 |-> f[i]]
  BY DEF f
<1>6. f = [i \in 0..n + 1 |-> IF i = 0 THEN "candidate" ELSE StageAfter[f[i - 1]][l[i].kind]]
  BY <1>4, <1>5
<1>7. Reduces(f, l, n + 1)
  BY <1>6 DEF Reduces
<1>. QED  BY <1>7 DEF f

\* Every log has a reduction.
LEMMA ReductionExists ==
  ASSUME NEW l, NEW n \in Nat
  PROVE  \E f : Reduces(f, l, n)
<1>. DEFINE T == {i \in Nat : ~\E f : Reduces(f, l, i)}
<1>. SUFFICES T = {}
  OBVIOUS
<1>1. ASSUME T # {} PROVE FALSE
  <2>1. PICK m \in T : \A i \in T : m <= i
    <3>1. T \in SUBSET Nat
      OBVIOUS
    <3>. HIDE DEF T
    <3>. QED  BY <1>1, <3>1, LeastNumber
  <2>2. m # 0
    <3>. DEFINE g == [i \in 0..0 |-> "candidate"]
    <3>1. Reduces(g, l, 0)
      BY DEF Reduces
    <3>. HIDE DEF g
    <3>. QED  BY <2>1, <3>1
  <2>3. m - 1 \in Nat /\ m - 1 \notin T /\ (m - 1) + 1 = m
    BY <2>1, <2>2
  <2>4. PICK g : Reduces(g, l, m - 1)
    BY <2>3
  <2>5. \E f : Reduces(f, l, (m - 1) + 1)
    <3>. HIDE DEF T
    <3>. QED  BY <2>3, <2>4, ReducesOneMore
  <2>. QED  BY <2>1, <2>3, <2>5
<1>. QED  BY <1>1

\* And only one.
LEMMA ReductionUnique ==
  ASSUME NEW l, NEW n \in Nat, NEW f, NEW g, Reduces(f, l, n), Reduces(g, l, n)
  PROVE  f = g
<1>. DEFINE T == {i \in 0..n : f[i] # g[i]}
<1>1. /\ f = [i \in 0..n |-> f[i]]
      /\ g = [i \in 0..n |-> g[i]]
  BY DEF Reduces
<1>2. \A i \in 0..n :
        /\ f[i] = IF i = 0 THEN "candidate" ELSE StageAfter[f[i - 1]][l[i].kind]
        /\ g[i] = IF i = 0 THEN "candidate" ELSE StageAfter[g[i - 1]][l[i].kind]
  BY DEF Reduces
<1>3. ASSUME T # {} PROVE FALSE
  <2>1. PICK m \in T : \A i \in T : m <= i
    <3>1. T \in SUBSET Nat
      OBVIOUS
    <3>. HIDE DEF T
    <3>. QED  BY <1>3, <3>1, LeastNumber
  <2>2. m # 0
    BY <1>2, <2>1
  <2>3. m \in 1..n /\ m - 1 \in 0..n /\ m - 1 \notin T
    BY <2>1, <2>2
  <2>4. f[m - 1] = g[m - 1]
    BY <2>3
  <2>. QED  BY <1>2, <2>1, <2>3, <2>4
<1>. QED  BY <1>1, <1>3

\* The stage of a log is where its reduction ends.
LEMMA StageIs ==
  ASSUME NEW l \in Logs, NEW f, Reduces(f, l, Len(l))
  PROVE  Stage(l) = f[Len(l)]
<1>. DEFINE stage == CHOOSE g : g = [i \in 0..Len(l) |->
                IF i = 0 THEN "candidate" ELSE StageAfter[g[i - 1]][l[i].kind]]
<1>1. Stage(l) = stage[Len(l)]
  BY DEF Stage
<1>2. Reduces(stage, l, Len(l))
  BY DEF Reduces
<1>3. Len(l) \in Nat
  BY DEF Logs
<1>. HIDE DEF stage
<1>4. stage = f
  BY <1>2, <1>3, ReductionUnique
<1>. QED  BY <1>1, <1>4

\* An empty log is a candidate's; an entry takes a log one transition further.
LEMMA StageOfNone == Stage(<<>>) = "candidate"
<1>1. PICK f : Reduces(f, <<>>, 0)
  BY ReductionExists
<1>2. <<>> \in Logs /\ Len(<<>>) = 0
  BY DEF Logs
<1>3. f[0] = "candidate"
  BY <1>1 DEF Reduces
<1>. QED  BY <1>1, <1>2, <1>3, StageIs

LEMMA StageOfMore ==
  ASSUME NEW l \in Logs, NEW x \in LogEntries
  PROVE  Stage(Append(l, x)) = StageAfter[Stage(l)][x.kind]
<1>. DEFINE n == Len(l)
            m == Append(l, x)
<1>1. /\ n \in Nat /\ m \in Logs /\ Len(m) = n + 1 /\ m[n + 1] = x
      /\ \A i \in 1..n : m[i] = l[i]
  BY DEF Logs
<1>. HIDE DEF m, n
<1>2. PICK f : Reduces(f, l, n)
  BY <1>1, ReductionExists
<1>3. Reduces(f, m, n)
  <2>1. \A i \in 0..n : f[i] = IF i = 0 THEN "candidate" ELSE StageAfter[f[i - 1]][m[i].kind]
    BY <1>1, <1>2 DEF Reduces
  <2>2. f = [i \in 0..n |-> f[i]]
    BY <1>2 DEF Reduces
  <2>. QED  BY <2>1, <2>2 DEF Reduces
<1>. DEFINE g == [i \in 0..n + 1 |-> IF i = n + 1 THEN StageAfter[f[n]][m[n + 1].kind] ELSE f[i]]
<1>4. Reduces(g, m, n + 1)
  BY <1>1, <1>3, ReducesOneMore
<1>5. g[n + 1] = StageAfter[f[n]][x.kind]
  BY <1>1
<1>6. Stage(l) = f[n]
  BY <1>2, StageIs DEF n
<1>. HIDE DEF g
<1>7. Stage(m) = g[n + 1]
  BY <1>1, <1>4, StageIs
<1>. QED  BY <1>5, <1>6, <1>7 DEF m

(***************************************************************************)
(* Sound logs.                                                             *)
(***************************************************************************)
InOrderOfTime(l) == \A i \in 1..Len(l) - 1 : l[i].at <= l[i + 1].at

StandsIn(x) ==
  x.kind = "T2_TRIGGERED" /\ x.event \in Queued /\ KindOf[x.event] = "T2_EXECUTED"

Paired(l) ==
  \A i \in 1..Len(l) : StandsIn(l[i]) => i < Len(l) /\ l[i + 1] = Entry(l[i].event)

LEMMA SoundLogs ==
  LogIsSound <=> \A p \in Positions : /\ Stage(log[p]) \in Stages
                                      /\ InOrderOfTime(log[p])
                                      /\ Paired(log[p])
BY DEF LogIsSound, InOrderOfTime, Paired, StandsIn

\* The entries an event may leave.
LEMMA EntryTypes ==
  ASSUME NEW e \in Events
  PROVE  /\ Entry(e) \in LogEntries /\ Trigger(e) \in LogEntries
         /\ Entry(e).kind = KindOf[e] /\ Entry(e).event = e
         /\ Trigger(e).event = e /\ Trigger(e).kind = "T2_TRIGGERED"
         /\ ~StandsIn(Entry(e))
BY DEF Entry, Trigger, LogEntries, Kinds, StandsIn

\* A legal entry leads to a stage, and comes no earlier than the last one.
LEMMA LegalEntry ==
  ASSUME NEW l \in Logs, NEW x \in LogEntries, Legal(l, x),
         Stage(l) \in Stages, InOrderOfTime(l)
  PROVE  /\ Append(l, x) \in Logs
         /\ Stage(Append(l, x)) \in Stages
         /\ InOrderOfTime(Append(l, x))
<1>. DEFINE m == Append(l, x)
<1>1. /\ Len(l) \in Nat /\ m \in Logs /\ Len(m) = Len(l) + 1 /\ m[Len(l) + 1] = x
      /\ \A i \in 1..Len(l) : m[i] = l[i]
  BY DEF Logs, LogEntries
<1>2. Stage(m) \in Stages
  <2>1. Stage(m) = StageAfter[Stage(l)][x.kind]
    BY StageOfMore DEF LogEntries
  <2>2. x.kind \in Kinds
    BY DEF LogEntries
  <2>. QED  BY <2>1, <2>2, StageAfterType DEF Legal
<1>3. ASSUME NEW i \in 1..Len(l)
      PROVE  m[i].at <= m[i + 1].at
  <2>1. CASE i < Len(l)
    <3>1. i \in 1..Len(l) - 1 /\ i + 1 \in 1..Len(l)
      BY <1>1, <2>1
    <3>. QED  BY <1>1, <3>1 DEF InOrderOfTime
  <2>2. CASE i = Len(l)
    <3>1. l # <<>>
      BY <1>1, <2>2
    <3>2. l[Len(l)].at < x.at \/ l[Len(l)].at <= x.at
      BY <3>1 DEF Legal, Timely
    <3>3. l[Len(l)].at \in Nat /\ x.at \in Nat
      BY <2>2, EntryOf DEF LogEntries
    <3>. QED  BY <1>1, <2>2, <3>2, <3>3
  <2>. QED  BY <1>1, <2>1, <2>2
<1>4. InOrderOfTime(m)
  <2>1. Len(m) - 1 = Len(l)
    BY <1>1
  <2>. HIDE DEF m
  <2>. QED  BY <1>3, <2>1 DEF InOrderOfTime
<1>. QED  BY <1>1, <1>2, <1>4

\* An event that is accepted leaves a sound log sound.
LEMMA AppendedIsSound ==
  ASSUME NEW l \in Logs, NEW e \in Events,
         Stage(l) \in Stages, InOrderOfTime(l), Paired(l)
  PROVE  /\ Stage(Appended(l, e)) \in Stages
         /\ InOrderOfTime(Appended(l, e))
         /\ Paired(Appended(l, e))
<1>. DEFINE t == Trigger(e)
            x == Entry(e)
<1>0. /\ t \in LogEntries /\ x \in LogEntries /\ ~StandsIn(x)
      /\ t.event = e
  BY EntryTypes
<1>1. CASE Has(l, e) \/ ~Accepts(l, e)
  BY <1>1 DEF Appended
<1>2. CASE ~Has(l, e) /\ Accepts(l, e) /\ ~TakesPair(l, e)
  <2>1. Appended(l, e) = l \o <<x>> /\ Legal(l, x)
    BY <1>2 DEF Appended, Entries, Accepts
  <2>. HIDE DEF x
  <2>2. /\ l \o <<x>> = Append(l, x) /\ Len(Append(l, x)) = Len(l) + 1 /\ Len(l) \in Nat
        /\ Append(l, x)[Len(l) + 1] = x
        /\ \A i \in 1..Len(l) : Append(l, x)[i] = l[i]
    BY <1>0 DEF Logs, LogEntries
  <2>3. Stage(Append(l, x)) \in Stages /\ InOrderOfTime(Append(l, x))
    BY <1>0, <2>1, LegalEntry
  <2>4. Paired(Append(l, x))
    BY <1>0, <2>2 DEF Paired
  <2>. QED  BY <2>1, <2>2, <2>3, <2>4
<1>3. CASE ~Has(l, e) /\ Accepts(l, e) /\ TakesPair(l, e)
  <2>. DEFINE k == Append(l, t)
              m == Append(k, x)
  <2>0. ~Has(k, e)
    <3>1. Len(k) = Len(l) + 1 /\ Len(l) \in Nat /\ k[Len(l) + 1] = t
          /\ \A i \in 1..Len(l) : k[i] = l[i]
      BY <1>0 DEF Logs, LogEntries
    <3>2. t.kind = "T2_TRIGGERED" /\ KindOf[e] = "T2_EXECUTED"
      BY <1>3, EntryTypes DEF TakesPair, NeedsPair
    <3>. HIDE DEF k, t
    <3>3. ASSUME NEW i \in 1..Len(k), k[i].event = e, k[i].kind = KindOf[e]
          PROVE  FALSE
      <4>1. i \in 1..Len(l) /\ k[i] = l[i]
        BY <3>1, <3>2, <3>3
      <4>. QED  BY <1>3, <3>3, <4>1 DEF Has
    <3>. QED  BY <3>3 DEF Has
  <2>1. Appended(l, e) = l \o <<t, x>> /\ Legal(l, t) /\ Legal(k, x)
    <3>1. Legal(l, t) /\ (Has(k, e) \/ Legal(k, x))
      BY <1>3 DEF Accepts
    <3>. QED  BY <1>3, <2>0, <3>1 DEF Appended, Entries
  <2>2. k \in Logs /\ Stage(k) \in Stages /\ InOrderOfTime(k)
    BY <1>0, <2>1, LegalEntry
  <2>3. Stage(m) \in Stages /\ InOrderOfTime(m)
    BY <1>0, <2>1, <2>2, LegalEntry
  <2>. HIDE DEF t, x
  <2>4. /\ l \o <<t, x>> = m /\ Len(m) = Len(l) + 2 /\ Len(l) \in Nat
        /\ m[Len(l) + 1] = t /\ m[Len(l) + 2] = x
        /\ \A i \in 1..Len(l) : m[i] = l[i]
    BY <1>0 DEF Logs, LogEntries
  <2>5. x = Entry(t.event)
    BY <1>0 DEF x
  <2>. HIDE DEF m
  <2>6. ASSUME NEW i \in 1..Len(m), StandsIn(m[i])
        PROVE  i < Len(m) /\ m[i + 1] = Entry(m[i].event)
    <3>1. CASE i \in 1..Len(l)
      <4>1. i < Len(l) /\ l[i + 1] = Entry(l[i].event)
        BY <2>4, <2>6, <3>1 DEF Paired
      <4>. QED  BY <2>4, <3>1, <4>1
    <3>2. CASE i = Len(l) + 1
      BY <2>4, <2>5, <3>2
    <3>3. CASE i = Len(l) + 2
      BY <1>0, <2>4, <2>6, <3>3
    <3>. QED  BY <2>4, <3>1, <3>2, <3>3
  <2>7. Paired(m)
    BY <2>6 DEF Paired
  <2>. QED  BY <2>1, <2>3, <2>4, <2>7
<1>. QED  BY <1>1, <1>2, <1>3

\* A step leaves the log of a position as it is, or offers it an event.
LEMMA LogStep ==
  ASSUME TypeOK, [Next]_vars, NEW p \in Positions
  PROVE  log'[p] = log[p] \/ \E e \in Events : log'[p] = Appended(log[p], e)
<1>1. ASSUME NEW e \in Posted, Post(e)
      PROVE  log'[p] = log[p] \/ log'[p] = Appended(log[p], e)
  BY <1>1 DEF Post, LogOf, TypeOK
<1>2. ASSUME NEW w \in Workers, Apply(w)
      PROVE  log'[p] = log[p] \/ \E e \in Events : log'[p] = Appended(log[p], e)
  <2>1. PICK b \in batch[w] :
           log' = [log EXCEPT ![PositionOf[b.event]] = Appended(LogOf(b.event), b.event)]
    BY <1>2 DEF Apply
  <2>2. b.event \in Events
    BY DEF TypeOK
  <2>. QED  BY <2>1, <2>2 DEF LogOf, TypeOK
<1>3. ASSUME NEW S \in SUBSET Heads, Kick(S)
      PROVE  log'[p] = log[p] \/ \E e \in Events : log'[p] = Appended(log[p], e)
  <2>. DEFINE e == CHOOSE f \in S : PositionOf[f] = p
  <2>1. log'[p] = IF \E f \in S : PositionOf[f] = p THEN Appended(log[p], e) ELSE log[p]
    BY <1>3 DEF Kick
  <2>2. (\E f \in S : PositionOf[f] = p) => e \in Events
    BY DEF Heads
  <2>. HIDE DEF e
  <2>. QED  BY <2>1, <2>2
<1>4. CASE UNCHANGED log
  BY <1>4
<1>5. (\A e \in Queued : Enqueue(e) \/ AskRequeue(e) \/ Requeue(e) => UNCHANGED log)
  BY DEF Enqueue, AskRequeue, Requeue
<1>6. \A q \in Positions : TimePasses(q) => UNCHANGED log
  BY DEF TimePasses, BackoffElapses, ClaimLapses
<1>7. \A w \in Workers : Interrupted(w) \/ (\E S \in SUBSET Heads : Claim(w, S)) => UNCHANGED log
  BY DEF Interrupted, Claim
<1>8. Posted \subseteq Events
  BY DEF Posted
<1>. QED  BY <1>1, <1>2, <1>3, <1>4, <1>5, <1>6, <1>7, <1>8 DEF Next, vars

(***************************************************************************)
(* The theorems.                                                           *)
(***************************************************************************)

\* The rows, the batches of the workers and the logs always agree.
THEOREM Invariance == Spec => []IInv
<1>1. IInv /\ [Next]_vars => IInv'
  BY StepsAreSound DEF StepIsSound
<1>. QED  BY <1>1, InitIsSound, PTL DEF Spec

\* Every variable holds a value of its kind.
THEOREM TypeCorrect == Spec => []TypeOK
<1>1. IInv => TypeOK
  BY DEF IInv
<1>. QED  BY <1>1, Invariance, PTL

\* An applied row has its event in the log, and an event in the log never ends
\* as a dead letter, whatever workers crash, come late or work twice, unless it
\* is a second target logged behind a trigger announced by hand.
THEOREM AppliedRowsAreLogged == Spec => []AppliedIsLogged
<1>1. IInv => AppliedIsLogged
  BY DEF IInv
<1>. QED  BY <1>1, Invariance, PTL

\* Delivered at least once, logged once.
THEOREM LogsHaveNothingTwice == Spec => []LoggedOnce
<1>1. IInv => LoggedOnce
  BY DEF IInv
<1>. QED  BY <1>1, Invariance, PTL

\* The rows of a position reach its log in the order they were written.
THEOREM RowsAreLoggedInOrder == Spec => []InOrder
<1>1. IInv => InOrder
  BY DEF IInv, InOrder, Reached, WasClaimed, Ready
<1>. QED  BY <1>1, Invariance, PTL

\* No two events of one position are under way.
THEOREM OneRowAtATime == Spec => []OneHeadAtATime
<1>1. IInv => OneHeadAtATime
  BY DEF IInv, OneHeadAtATime, Reached, WasClaimed, Ready
<1>. QED  BY <1>1, Invariance, PTL

\* Only the late write of a requeue puts an applied row back, and the refused
\* replay of a second target that was logged without its own trigger.
THEOREM AppliedStaysApplied == Spec => AppliedIsFinal
<1>1. IInv /\ [Next]_vars => AppliedStays
  BY StepsAreSound DEF StepIsSound
<1>2. IInv /\ [Next]_vars
        => [\A e \in Queued :
              row[e].status = "applied"
                => row'[e].status = "applied" \/ e \in asked \ asked' \/ Alone(e)]_vars
  BY <1>1 DEF AppliedStays
<1>. QED  BY <1>2, Invariance, PTL DEF Spec, AppliedIsFinal

\* The outbox, its workers, its kicks and its retries implement a queue that
\* delivers the rows of a position once and in order.
THEOREM OutboxIsOrderedDelivery == Spec => IsOrderedDelivery
<1>1. Init => Delivery!Init
  BY InitIsSound DEF Init, Delivery!Init, Absent, Has, LogOf
<1>2. IInv /\ [Next]_vars => [Delivery!Next]_(Delivery!queue)
  BY StepsAreSound DEF StepIsSound
<1>. QED  BY <1>1, <1>2, Invariance, PTL DEF Spec, IsOrderedDelivery, Delivery!Spec

\* A log is always a history that the state machine accepts, in order of time,
\* and a trigger that stands in for another is followed by it.
THEOREM LogsAreSound == Spec => []LogIsSound
<1>1. Init => LogIsSound
  <2>1. ASSUME Init, NEW p \in Positions
        PROVE  Stage(log[p]) \in Stages /\ InOrderOfTime(log[p]) /\ Paired(log[p])
    <3>1. log[p] = <<>> /\ Len(<<>>) = 0
      BY <2>1 DEF Init
    <3>2. "candidate" \in Stages
      BY DEF Stages
    <3>. QED  BY <3>1, <3>2, StageOfNone DEF InOrderOfTime, Paired
  <2>. QED  BY <2>1, SoundLogs
<1>2. TypeOK /\ LogIsSound /\ [Next]_vars => LogIsSound'
  <2>. SUFFICES ASSUME TypeOK, LogIsSound, [Next]_vars, NEW p \in Positions
                PROVE  /\ Stage(log[p])' \in Stages
                       /\ InOrderOfTime(log[p])'
                       /\ Paired(log[p])'
    BY DEF LogIsSound, InOrderOfTime, Paired, StandsIn
  <2>1. log[p] \in Logs /\ Stage(log[p]) \in Stages /\ InOrderOfTime(log[p]) /\ Paired(log[p])
    BY SoundLogs DEF TypeOK, Logs, LogEntries
  <2>2. CASE log'[p] = log[p]
    BY <2>1, <2>2
  <2>3. ASSUME NEW e \in Events, log'[p] = Appended(log[p], e)
        PROVE  /\ Stage(log'[p]) \in Stages /\ InOrderOfTime(log'[p]) /\ Paired(log'[p])
    BY <2>1, <2>3, AppendedIsSound
  <2>. QED  BY <2>2, <2>3, LogStep
<1>. QED  BY <1>1, <1>2, TypeCorrect, PTL DEF Spec
=============================================================================
