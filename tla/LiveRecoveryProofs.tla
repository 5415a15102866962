------------------------- MODULE LiveRecoveryProofs -------------------------
(***************************************************************************)
(* Proofs about LiveRecovery for every set of orders and workers and every *)
(* quantity.  First the types, then one lemma per action for the rest of   *)
(* the invariant IInv: what holds whatever the claims do, and what needs   *)
(* the claims to outlive their batches.                                    *)
(***************************************************************************)
EXTENDS LiveRecovery, TLAPS

Rows == [status : Statuses, filled : 0..Quantity, bound : BOOLEAN,
         claim : {"none", "fresh", "stale"}]
Answers == [outcome : {"none", "unavailable", "working", "partial", "filled", "cancelled",
                       "rejected"}, filled : 0..Quantity, seq : Nat]
Ticks == [pc : {"idle", "draining", "answered", "applying"}, batch : SUBSET Orders,
          order : Orders \cup {Nobody}, answer : Answers,
          fills : SUBSET (Orders \X (0..Quantity) \X Nat)]
Venues == [state : {"working", "filled", "cancelled", "rejected"},
           filled : 0..Quantity, seq : Nat]

\* TypeOK with its record sets named.
LEMMA TypeParts ==
  TypeOK <=> /\ row \in [Orders -> Rows]
             /\ lock \in [Orders -> Workers \cup {Nobody}]
             /\ venue \in [Orders -> Venues]
             /\ worker \in [Workers -> Ticks]
             /\ event \in [Orders -> [Seqs -> {"ABSENT", "RETRY", "FAILED", "APPLIED"}]]
             /\ booked \in [Orders -> Nat]
             /\ faults \in 0..MaxFaults
  BY DEF TypeOK, Rows, Answers, Ticks, Venues

LEMMA TypePartsNext ==
  ( /\ row' \in [Orders -> Rows]
    /\ lock' \in [Orders -> Workers \cup {Nobody}]
    /\ venue' \in [Orders -> Venues]
    /\ worker' \in [Workers -> Ticks]
    /\ event' \in [Orders -> [Seqs -> {"ABSENT", "RETRY", "FAILED", "APPLIED"}]]
    /\ booked' \in [Orders -> Nat]
    /\ faults' \in 0..MaxFaults ) => TypeOK'
  BY DEF TypeOK, Rows, Answers, Ticks, Venues

\* A worker at rest, and what a tick may keep of it, have their type.
LEMMA RestingType ==
  /\ Resting \in Ticks
  /\ Resting.pc = "idle" /\ Resting.batch = {} /\ Resting.fills = {}
  <1>1. 0 \in 0..Quantity BY QuantityAssumption
  <1>2. [outcome |-> "none", filled |-> 0, seq |-> 0] \in Answers BY <1>1 DEF Answers
  <1> QED BY <1>2 DEF Resting, Tick, Ticks

LEMMA TickType ==
  ASSUME NEW p \in {"idle", "draining", "answered", "applying"}, NEW b \in SUBSET Orders,
         NEW s \in SUBSET (Orders \X (0..Quantity) \X Nat)
  PROVE  /\ Tick(p, b, s) \in Ticks
         /\ Tick(p, b, s).pc = p /\ Tick(p, b, s).batch = b /\ Tick(p, b, s).fills = s
  <1>1. 0 \in 0..Quantity BY QuantityAssumption
  <1>2. [outcome |-> "none", filled |-> 0, seq |-> 0] \in Answers BY <1>1 DEF Answers
  <1> QED BY <1>2 DEF Tick, Ticks

\* A tick that is given an answer, and one that has dealt with a fill.
LEMMA AnsweredType ==
  ASSUME NEW z \in Ticks, NEW o \in Orders, NEW a \in Answers, NEW y,
         y = [z EXCEPT !.pc = "answered", !.order = o, !.answer = a]
  PROVE  /\ y \in Ticks /\ y.pc = "answered" /\ y.order = o /\ y.answer = a
         /\ y.batch = z.batch /\ y.fills = z.fills
  BY DEF Ticks

LEMMA SettledType ==
  ASSUME NEW z \in Ticks, NEW f, NEW y, y = [z EXCEPT !.fills = z.fills \ {f}]
  PROVE  /\ y \in Ticks /\ y.pc = z.pc /\ y.order = z.order /\ y.answer = z.answer
         /\ y.batch = z.batch /\ y.fills = z.fills \ {f}
  BY DEF Ticks

\* What Put leaves in the row: a status of the machine and a quantity in range.
LEMMA WrittenType ==
  ASSUME NEW r \in Rows, NEW a \in Answers, a.outcome # "none"
  PROVE  /\ Written(r, a) \in Rows
         /\ Written(r, a).bound = r.bound /\ Written(r, a).claim = r.claim
         /\ Written(r, a).status = Target(a)
         /\ Written(r, a).filled = IF IsFill(a) THEN a.filled ELSE 0
         /\ Target(a) \in {"UNKNOWN", "WORKING", "PARTIAL", "FILLED", "REJECTED", "CANCELLED"}
         /\ Target(a) = "UNKNOWN" <=> a.outcome = "unavailable"
         /\ Target(a) = "PARTIAL" <=> a.outcome = "partial"
         /\ Target(a) = "FILLED" <=> a.outcome = "filled"
         /\ Target(a) = "CANCELLED" <=> a.outcome = "cancelled"
         /\ Target(a) = "REJECTED" <=> a.outcome = "rejected"
  <1>1. /\ Target(a) \in {"UNKNOWN", "WORKING", "PARTIAL", "FILLED", "REJECTED", "CANCELLED"}
        /\ Target(a) = "UNKNOWN" <=> a.outcome = "unavailable"
        /\ Target(a) = "PARTIAL" <=> a.outcome = "partial"
        /\ Target(a) = "FILLED" <=> a.outcome = "filled"
        /\ Target(a) = "CANCELLED" <=> a.outcome = "cancelled"
        /\ Target(a) = "REJECTED" <=> a.outcome = "rejected"
    BY DEF Answers, Target, LiveStatus
  <1>2. (IF IsFill(a) THEN a.filled ELSE 0) \in 0..Quantity
    BY QuantityAssumption DEF Answers
  <1>3. Target(a) \in Statuses BY <1>1 DEF Statuses, Terminal
  <1> QED BY <1>1, <1>2, <1>3 DEF Written, Rows

LEMMA TypeInit == Init => TypeOK
  <1> SUFFICES ASSUME Init PROVE TypeOK OBVIOUS
  <1>1. 0 \in 0..Quantity /\ 0 \in 0..MaxFaults BY QuantityAssumption, FaultsAssumption
  <1>2. [status |-> "ABSENT", filled |-> 0, bound |-> FALSE, claim |-> "none"] \in Rows
    BY <1>1 DEF Rows, Statuses
  <1>3. [state |-> "working", filled |-> 0, seq |-> 0] \in Venues BY <1>1 DEF Venues
  <1>4. /\ row \in [Orders -> Rows] /\ venue \in [Orders -> Venues]
        /\ worker \in [Workers -> Ticks]
    BY <1>2, <1>3, RestingType DEF Init
  <1>5. /\ lock \in [Orders -> Workers \cup {Nobody}] /\ booked \in [Orders -> Nat]
        /\ event \in [Orders -> [Seqs -> {"ABSENT", "RETRY", "FAILED", "APPLIED"}]]
        /\ faults \in 0..MaxFaults
    BY <1>1 DEF Init
  <1> QED BY <1>4, <1>5, TypeParts

\* A type-correct state stays so over each action; a put needs its answer.
LEMMA TypeStep == TypeOK /\ AnswersHold /\ [Next]_vars => TypeOK'
  <1> SUFFICES ASSUME TypeOK, AnswersHold, [Next]_vars PROVE TypeOK'
    OBVIOUS
  <1>0. /\ row \in [Orders -> Rows]
        /\ lock \in [Orders -> Workers \cup {Nobody}]
        /\ venue \in [Orders -> Venues]
        /\ worker \in [Workers -> Ticks]
        /\ event \in [Orders -> [Seqs -> {"ABSENT", "RETRY", "FAILED", "APPLIED"}]]
        /\ booked \in [Orders -> Nat]
        /\ faults \in 0..MaxFaults
    BY TypeParts
  <1>f. Fault => faults' \in 0..MaxFaults BY <1>0, FaultsAssumption DEF Fault
  <1>r. \A w \in Workers : ReleasedBy(w) \in [Orders -> Workers \cup {Nobody}]
    BY <1>0 DEF ReleasedBy
  <1>p. \A w \in Workers : Published(w) \in [Orders -> Rows]
    <2> SUFFICES ASSUME NEW w \in Workers, NEW o \in Orders
                 PROVE  [row[o] EXCEPT !.claim = IF lock[o] = w THEN "fresh" ELSE @] \in Rows
      BY DEF Published
    <2> QED BY <1>0 DEF Rows
  <1>1. ASSUME NEW o \in Orders, Submit(o) PROVE TypeOK'
    <2>1. PICK b \in BOOLEAN : row' = [row EXCEPT ![o] =
            [status |-> "UNKNOWN", filled |-> 0, bound |-> b, claim |-> "none"]]
      BY <1>1 DEF Submit
    <2>2. [status |-> "UNKNOWN", filled |-> 0, bound |-> b, claim |-> "none"] \in Rows
      BY QuantityAssumption DEF Rows, Statuses
    <2>3. row' \in [Orders -> Rows] BY <1>0, <2>1, <2>2
    <2> QED BY <1>0, <1>1, <2>3, TypePartsNext DEF Submit, money
  <1>2. ASSUME NEW o \in Orders, VenueFills(o) PROVE TypeOK'
    <2>2. PICK n \in 1..(Quantity - venue[o].filled) : venue' = [venue EXCEPT ![o] =
            [state |-> IF venue[o].filled + n = Quantity THEN "filled" ELSE "working",
             filled |-> venue[o].filled + n, seq |-> venue[o].seq + 1]]
      BY <1>2 DEF VenueFills
    <2>3. /\ venue[o].filled + n \in 0..Quantity /\ venue[o].seq + 1 \in Nat
      BY <1>0, <2>2, QuantityAssumption DEF Venues
    <2>4. venue' \in [Orders -> Venues] BY <1>0, <2>2, <2>3 DEF Venues
    <2> QED BY <1>0, <1>2, <2>4, TypePartsNext DEF VenueFills, money
  <1>3. ASSUME NEW o \in Orders, VenueEnds(o) PROVE TypeOK'
    <2>1. venue' \in [Orders -> Venues] BY <1>0, <1>3 DEF VenueEnds, Venues
    <2> QED BY <1>0, <1>3, <2>1, TypePartsNext DEF VenueEnds, money
  <1>4. ASSUME NEW o \in Orders, ClaimLapses(o) PROVE TypeOK'
    <2>1. row' \in [Orders -> Rows] BY <1>0, <1>4 DEF ClaimLapses, Rows
    <2> QED BY <1>0, <1>4, <2>1, TypePartsNext DEF ClaimLapses, money
  <1>5. ASSUME NEW w \in Workers, Claim(w) PROVE TypeOK'
    <2>1. PICK batch \in SUBSET Orders :
            worker' = [worker EXCEPT ![w] = Tick("draining", batch, {})]
      BY <1>5 DEF Claim
    <2>2. Tick("draining", batch, {}) \in Ticks BY TickType
    <2>3. worker' \in [Workers -> Ticks] BY <1>0, <2>1, <2>2
    <2>4. lock' \in [Orders -> Workers \cup {Nobody}] BY <1>0, <1>5 DEF Claim
    <2> QED BY <1>0, <1>5, <2>3, <2>4, TypePartsNext DEF Claim, money
  <1>6. ASSUME NEW w \in Workers, NEW o \in Orders, Query(w, o) PROVE TypeOK'
    <2> DEFINE truth == [outcome |-> Outcome(venue[o]), filled |-> venue[o].filled,
                         seq |-> venue[o].seq]
    <2>1. /\ truth \in Answers /\ [truth EXCEPT !.filled = 0] \in Answers
          /\ Unavailable \in Answers
      BY <1>0, QuantityAssumption DEF Answers, Unavailable, Outcome, Venues
    <2>2. PICK a \in Answers :
            worker' = [worker EXCEPT ![w].pc = "answered", ![w].order = o, ![w].answer = a]
      BY <1>6, <2>1 DEF Query
    <2> DEFINE y == [worker[w] EXCEPT !.pc = "answered", !.order = o, !.answer = a]
    <2>5. worker' = [worker EXCEPT ![w] = y] BY <1>0, <2>2
    <2>6. y \in Ticks BY <1>0, AnsweredType
    <2> HIDE DEF y
    <2>3. worker' \in [Workers -> Ticks] BY <1>0, <2>5, <2>6
    <2>4. faults' \in 0..MaxFaults BY <1>0, <1>6, <1>f DEF Query
    <2> QED BY <1>0, <1>6, <2>3, <2>4, TypePartsNext DEF Query, money
  <1>7. ASSUME NEW w \in Workers, Put(w) PROVE TypeOK'
    <2> DEFINE o == worker[w].order
               a == worker[w].answer
               s == worker[w].fills \cup IF IsFill(a) THEN {<<o, a.filled, a.seq>>} ELSE {}
               z == Tick(AfterOrder(w, o), Past(w, o), s)
    <2>1. o \in Orders /\ a \in Answers /\ a.outcome # "none"
      BY <1>0, <1>7 DEF Put, AnswersHold, Ticks
    <2>2. row' \in [Orders -> Rows]
      <3>1. row' = [Published(w) EXCEPT ![o] = Written(Published(w)[o], a)]
        BY <1>7 DEF Put
      <3>2. Written(Published(w)[o], a) \in Rows BY <1>p, <2>1, WrittenType
      <3> QED BY <1>p, <2>1, <3>1, <3>2
    <2>3. z \in Ticks
      <3>1. /\ AfterOrder(w, o) \in {"idle", "draining", "answered", "applying"}
            /\ Past(w, o) \in SUBSET Orders
            /\ s \in SUBSET (Orders \X (0..Quantity) \X Nat)
        BY <1>0, <2>1 DEF AfterOrder, Past, Ticks, Answers
      <3> HIDE DEF s, o, a
      <3> QED BY <3>1, TickType
    <2>4. worker' = [worker EXCEPT ![w] = z] BY <1>7 DEF Put
    <2> HIDE DEF z
    <2>5. worker' \in [Workers -> Ticks] BY <1>0, <2>3, <2>4
    <2>6. lock' \in [Orders -> Workers \cup {Nobody}] BY <1>7, <1>r DEF Put
    <2>7. UNCHANGED <<venue, money, faults>> BY <1>7 DEF Put
    <2> QED BY <1>0, <2>2, <2>5, <2>6, <2>7, TypePartsNext DEF money
  <1>8. ASSUME NEW w \in Workers, Skip(w) PROVE TypeOK'
    <2> DEFINE o == worker[w].order
               z == Tick(AfterOrder(w, o), Past(w, o), worker[w].fills)
    <2>1. z \in Ticks
      <3>1. /\ AfterOrder(w, o) \in {"idle", "draining", "answered", "applying"}
            /\ Past(w, o) \in SUBSET Orders
            /\ worker[w].fills \in SUBSET (Orders \X (0..Quantity) \X Nat)
        BY <1>0 DEF AfterOrder, Past, Ticks
      <3> HIDE DEF o
      <3> QED BY <3>1, TickType
    <2>2. worker' = [worker EXCEPT ![w] = z] BY <1>8 DEF Skip
    <2> HIDE DEF z
    <2>3. worker' \in [Workers -> Ticks] BY <1>0, <2>1, <2>2
    <2> QED BY <1>0, <1>8, <2>3, TypePartsNext DEF Skip, money
  <1>9. ASSUME NEW w \in Workers, Apply(w) PROVE TypeOK'
    <2>1. PICK f \in worker[w].fills :
            LET o == f[1]
                s == f[3]
            IN /\ worker' = [worker EXCEPT ![w].fills = @ \ {f}]
               /\ \/ UNCHANGED <<money, faults>>
                  \/ /\ event' = [event EXCEPT ![o][s] = "APPLIED"]
                     /\ booked' = [booked EXCEPT ![o] = @ + f[2]]
                     /\ UNCHANGED faults
                  \/ /\ Fault /\ UNCHANGED booked
                     /\ \E verdict \in {"RETRY", "FAILED"} :
                          event' = [event EXCEPT ![o][s] = verdict]
      BY <1>9 DEF Apply
    <2>2. f[1] \in Orders /\ f[2] \in 0..Quantity BY <1>0 DEF Ticks
    <2> DEFINE y == [worker[w] EXCEPT !.fills = worker[w].fills \ {f}]
    <2>6. worker' = [worker EXCEPT ![w] = y] BY <1>0, <2>1
    <2>7. y \in Ticks BY <1>0, SettledType
    <2> HIDE DEF y
    <2>3. worker' \in [Workers -> Ticks] BY <1>0, <2>6, <2>7
    <2>4. event' \in [Orders -> [Seqs -> {"ABSENT", "RETRY", "FAILED", "APPLIED"}]]
      <3>1. \A v \in {"RETRY", "FAILED", "APPLIED"} :
              [event[f[1]] EXCEPT ![f[3]] = v] \in [Seqs -> {"ABSENT", "RETRY", "FAILED", "APPLIED"}]
        BY <1>0, <2>2
      <3>2. \/ UNCHANGED event
            \/ \E v \in {"RETRY", "FAILED", "APPLIED"} :
                 event' = [event EXCEPT ![f[1]] = [event[f[1]] EXCEPT ![f[3]] = v]]
        BY <2>1 DEF money
      <3> QED BY <1>0, <2>2, <3>1, <3>2
    <2>5. booked' \in [Orders -> Nat] /\ faults' \in 0..MaxFaults
      BY <1>0, <1>f, <2>1, <2>2, QuantityAssumption DEF money
    <2> QED BY <1>0, <1>9, <2>3, <2>4, <2>5, TypePartsNext DEF Apply
  <1>10. ASSUME NEW w \in Workers, EndTick(w) PROVE TypeOK'
    <2>1. /\ worker' \in [Workers -> Ticks] /\ lock' \in [Orders -> Workers \cup {Nobody}]
      BY <1>0, <1>10, <1>r, RestingType DEF EndTick
    <2> QED BY <1>0, <1>10, <2>1, TypePartsNext DEF EndTick, money
  <1>11. ASSUME NEW w \in Workers, Crash(w) PROVE TypeOK'
    <2>1. /\ worker' \in [Workers -> Ticks] /\ lock' \in [Orders -> Workers \cup {Nobody}]
          /\ faults' \in 0..MaxFaults
      BY <1>0, <1>11, <1>r, <1>f, RestingType DEF Crash
    <2> QED BY <1>0, <1>11, <2>1, TypePartsNext DEF Crash, money
  <1>12. UNCHANGED vars => TypeOK'
    BY <1>0, TypePartsNext DEF vars
  <1> QED BY <1>1, <1>2, <1>3, <1>4, <1>5, <1>6, <1>7, <1>8, <1>9, <1>10, <1>11, <1>12
       DEF Next, WorkerStep

-----------------------------------------------------------------------------
(***************************************************************************)
(* What each kind of step changes                                          *)
(***************************************************************************)
\* The parts of IInv beside the types.
NewRowsAreEmpty == \A o \in Orders : row[o].status \in {"ABSENT", "UNKNOWN"} => row[o].filled = 0
RestIsEmpty == \A w \in Workers : worker[w].pc \in {"idle", "applying"} => worker[w].batch = {}
Exclusive == OneWorkerPerOrder /\ BatchesAreGuarded /\ FillsAreSingle /\ BookedIsRecorded

LEMMA InvParts ==
  IInv <=> /\ TypeOK /\ NothingInvented /\ AnswersHold
           /\ NewRowsAreEmpty /\ RestIsEmpty /\ (~SlowBatches => Exclusive)
  BY DEF IInv, NewRowsAreEmpty, RestIsEmpty, Exclusive

LEMMA InvPartsNext ==
  ( /\ TypeOK' /\ NothingInvented' /\ AnswersHold'
    /\ NewRowsAreEmpty' /\ RestIsEmpty' /\ (~SlowBatches => Exclusive') ) => IInv'
  BY DEF IInv, NewRowsAreEmpty, RestIsEmpty, Exclusive

\* A step of the venue or of the clock leaves every tick and its money alone.
LEMMA ClaimLapsesKeeps ==
  ASSUME IInv, TypeOK', NEW o \in Orders, ClaimLapses(o)
  PROVE  IInv'
  <1>0. /\ row \in [Orders -> Rows] /\ worker \in [Workers -> Ticks]
    BY TypeParts DEF IInv
  <1>1. /\ UNCHANGED <<lock, venue, worker, booked>>
        /\ \A x \in Orders : row'[x].status = row[x].status /\ row'[x].filled = row[x].filled
        /\ \A x \in Orders : x # o => row'[x] = row[x]
        /\ ~SlowBatches => \A w \in Workers : o \notin worker[w].batch
    BY <1>0 DEF ClaimLapses, Rows, money
  <1>2. NothingInvented' /\ NewRowsAreEmpty'
    <2>1. NothingInvented /\ NewRowsAreEmpty BY InvParts
    <2>2. venue' = venue BY <1>1
    <2>3. NothingInvented' BY <1>1, <2>1, <2>2 DEF NothingInvented
    <2>4. NewRowsAreEmpty' BY <1>1, <2>1 DEF NewRowsAreEmpty
    <2> QED BY <2>3, <2>4
  <1>3. AnswersHold' /\ RestIsEmpty'
    <2>1. AnswersHold /\ RestIsEmpty BY InvParts
    <2> QED BY <1>1, <2>1 DEF AnswersHold, RestIsEmpty
  <1>4. ASSUME ~SlowBatches PROVE Exclusive'
    <2>1. Exclusive BY <1>4, InvParts
    <2>2. BatchesAreGuarded'
      <3> SUFFICES ASSUME NEW w \in Workers, NEW x \in worker[w].batch
                   PROVE  /\ lock[x] = w \/ (lock[x] = Nobody /\ row'[x].claim = "fresh")
                          /\ row'[x].status = "UNKNOWN" /\ row'[x].filled = 0 /\ booked[x] = 0
        BY <1>1 DEF BatchesAreGuarded
      <3>1. x \in Orders /\ x # o BY <1>0, <1>1, <1>4 DEF Ticks
      <3>2. row'[x] = row[x] BY <1>1, <3>1
      <3> QED BY <2>1, <3>2 DEF Exclusive, BatchesAreGuarded
    <2>3. FillsAreSingle'
      <3> SUFFICES ASSUME NEW w \in Workers, NEW f \in worker[w].fills
                   PROVE  /\ f[2] = row'[f[1]].filled /\ row'[f[1]].status \in {"PARTIAL", "FILLED"}
                          /\ booked[f[1]] = 0
                          /\ \A v \in Workers : \A g \in worker[v].fills :
                               f[1] = g[1] => v = w /\ f = g
        BY <1>1 DEF FillsAreSingle
      <3>1. f[1] \in Orders BY <1>0 DEF Ticks
      <3>2. row'[f[1]].filled = row[f[1]].filled /\ row'[f[1]].status = row[f[1]].status
        BY <1>1, <3>1
      <3> QED BY <2>1, <3>2 DEF Exclusive, FillsAreSingle
    <2>4. OneWorkerPerOrder' /\ BookedIsRecorded'
      BY <1>1, <2>1 DEF Exclusive, OneWorkerPerOrder, BookedIsRecorded
    <2> QED BY <2>2, <2>3, <2>4 DEF Exclusive
  <1> QED BY <1>2, <1>3, <1>4, InvPartsNext

LEMMA VenueKeeps ==
  ASSUME IInv, TypeOK', NEW o \in Orders, VenueFills(o) \/ VenueEnds(o)
  PROVE  IInv'
  <1>0. /\ row \in [Orders -> Rows] /\ worker \in [Workers -> Ticks] /\ venue \in [Orders -> Venues]
    BY TypeParts DEF IInv
  <1>1. /\ UNCHANGED <<row, lock, worker, booked>>
        /\ venue[o].state = "working" /\ venue[o].filled <= venue'[o].filled
        /\ \A x \in Orders : x # o => venue'[x] = venue[x]
    <2>1. CASE VenueFills(o)
      <3>1. PICK n \in 1..(Quantity - venue[o].filled) : venue' = [venue EXCEPT ![o] =
              [state |-> IF venue[o].filled + n = Quantity THEN "filled" ELSE "working",
               filled |-> venue[o].filled + n, seq |-> venue[o].seq + 1]]
        BY <2>1 DEF VenueFills
      <3>2. venue[o].filled <= venue[o].filled + n BY <1>0, <3>1, QuantityAssumption DEF Venues
      <3> QED BY <1>0, <2>1, <3>1, <3>2 DEF VenueFills, money
    <2>2. CASE VenueEnds(o) BY <1>0, <2>2 DEF VenueEnds, money, Venues
    <2> QED BY <2>1, <2>2
  <1>2. NothingInvented'
    <2> SUFFICES ASSUME NEW x \in Orders
                 PROVE  /\ row[x].filled <= venue'[x].filled
                        /\ row[x].status = "FILLED" => venue'[x].state = "filled" /\ row[x].filled = Quantity
                        /\ row[x].status = "CANCELLED" => venue'[x].state = "cancelled"
                        /\ row[x].status = "REJECTED" => venue'[x].state = "rejected"
      BY <1>1 DEF NothingInvented
    <2>1. /\ row[x].filled <= venue[x].filled
          /\ row[x].status = "FILLED" => venue[x].state = "filled" /\ row[x].filled = Quantity
          /\ row[x].status = "CANCELLED" => venue[x].state = "cancelled"
          /\ row[x].status = "REJECTED" => venue[x].state = "rejected"
      BY InvParts DEF NothingInvented
    <2>2. venue'[x].filled \in Nat /\ venue[x].filled \in Nat /\ row[x].filled \in Nat
      BY <1>0, <1>1, TypeParts, QuantityAssumption DEF TypeOK, Rows, Venues
    <2> QED BY <1>1, <2>1, <2>2
  <1>3. AnswersHold'
    <2> SUFFICES ASSUME NEW w \in Workers, worker[w].pc = "answered"
                 PROVE  LET a == worker[w].answer
                            v == venue'[worker[w].order]
                        IN /\ worker[w].order \in worker[w].batch
                           /\ a.filled <= v.filled
                           /\ a.outcome \in {"filled", "cancelled", "rejected"} => v.state = a.outcome
                           /\ a.outcome # "none"
      BY <1>1 DEF AnswersHold
    <2>1. LET a == worker[w].answer
              v == venue[worker[w].order]
          IN /\ worker[w].order \in worker[w].batch
             /\ a.filled <= v.filled
             /\ a.outcome \in {"filled", "cancelled", "rejected"} => v.state = a.outcome
             /\ a.outcome # "none"
      BY InvParts DEF AnswersHold
    <2>2. worker[w].order \in Orders BY <1>0, <2>1 DEF Ticks
    <2>3. /\ venue'[worker[w].order].filled \in Nat /\ venue[worker[w].order].filled \in Nat
          /\ worker[w].answer.filled \in Nat
      BY <1>0, <2>2, QuantityAssumption DEF TypeOK, Ticks, Answers, Venues
    <2> QED BY <1>1, <2>1, <2>2, <2>3
  <1>4. /\ NewRowsAreEmpty' /\ RestIsEmpty' /\ (~SlowBatches => Exclusive')
    BY <1>1, InvParts DEF NewRowsAreEmpty, RestIsEmpty, Exclusive, OneWorkerPerOrder,
         BatchesAreGuarded, FillsAreSingle, BookedIsRecorded
  <1> QED BY <1>2, <1>3, <1>4, InvPartsNext

\* The answer a tick holds is still true of the venue.
AnswerHolds(z) ==
  /\ z.order \in z.batch
  /\ z.answer.filled <= venue[z.order].filled
  /\ z.answer.outcome \in {"filled", "cancelled", "rejected"}
       => venue[z.order].state = z.answer.outcome
  /\ z.answer.outcome # "none"

\* A step of one worker that writes no row and books no money: it may finish with
\* orders and fills, and it may drop its locks once it has finished its batch.
Quiet(w) ==
  /\ UNCHANGED <<row, venue, booked>>
  /\ \A v \in Workers : v # w => worker'[v] = worker[v]
  /\ worker'[w].batch \subseteq worker[w].batch
  /\ worker'[w].fills \subseteq worker[w].fills
  /\ \A x \in Orders : lock'[x] = lock[x] \/ (lock[x] = w /\ worker'[w].batch = {})
  /\ worker'[w].pc \in {"idle", "applying"} => worker'[w].batch = {}
  /\ worker'[w].pc = "answered" => AnswerHolds(worker'[w])

LEMMA QuietTick ==
  ASSUME IInv, TypeOK', NEW w \in Workers, Quiet(w)
  PROVE  IInv'
  <1> USE DEF Quiet
  <1>0. worker \in [Workers -> Ticks] BY TypeParts DEF IInv
  <1>1. NothingInvented' /\ NewRowsAreEmpty'
    BY InvParts DEF NothingInvented, NewRowsAreEmpty
  <1>2. RestIsEmpty' BY InvParts DEF RestIsEmpty
  <1>3. AnswersHold'
    <2> SUFFICES ASSUME NEW u \in Workers, worker'[u].pc = "answered"
                 PROVE  AnswerHolds(worker'[u])
      BY DEF AnswersHold, AnswerHolds
    <2>1. CASE u = w BY <2>1
    <2>2. CASE u # w
      <3>1. worker'[u] = worker[u] BY <2>2
      <3>2. worker[u].pc = "answered" => AnswerHolds(worker[u])
        BY InvParts DEF AnswersHold, AnswerHolds
      <3> QED BY <3>1, <3>2
    <2> QED BY <2>1, <2>2
  <1>4. ASSUME ~SlowBatches PROVE Exclusive'
    <2>1. Exclusive BY <1>4, InvParts
    <2>2. \A v \in Workers : worker'[v].batch \subseteq worker[v].batch
                          /\ worker'[v].fills \subseteq worker[v].fills
      OBVIOUS
    <2>3. OneWorkerPerOrder' BY <2>1, <2>2 DEF Exclusive, OneWorkerPerOrder
    <2>4. BatchesAreGuarded'
      <3> SUFFICES ASSUME NEW v \in Workers, NEW x \in worker'[v].batch
                   PROVE  /\ lock'[x] = v \/ (lock'[x] = Nobody /\ row[x].claim = "fresh")
                          /\ row[x].status = "UNKNOWN" /\ row[x].filled = 0 /\ booked[x] = 0
        BY DEF BatchesAreGuarded
      <3>1. x \in worker[v].batch /\ x \in Orders BY <1>0, <2>2 DEF Ticks
      <3>2. /\ lock[x] = v \/ (lock[x] = Nobody /\ row[x].claim = "fresh")
            /\ row[x].status = "UNKNOWN" /\ row[x].filled = 0 /\ booked[x] = 0
        BY <2>1, <3>1 DEF Exclusive, BatchesAreGuarded
      <3>3. lock'[x] = lock[x]
        <4>1. CASE v = w BY <3>1, <4>1
        <4>2. CASE v # w BY <3>1, <3>2, <4>2, NobodyAssumption
        <4> QED BY <4>1, <4>2
      <3> QED BY <3>2, <3>3
    <2>5. FillsAreSingle' BY <2>1, <2>2 DEF Exclusive, FillsAreSingle
    <2>6. BookedIsRecorded' BY <2>1 DEF Exclusive, BookedIsRecorded
    <2> QED BY <2>3, <2>4, <2>5, <2>6 DEF Exclusive
  <1> QED BY <1>1, <1>2, <1>3, <1>4, InvPartsNext

LEMMA QueryKeeps ==
  ASSUME IInv, TypeOK', NEW w \in Workers, NEW o \in Orders, Query(w, o)
  PROVE  IInv'
  <1>0. /\ worker \in [Workers -> Ticks] /\ venue \in [Orders -> Venues]
    BY TypeParts DEF IInv
  <1> DEFINE truth == [outcome |-> Outcome(venue[o]), filled |-> venue[o].filled,
                       seq |-> venue[o].seq]
  <1>1. PICK a \in {Unavailable, truth, [truth EXCEPT !.filled = 0]} :
          worker' = [worker EXCEPT ![w].pc = "answered", ![w].order = o, ![w].answer = a]
    BY DEF Query
  <1>2. /\ a \in Answers /\ a.filled <= venue[o].filled /\ a.outcome # "none"
        /\ a.outcome \in {"filled", "cancelled", "rejected"} => venue[o].state = a.outcome
    <2>1. /\ venue[o].filled \in 0..Quantity /\ venue[o].seq \in Nat
          /\ Outcome(venue[o]) \in {"working", "partial", "filled", "cancelled", "rejected"}
          /\ Outcome(venue[o]) \in {"filled", "cancelled", "rejected"}
               => venue[o].state = Outcome(venue[o])
      BY <1>0 DEF Venues, Outcome
    <2>2. CASE a = Unavailable BY <2>1, <2>2, QuantityAssumption DEF Unavailable, Answers
    <2>3. CASE a = truth BY <2>1, <2>3, QuantityAssumption DEF Answers
    <2>4. CASE a = [truth EXCEPT !.filled = 0] BY <2>1, <2>4, QuantityAssumption DEF Answers
    <2> QED BY <1>1, <2>2, <2>3, <2>4
  <1> DEFINE y == [worker[w] EXCEPT !.pc = "answered", !.order = o, !.answer = a]
  <1>3. worker' = [worker EXCEPT ![w] = y] BY <1>0, <1>1
  <1>4. /\ y.pc = "answered" /\ y.order = o /\ y.answer = a
        /\ y.batch = worker[w].batch /\ y.fills = worker[w].fills
    <2>1. worker[w] \in Ticks /\ a \in Answers BY <1>0, <1>2
    <2> HIDE DEF truth
    <2> QED BY ONLY <2>1 DEF Ticks
  <1> HIDE DEF y, truth
  <1>5. worker'[w] = y /\ \A v \in Workers : v # w => worker'[v] = worker[v]
    BY <1>0, <1>3
  <1>6. UNCHANGED <<row, lock, venue, booked>> /\ o \in worker[w].batch BY DEF Query, money
  <1>7. AnswerHolds(worker'[w]) BY <1>2, <1>4, <1>5, <1>6 DEF AnswerHolds
  <1>8. Quiet(w) BY <1>4, <1>5, <1>6, <1>7 DEF Quiet
  <1> QED BY <1>8, QuietTick

LEMMA SkipKeeps ==
  ASSUME IInv, TypeOK', NEW w \in Workers, Skip(w)
  PROVE  IInv'
  <1>0. worker \in [Workers -> Ticks] BY TypeParts DEF IInv
  <1> DEFINE o == worker[w].order
             z == Tick(AfterOrder(w, o), Past(w, o), worker[w].fills)
  <1>1. worker' = [worker EXCEPT ![w] = z] BY DEF Skip
  <1>2. /\ z.pc = AfterOrder(w, o) /\ z.batch = Past(w, o) /\ z.fills = worker[w].fills
        /\ z.pc \in {"applying", "draining"} /\ (z.pc = "applying" => z.batch = {})
    BY DEF Tick, AfterOrder
  <1>3. Past(w, o) \subseteq worker[w].batch BY DEF Past
  <1> HIDE DEF z
  <1>4. worker'[w] = z /\ \A v \in Workers : v # w => worker'[v] = worker[v]
    BY <1>0, <1>1
  <1>5. UNCHANGED <<row, lock, venue, booked>> BY DEF Skip, money
  <1>6. Quiet(w) BY <1>2, <1>3, <1>4, <1>5 DEF Quiet
  <1> QED BY <1>6, QuietTick

LEMMA StopKeeps ==
  ASSUME IInv, TypeOK', NEW w \in Workers, EndTick(w) \/ Crash(w)
  PROVE  IInv'
  <1>0. worker \in [Workers -> Ticks] /\ lock \in [Orders -> Workers \cup {Nobody}]
    BY TypeParts DEF IInv
  <1>1. /\ worker' = [worker EXCEPT ![w] = Resting] /\ lock' = ReleasedBy(w)
        /\ UNCHANGED <<row, venue, booked>>
    BY DEF EndTick, Crash, money
  <1>2. worker'[w] = Resting /\ \A v \in Workers : v # w => worker'[v] = worker[v]
    BY <1>0, <1>1
  <1>3. \A x \in Orders : lock'[x] = lock[x] \/ lock[x] = w
    BY <1>0, <1>1 DEF ReleasedBy
  <1>4. Quiet(w) BY <1>1, <1>2, <1>3, RestingType DEF Quiet
  <1> QED BY <1>4, QuietTick

-----------------------------------------------------------------------------
(***************************************************************************)
(* The steps that change rows, claims or money                             *)
(***************************************************************************)
LEMMA SubmitKeeps ==
  ASSUME IInv, TypeOK', NEW o \in Orders, Submit(o)
  PROVE  IInv'
  <1>0. row \in [Orders -> Rows] /\ worker \in [Workers -> Ticks] /\ booked \in [Orders -> Nat]
    BY TypeParts DEF IInv
  <1>v. venue \in [Orders -> Venues] BY TypeParts DEF IInv
  <1>1. /\ UNCHANGED <<lock, venue, worker, booked>> /\ row[o].status = "ABSENT"
        /\ row'[o].status = "UNKNOWN" /\ row'[o].filled = 0
        /\ \A x \in Orders : x # o => row'[x] = row[x]
    <2>1. PICK b \in BOOLEAN : row' = [row EXCEPT ![o] =
            [status |-> "UNKNOWN", filled |-> 0, bound |-> b, claim |-> "none"]]
      BY DEF Submit
    <2> QED BY <1>0, <2>1 DEF Submit, money
  <1>2. NothingInvented' /\ NewRowsAreEmpty'
    <2>1. NothingInvented /\ NewRowsAreEmpty BY InvParts
    <2>2. venue[o].filled >= 0 BY <1>v, QuantityAssumption DEF Venues
    <2>3. NothingInvented'
      <3> SUFFICES ASSUME NEW x \in Orders
                   PROVE  /\ row'[x].filled <= venue[x].filled
                          /\ row'[x].status = "FILLED" => venue[x].state = "filled" /\ row'[x].filled = Quantity
                          /\ row'[x].status = "CANCELLED" => venue[x].state = "cancelled"
                          /\ row'[x].status = "REJECTED" => venue[x].state = "rejected"
        BY <1>1 DEF NothingInvented
      <3>1. CASE x = o BY <1>1, <2>2, <3>1
      <3>2. CASE x # o BY <1>1, <2>1, <3>2 DEF NothingInvented
      <3> QED BY <3>1, <3>2
    <2>4. NewRowsAreEmpty'
      <3> SUFFICES ASSUME NEW x \in Orders, row'[x].status \in {"ABSENT", "UNKNOWN"}
                   PROVE  row'[x].filled = 0
        BY DEF NewRowsAreEmpty
      <3>1. CASE x = o BY <1>1, <3>1
      <3>2. CASE x # o BY <1>1, <2>1, <3>2 DEF NewRowsAreEmpty
      <3> QED BY <3>1, <3>2
    <2> QED BY <2>3, <2>4
  <1>3. AnswersHold' /\ RestIsEmpty' BY <1>1, InvParts DEF AnswersHold, RestIsEmpty
  <1>4. ASSUME ~SlowBatches PROVE Exclusive'
    <2>1. Exclusive /\ NewRowsAreEmpty BY <1>4, InvParts
    <2>2. BatchesAreGuarded'
      <3> SUFFICES ASSUME NEW w \in Workers, NEW x \in worker[w].batch
                   PROVE  /\ lock[x] = w \/ (lock[x] = Nobody /\ row'[x].claim = "fresh")
                          /\ row'[x].status = "UNKNOWN" /\ row'[x].filled = 0 /\ booked[x] = 0
        BY <1>1 DEF BatchesAreGuarded
      <3>1. x \in Orders BY <1>0 DEF Ticks
      <3>2. x # o BY <1>1, <2>1 DEF Exclusive, BatchesAreGuarded
      <3> QED BY <1>1, <2>1, <3>1, <3>2 DEF Exclusive, BatchesAreGuarded
    <2>3. FillsAreSingle'
      <3> SUFFICES ASSUME NEW w \in Workers, NEW f \in worker[w].fills
                   PROVE  /\ f[2] = row'[f[1]].filled /\ row'[f[1]].status \in {"PARTIAL", "FILLED"}
                          /\ booked[f[1]] = 0
                          /\ \A v \in Workers : \A g \in worker[v].fills :
                               f[1] = g[1] => v = w /\ f = g
        BY <1>1 DEF FillsAreSingle
      <3>1. f[1] \in Orders BY <1>0 DEF Ticks
      <3>2. f[1] # o BY <1>1, <2>1 DEF Exclusive, FillsAreSingle
      <3> QED BY <1>1, <2>1, <3>1, <3>2 DEF Exclusive, FillsAreSingle
    <2>4. BookedIsRecorded'
      <3> SUFFICES ASSUME NEW x \in Orders PROVE booked[x] <= row'[x].filled
        BY <1>1 DEF BookedIsRecorded
      <3>1. booked[x] <= row[x].filled BY <2>1 DEF Exclusive, BookedIsRecorded
      <3>2. CASE x = o BY <1>0, <1>1, <2>1, <3>1, <3>2 DEF NewRowsAreEmpty
      <3>3. CASE x # o BY <1>1, <3>1, <3>3
      <3> QED BY <3>2, <3>3
    <2>5. OneWorkerPerOrder' BY <1>1, <2>1 DEF Exclusive, OneWorkerPerOrder
    <2> QED BY <2>2, <2>3, <2>4, <2>5 DEF Exclusive
  <1> QED BY <1>2, <1>3, <1>4, InvPartsNext

LEMMA ClaimKeeps ==
  ASSUME IInv, TypeOK', NEW w \in Workers, Claim(w)
  PROVE  IInv'
  <1>0. /\ row \in [Orders -> Rows] /\ worker \in [Workers -> Ticks] /\ booked \in [Orders -> Nat]
        /\ lock \in [Orders -> Workers \cup {Nobody}]
    BY TypeParts DEF IInv
  <1> DEFINE batch == {o \in Orders : Claimable(o)}
             z == Tick("draining", batch, {})
  <1>1. worker' = [worker EXCEPT ![w] = z] BY DEF Claim
  <1>2. z.pc = "draining" /\ z.batch = batch /\ z.fills = {} BY DEF Tick
  <1> HIDE DEF z
  <1>3. worker'[w] = z /\ \A v \in Workers : v # w => worker'[v] = worker[v]
    BY <1>0, <1>1
  <1>4. /\ UNCHANGED <<row, venue, booked>>
        /\ \A x \in Orders : lock'[x] = IF x \in batch THEN w ELSE lock[x]
    BY DEF Claim, money
  <1>5. \A x \in batch : /\ x \in Orders /\ lock[x] = Nobody /\ row[x].claim # "fresh"
                         /\ row[x].status = "UNKNOWN"
    BY DEF Claimable
  <1> HIDE DEF batch
  <1>6. NothingInvented' /\ NewRowsAreEmpty'
    BY <1>4, InvParts DEF NothingInvented, NewRowsAreEmpty
  <1>7. AnswersHold' /\ RestIsEmpty'
    <2>1. AnswersHold'
      <3> SUFFICES ASSUME NEW u \in Workers, worker'[u].pc = "answered"
                   PROVE  AnswerHolds(worker'[u])
        BY <1>4 DEF AnswersHold, AnswerHolds
      <3>1. u # w BY <1>2, <1>3
      <3>2. worker'[u] = worker[u] BY <1>3, <3>1
      <3>3. worker[u].pc = "answered" => AnswerHolds(worker[u])
        BY InvParts DEF AnswersHold, AnswerHolds
      <3> QED BY <3>2, <3>3
    <2>2. RestIsEmpty' BY <1>2, <1>3, InvParts DEF RestIsEmpty
    <2> QED BY <2>1, <2>2
  <1>8. ASSUME ~SlowBatches PROVE Exclusive'
    <2>1. Exclusive /\ NewRowsAreEmpty BY <1>8, InvParts
    <2>2. ASSUME NEW v \in Workers, NEW x \in worker[v].batch
          PROVE  x \notin batch /\ x \in Orders
      BY <1>0, <1>5, <2>1, NobodyAssumption DEF Exclusive, BatchesAreGuarded, Ticks
    <2>3. OneWorkerPerOrder'
      <3> SUFFICES ASSUME NEW x \in Orders, NEW u \in Workers, NEW v \in Workers,
                          x \in worker'[u].batch, x \in worker'[v].batch
                   PROVE  u = v
        BY DEF OneWorkerPerOrder
      <3>1. CASE u # w /\ v # w
        BY <1>3, <2>1, <3>1 DEF Exclusive, OneWorkerPerOrder
      <3>2. CASE u = w /\ v # w BY <1>2, <1>3, <2>2, <3>2
      <3>3. CASE u # w /\ v = w BY <1>2, <1>3, <2>2, <3>3
      <3> QED BY <3>1, <3>2, <3>3
    <2>4. BatchesAreGuarded'
      <3> SUFFICES ASSUME NEW v \in Workers, NEW x \in worker'[v].batch
                   PROVE  /\ lock'[x] = v \/ (lock'[x] = Nobody /\ row[x].claim = "fresh")
                          /\ row[x].status = "UNKNOWN" /\ row[x].filled = 0 /\ booked[x] = 0
        BY <1>4 DEF BatchesAreGuarded
      <3>1. CASE v = w
        <4>1. x \in batch /\ x \in Orders BY <1>2, <1>3, <1>5, <3>1
        <4>2. row[x].status = "UNKNOWN" /\ row[x].filled = 0 /\ lock'[x] = v
          BY <1>4, <1>5, <2>1, <3>1, <4>1 DEF NewRowsAreEmpty
        <4>3. booked[x] <= row[x].filled /\ booked[x] \in Nat
          BY <1>0, <2>1, <4>1 DEF Exclusive, BookedIsRecorded
        <4> QED BY <4>2, <4>3
      <3>2. CASE v # w
        <4>1. x \in worker[v].batch BY <1>3, <3>2
        <4> QED BY <1>4, <2>1, <2>2, <4>1 DEF Exclusive, BatchesAreGuarded
      <3> QED BY <3>1, <3>2
    <2>5. FillsAreSingle'
      <3>1. \A v \in Workers : worker'[v].fills \subseteq worker[v].fills BY <1>2, <1>3
      <3> QED BY <1>4, <2>1, <3>1 DEF Exclusive, FillsAreSingle
    <2>6. BookedIsRecorded' BY <1>4, <2>1 DEF Exclusive, BookedIsRecorded
    <2> QED BY <2>3, <2>4, <2>5, <2>6 DEF Exclusive
  <1> QED BY <1>6, <1>7, <1>8, InvPartsNext

\* What a put writes: the answer, which is still true, and the claims of its batch.
LEMMA PutWrites ==
  ASSUME IInv, NEW w \in Workers, Put(w),
         NEW o, o = worker[w].order, NEW a, a = worker[w].answer
  PROVE  /\ o \in worker[w].batch /\ o \in Orders /\ a \in Answers
         /\ a.filled <= venue[o].filled /\ a.outcome # "none"
         /\ a.outcome \in {"filled", "cancelled", "rejected"} => venue[o].state = a.outcome
         /\ Legal(a)
         /\ lock' = ReleasedBy(w) /\ UNCHANGED <<venue, booked>>
         /\ row'[o].status = Target(a)
         /\ row'[o].filled = IF IsFill(a) THEN a.filled ELSE 0
         /\ \A x \in Orders : x # o =>
              /\ row'[x].status = row[x].status /\ row'[x].filled = row[x].filled
              /\ row'[x].claim = IF lock[x] = w THEN "fresh" ELSE row[x].claim
         /\ Target(a) \in {"UNKNOWN", "WORKING", "PARTIAL", "FILLED", "REJECTED", "CANCELLED"}
         /\ Target(a) = "UNKNOWN" <=> a.outcome = "unavailable"
         /\ Target(a) = "PARTIAL" <=> a.outcome = "partial"
         /\ Target(a) = "FILLED" <=> a.outcome = "filled"
         /\ Target(a) = "CANCELLED" <=> a.outcome = "cancelled"
         /\ Target(a) = "REJECTED" <=> a.outcome = "rejected"
  <1>0. row \in [Orders -> Rows] /\ worker \in [Workers -> Ticks]
    BY TypeParts DEF IInv
  <1>3. /\ o \in worker[w].batch /\ o \in Orders /\ a \in Answers
        /\ a.filled <= venue[o].filled /\ a.outcome # "none"
        /\ a.outcome \in {"filled", "cancelled", "rejected"} => venue[o].state = a.outcome
        /\ Legal(a)
    <2>1. worker[w].pc = "answered" /\ Legal(a) BY DEF Put
    <2>2. worker[w] \in Ticks BY <1>0
    <2> QED BY <2>1, <2>2, InvParts DEF AnswersHold, Ticks
  <1>4. /\ row' = [Published(w) EXCEPT ![o] = Written(Published(w)[o], a)]
        /\ lock' = ReleasedBy(w) /\ UNCHANGED <<venue, booked>>
    BY DEF Put, money
  <1>6. \A x \in Orders :
          /\ Published(w)[x] \in Rows
          /\ Published(w)[x].status = row[x].status /\ Published(w)[x].filled = row[x].filled
          /\ Published(w)[x].claim = IF lock[x] = w THEN "fresh" ELSE row[x].claim
    <2> SUFFICES ASSUME NEW x \in Orders, NEW y,
                        y = [row[x] EXCEPT !.claim = IF lock[x] = w THEN "fresh" ELSE row[x].claim]
                 PROVE  /\ y \in Rows /\ y.status = row[x].status /\ y.filled = row[x].filled
                        /\ y.claim = IF lock[x] = w THEN "fresh" ELSE row[x].claim
      BY DEF Published
    <2> QED BY <1>0 DEF Rows
  <1>7. /\ row'[o].status = Target(a)
        /\ row'[o].filled = IF IsFill(a) THEN a.filled ELSE 0
        /\ \A x \in Orders : x # o =>
             /\ row'[x].status = row[x].status /\ row'[x].filled = row[x].filled
             /\ row'[x].claim = IF lock[x] = w THEN "fresh" ELSE row[x].claim
    <2>1. DOMAIN Published(w) = Orders BY DEF Published
    <2>2. row'[o] = Written(Published(w)[o], a) BY <1>3, <1>4, <2>1
    <2>3. \A x \in Orders : x # o => row'[x] = Published(w)[x] BY <1>4, <2>1
    <2> QED BY <1>3, <1>6, <2>2, <2>3, WrittenType
  <1>8. /\ Target(a) \in {"UNKNOWN", "WORKING", "PARTIAL", "FILLED", "REJECTED", "CANCELLED"}
        /\ Target(a) = "UNKNOWN" <=> a.outcome = "unavailable"
        /\ Target(a) = "PARTIAL" <=> a.outcome = "partial"
        /\ Target(a) = "FILLED" <=> a.outcome = "filled"
        /\ Target(a) = "CANCELLED" <=> a.outcome = "cancelled"
        /\ Target(a) = "REJECTED" <=> a.outcome = "rejected"
    BY <1>0, <1>3, WrittenType
  <1> QED BY <1>3, <1>4, <1>7, <1>8

LEMMA PutKeeps ==
  ASSUME IInv, TypeOK', NEW w \in Workers, Put(w)
  PROVE  IInv'
  <1>0. /\ row \in [Orders -> Rows] /\ worker \in [Workers -> Ticks] /\ booked \in [Orders -> Nat]
        /\ lock \in [Orders -> Workers \cup {Nobody}] /\ venue \in [Orders -> Venues]
    BY TypeParts DEF IInv
  <1> DEFINE o == worker[w].order
             a == worker[w].answer
             new == worker[w].fills \cup IF IsFill(a) THEN {<<o, a.filled, a.seq>>} ELSE {}
             z == Tick(AfterOrder(w, o), Past(w, o), new)
  <1>1. worker' = [worker EXCEPT ![w] = z] BY DEF Put
  <1>2. /\ z.pc = AfterOrder(w, o) /\ z.batch = Past(w, o) /\ z.fills = new
        /\ z.pc \in {"applying", "draining"} /\ (z.pc = "applying" => z.batch = {})
    BY DEF Tick, AfterOrder
  <1>3. /\ o \in worker[w].batch /\ o \in Orders /\ a \in Answers
        /\ a.filled <= venue[o].filled /\ a.outcome # "none"
        /\ a.outcome \in {"filled", "cancelled", "rejected"} => venue[o].state = a.outcome
        /\ Legal(a)
        /\ lock' = ReleasedBy(w) /\ UNCHANGED <<venue, booked>>
        /\ row'[o].status = Target(a)
        /\ row'[o].filled = IF IsFill(a) THEN a.filled ELSE 0
        /\ \A x \in Orders : x # o =>
             /\ row'[x].status = row[x].status /\ row'[x].filled = row[x].filled
             /\ row'[x].claim = IF lock[x] = w THEN "fresh" ELSE row[x].claim
        /\ Target(a) \in {"UNKNOWN", "WORKING", "PARTIAL", "FILLED", "REJECTED", "CANCELLED"}
        /\ Target(a) = "UNKNOWN" <=> a.outcome = "unavailable"
        /\ Target(a) = "PARTIAL" <=> a.outcome = "partial"
        /\ Target(a) = "FILLED" <=> a.outcome = "filled"
        /\ Target(a) = "CANCELLED" <=> a.outcome = "cancelled"
        /\ Target(a) = "REJECTED" <=> a.outcome = "rejected"
    BY PutWrites
  <1> HIDE DEF z, a, o
  <1>5. worker'[w] = z /\ \A v \in Workers : v # w => worker'[v] = worker[v]
    BY <1>0, <1>1
  <1>9. NothingInvented'
    <2> SUFFICES ASSUME NEW x \in Orders
                 PROVE  /\ row'[x].filled <= venue[x].filled
                        /\ row'[x].status = "FILLED" => venue[x].state = "filled" /\ row'[x].filled = Quantity
                        /\ row'[x].status = "CANCELLED" => venue[x].state = "cancelled"
                        /\ row'[x].status = "REJECTED" => venue[x].state = "rejected"
      BY <1>3 DEF NothingInvented
    <2>1. CASE x = o
      <3>1. venue[o].filled >= 0 BY <1>0, <1>3, QuantityAssumption DEF Venues
      <3>2. row'[o].filled <= venue[o].filled BY <1>3, <3>1
      <3>3. row'[o].status = "FILLED" => venue[o].state = "filled" /\ row'[o].filled = Quantity
        BY <1>3 DEF Legal, IsFill
      <3>4. /\ row'[o].status = "CANCELLED" => venue[o].state = "cancelled"
            /\ row'[o].status = "REJECTED" => venue[o].state = "rejected"
        BY <1>3
      <3> QED BY <2>1, <3>2, <3>3, <3>4
    <2>2. CASE x # o
      <3>1. row'[x].status = row[x].status /\ row'[x].filled = row[x].filled BY <1>3, <2>2
      <3> QED BY <3>1, InvParts DEF NothingInvented
    <2> QED BY <2>1, <2>2
  <1>10. NewRowsAreEmpty'
    <2> SUFFICES ASSUME NEW x \in Orders, row'[x].status \in {"ABSENT", "UNKNOWN"}
                 PROVE  row'[x].filled = 0
      BY DEF NewRowsAreEmpty
    <2>1. CASE x = o BY <1>3, <2>1 DEF IsFill
    <2>2. CASE x # o BY <1>3, <2>2, InvParts DEF NewRowsAreEmpty
    <2> QED BY <2>1, <2>2
  <1>11. AnswersHold' /\ RestIsEmpty'
    <2>1. AnswersHold'
      <3> SUFFICES ASSUME NEW u \in Workers, worker'[u].pc = "answered"
                   PROVE  AnswerHolds(worker'[u])
        BY <1>3 DEF AnswersHold, AnswerHolds
      <3>1. u # w BY <1>2, <1>5
      <3>2. worker'[u] = worker[u] BY <1>5, <3>1
      <3>3. worker[u].pc = "answered" => AnswerHolds(worker[u])
        BY InvParts DEF AnswersHold, AnswerHolds
      <3> QED BY <3>2, <3>3
    <2>2. RestIsEmpty' BY <1>2, <1>5, InvParts DEF RestIsEmpty
    <2> QED BY <2>1, <2>2
  <1>12. ASSUME ~SlowBatches PROVE Exclusive'
    <2>1. Exclusive BY <1>12, InvParts
    <2>2. \A v \in Workers : /\ worker'[v].batch \subseteq worker[v].batch
                             /\ o \notin worker'[v].batch
      <3>1. o \notin worker'[w].batch /\ worker'[w].batch \subseteq worker[w].batch
        BY <1>2, <1>5 DEF Past
      <3>2. \A v \in Workers : v # w => o \notin worker[v].batch
        BY <1>3, <2>1 DEF Exclusive, OneWorkerPerOrder
      <3> QED BY <1>5, <3>1, <3>2
    <2>3. OneWorkerPerOrder' BY <2>1, <2>2 DEF Exclusive, OneWorkerPerOrder
    <2>4. BatchesAreGuarded'
      <3> SUFFICES ASSUME NEW v \in Workers, NEW x \in worker'[v].batch
                   PROVE  /\ lock'[x] = v \/ (lock'[x] = Nobody /\ row'[x].claim = "fresh")
                          /\ row'[x].status = "UNKNOWN" /\ row'[x].filled = 0 /\ booked[x] = 0
        BY <1>3 DEF BatchesAreGuarded
      <3>1. x \in worker[v].batch /\ x # o BY <2>2
      <3>2. x \in Orders BY <1>0, <3>1 DEF Ticks
      <3>3. /\ lock[x] = v \/ (lock[x] = Nobody /\ row[x].claim = "fresh")
            /\ row[x].status = "UNKNOWN" /\ row[x].filled = 0 /\ booked[x] = 0
        BY <2>1, <3>1 DEF Exclusive, BatchesAreGuarded
      <3>4. lock'[x] = IF lock[x] = w THEN Nobody ELSE lock[x] BY <1>3, <3>2 DEF ReleasedBy
      <3>5. /\ row'[x].status = row[x].status /\ row'[x].filled = row[x].filled
            /\ row'[x].claim = IF lock[x] = w THEN "fresh" ELSE row[x].claim
        BY <1>3, <3>1, <3>2
      <3> QED BY <3>3, <3>4, <3>5
    <2>5. row[o].status = "UNKNOWN" /\ booked[o] = 0
      BY <1>3, <2>1 DEF Exclusive, BatchesAreGuarded
    <2>6. \A v \in Workers : \A f \in worker[v].fills :
            /\ f[1] \in Orders /\ f[1] # o
            /\ f[2] = row'[f[1]].filled /\ row'[f[1]].status \in {"PARTIAL", "FILLED"}
            /\ booked[f[1]] = 0
      <3> SUFFICES ASSUME NEW v \in Workers, NEW f \in worker[v].fills
                   PROVE  /\ f[1] \in Orders /\ f[1] # o
                          /\ f[2] = row'[f[1]].filled /\ row'[f[1]].status \in {"PARTIAL", "FILLED"}
                          /\ booked[f[1]] = 0
        OBVIOUS
      <3>1. f[1] \in Orders BY <1>0 DEF Ticks
      <3>2. /\ f[2] = row[f[1]].filled /\ row[f[1]].status \in {"PARTIAL", "FILLED"}
            /\ booked[f[1]] = 0
        BY <2>1 DEF Exclusive, FillsAreSingle
      <3>3. f[1] # o BY <2>5, <3>2
      <3>4. row'[f[1]].status = row[f[1]].status /\ row'[f[1]].filled = row[f[1]].filled
        BY <1>3, <3>1, <3>3
      <3> QED BY <3>1, <3>2, <3>3, <3>4
    <2>7. \A v \in Workers : \A f \in worker'[v].fills :
            f \in worker[v].fills \/ (v = w /\ IsFill(a) /\ f = <<o, a.filled, a.seq>>)
      BY <1>2, <1>5
    <2>8. FillsAreSingle'
      <3> SUFFICES ASSUME NEW u \in Workers, NEW f \in worker'[u].fills
                   PROVE  /\ f[2] = row'[f[1]].filled /\ row'[f[1]].status \in {"PARTIAL", "FILLED"}
                          /\ booked[f[1]] = 0
                          /\ \A v \in Workers : \A g \in worker'[v].fills :
                               f[1] = g[1] => v = u /\ f = g
        BY <1>3 DEF FillsAreSingle
      <3>1. CASE f \in worker[u].fills
        <4>1. ASSUME NEW v \in Workers, NEW g \in worker'[v].fills, f[1] = g[1]
              PROVE  v = u /\ f = g
          <5>1. f[1] # o BY <2>6, <3>1
          <5>2. g \in worker[v].fills BY <2>7, <4>1, <5>1
          <5> QED BY <2>1, <3>1, <4>1, <5>2 DEF Exclusive, FillsAreSingle
        <4> QED BY <2>6, <3>1, <4>1
      <3>2. CASE u = w /\ IsFill(a) /\ f = <<o, a.filled, a.seq>>
        <4>1. f[1] = o /\ f[2] = a.filled BY <3>2
        <4>2. f[2] = row'[f[1]].filled /\ booked[f[1]] = 0 BY <1>3, <2>5, <3>2, <4>1
        <4>3. row'[f[1]].status \in {"PARTIAL", "FILLED"} BY <1>3, <3>2, <4>1 DEF IsFill
        <4>4. ASSUME NEW v \in Workers, NEW g \in worker'[v].fills, f[1] = g[1]
              PROVE  v = u /\ f = g
          BY <2>6, <2>7, <3>2, <4>1, <4>4
        <4> QED BY <4>2, <4>3, <4>4
      <3> QED BY <2>7, <3>1, <3>2
    <2>9. BookedIsRecorded'
      <3> SUFFICES ASSUME NEW x \in Orders PROVE booked[x] <= row'[x].filled
        BY <1>3 DEF BookedIsRecorded
      <3>1. CASE x = o
        <4>1. row'[o].filled \in Nat BY <1>3, QuantityAssumption DEF Answers
        <4> QED BY <2>5, <3>1, <4>1
      <3>2. CASE x # o
        BY <1>3, <2>1, <3>2 DEF Exclusive, BookedIsRecorded
      <3> QED BY <3>1, <3>2
    <2> QED BY <2>3, <2>4, <2>8, <2>9 DEF Exclusive
  <1> QED BY <1>9, <1>10, <1>11, <1>12, InvPartsNext

LEMMA ApplyKeeps ==
  ASSUME IInv, TypeOK', NEW w \in Workers, Apply(w)
  PROVE  IInv'
  <1>0. /\ worker \in [Workers -> Ticks] /\ booked \in [Orders -> Nat] /\ row \in [Orders -> Rows]
    BY TypeParts DEF IInv
  <1>1. PICK f \in worker[w].fills :
          /\ worker' = [worker EXCEPT ![w].fills = @ \ {f}]
          /\ booked' = booked \/ booked' = [booked EXCEPT ![f[1]] = booked[f[1]] + f[2]]
    BY DEF Apply, money
  <1>2. f[1] \in Orders /\ f[2] \in Nat BY <1>0, QuantityAssumption DEF Ticks
  <1> DEFINE y == [worker[w] EXCEPT !.fills = worker[w].fills \ {f}]
  <1>3. worker' = [worker EXCEPT ![w] = y] BY <1>0, <1>1
  <1>4. /\ y.pc = worker[w].pc /\ y.order = worker[w].order /\ y.answer = worker[w].answer
        /\ y.batch = worker[w].batch /\ y.fills = worker[w].fills \ {f}
    BY <1>0 DEF Ticks
  <1> HIDE DEF y
  <1>5. worker'[w] = y /\ \A v \in Workers : v # w => worker'[v] = worker[v]
    BY <1>0, <1>3
  <1>6. worker[w].pc = "applying" /\ UNCHANGED <<row, lock, venue>> BY DEF Apply
  <1>7. NothingInvented' /\ NewRowsAreEmpty'
    BY <1>6, InvParts DEF NothingInvented, NewRowsAreEmpty
  <1>8. AnswersHold' /\ RestIsEmpty'
    <2>1. \A u \in Workers : worker'[u].pc = worker[u].pc /\ worker'[u].batch = worker[u].batch
      BY <1>4, <1>5
    <2>2. AnswersHold'
      <3> SUFFICES ASSUME NEW u \in Workers, worker'[u].pc = "answered"
                   PROVE  AnswerHolds(worker'[u])
        BY <1>6 DEF AnswersHold, AnswerHolds
      <3>1. u # w BY <1>4, <1>5, <1>6
      <3>2. worker'[u] = worker[u] BY <1>5, <3>1
      <3>3. worker[u].pc = "answered" => AnswerHolds(worker[u])
        BY InvParts DEF AnswersHold, AnswerHolds
      <3> QED BY <3>2, <3>3
    <2>3. RestIsEmpty' BY <2>1, InvParts DEF RestIsEmpty
    <2> QED BY <2>2, <2>3
  <1>9. ASSUME ~SlowBatches PROVE Exclusive'
    <2>1. Exclusive BY <1>9, InvParts
    <2>2. /\ f[2] = row[f[1]].filled /\ row[f[1]].status \in {"PARTIAL", "FILLED"} /\ booked[f[1]] = 0
          /\ \A v \in Workers : \A g \in worker[v].fills : f[1] = g[1] => v = w /\ f = g
      BY <1>1, <2>1 DEF Exclusive, FillsAreSingle
    <2>3. /\ \A x \in Orders : x # f[1] => booked'[x] = booked[x]
          /\ booked'[f[1]] = 0 \/ booked'[f[1]] = f[2]
      BY <1>0, <1>1, <1>2, <2>2
    <2>4. \A v \in Workers : /\ worker'[v].batch = worker[v].batch
                             /\ worker'[v].fills \subseteq worker[v].fills
                             /\ f \notin worker'[v].fills
      BY <1>1, <1>4, <1>5, <2>2
    <2>5. OneWorkerPerOrder' BY <2>1, <2>4 DEF Exclusive, OneWorkerPerOrder
    <2>6. BatchesAreGuarded'
      <3> SUFFICES ASSUME NEW v \in Workers, NEW x \in worker'[v].batch
                   PROVE  /\ lock[x] = v \/ (lock[x] = Nobody /\ row[x].claim = "fresh")
                          /\ row[x].status = "UNKNOWN" /\ row[x].filled = 0 /\ booked'[x] = 0
        BY <1>6 DEF BatchesAreGuarded
      <3>1. x \in worker[v].batch BY <2>4
      <3>2. x \in Orders BY <1>0, <3>1 DEF Ticks
      <3>3. /\ lock[x] = v \/ (lock[x] = Nobody /\ row[x].claim = "fresh")
            /\ row[x].status = "UNKNOWN" /\ row[x].filled = 0 /\ booked[x] = 0
        BY <2>1, <3>1 DEF Exclusive, BatchesAreGuarded
      <3>4. x # f[1] BY <2>2, <3>3
      <3> QED BY <2>3, <3>2, <3>3, <3>4
    <2>7. FillsAreSingle'
      <3> SUFFICES ASSUME NEW u \in Workers, NEW g \in worker'[u].fills
                   PROVE  /\ g[2] = row[g[1]].filled /\ row[g[1]].status \in {"PARTIAL", "FILLED"}
                          /\ booked'[g[1]] = 0
                          /\ \A v \in Workers : \A h \in worker'[v].fills :
                               g[1] = h[1] => v = u /\ g = h
        BY <1>6 DEF FillsAreSingle
      <3>1. g \in worker[u].fills /\ g # f BY <2>4
      <3>2. g[1] \in Orders BY <1>0, <3>1 DEF Ticks
      <3>3. g[1] # f[1] BY <2>2, <3>1
      <3>4. booked'[g[1]] = booked[g[1]] BY <2>3, <3>2, <3>3
      <3> QED BY <2>1, <2>4, <3>1, <3>4 DEF Exclusive, FillsAreSingle
    <2>8. BookedIsRecorded'
      <3> SUFFICES ASSUME NEW x \in Orders PROVE booked'[x] <= row[x].filled
        BY <1>6 DEF BookedIsRecorded
      <3>1. booked[x] <= row[x].filled BY <2>1 DEF Exclusive, BookedIsRecorded
      <3>2. CASE x = f[1] BY <1>2, <2>2, <2>3, <3>2
      <3>3. CASE x # f[1] BY <2>3, <3>1, <3>3
      <3> QED BY <3>2, <3>3
    <2> QED BY <2>5, <2>6, <2>7, <2>8 DEF Exclusive
  <1> QED BY <1>7, <1>8, <1>9, InvPartsNext

-----------------------------------------------------------------------------
(***************************************************************************)
(* The theorems                                                            *)
(***************************************************************************)
LEMMA InitInv == Init => IInv
  <1> SUFFICES ASSUME Init PROVE IInv OBVIOUS
  <1>1. /\ \A o \in Orders : row[o].status = "ABSENT" /\ row[o].filled = 0
        /\ \A o \in Orders : venue[o].filled = 0 /\ booked[o] = 0
    BY DEF Init
  <1>2. \A w \in Workers : /\ worker[w].pc = "idle" /\ worker[w].batch = {}
                           /\ worker[w].fills = {}
    BY RestingType DEF Init
  <1>3. NothingInvented /\ NewRowsAreEmpty BY <1>1 DEF NothingInvented, NewRowsAreEmpty
  <1>4. AnswersHold /\ RestIsEmpty BY <1>2 DEF AnswersHold, RestIsEmpty
  <1>5. Exclusive
    BY <1>1, <1>2 DEF Exclusive, OneWorkerPerOrder, BatchesAreGuarded, FillsAreSingle,
                      BookedIsRecorded
  <1> QED BY <1>3, <1>4, <1>5, TypeInit, InvParts

\* No step breaks the invariant: one lemma per action.
LEMMA NextKeeps == IInv /\ [Next]_vars => IInv'
  <1> SUFFICES ASSUME IInv, [Next]_vars PROVE IInv' OBVIOUS
  <1>1. TypeOK' BY TypeStep DEF IInv
  <1>2. ASSUME NEW o \in Orders, Submit(o) \/ VenueFills(o) \/ VenueEnds(o) \/ ClaimLapses(o)
        PROVE  IInv'
    BY <1>1, <1>2, SubmitKeeps, VenueKeeps, ClaimLapsesKeeps
  <1>3. ASSUME NEW w \in Workers, WorkerStep(w) \/ Crash(w)
        PROVE  IInv'
    BY <1>1, <1>3, ClaimKeeps, QueryKeeps, PutKeeps, SkipKeeps, ApplyKeeps, StopKeeps
       DEF WorkerStep
  <1>4. CASE UNCHANGED vars
    <2>1. UNCHANGED <<row, lock, venue, worker, event, booked, faults>> BY <1>4 DEF vars
    <2>2. NothingInvented' /\ NewRowsAreEmpty' /\ AnswersHold' /\ RestIsEmpty'
      BY <2>1, InvParts DEF NothingInvented, NewRowsAreEmpty, AnswersHold, RestIsEmpty
    <2>3. ~SlowBatches => Exclusive'
      BY <2>1, InvParts DEF Exclusive, OneWorkerPerOrder, BatchesAreGuarded, FillsAreSingle,
                            BookedIsRecorded
    <2> QED BY <1>1, <2>2, <2>3, InvPartsNext
  <1> QED BY <1>2, <1>3, <1>4 DEF Next

\* The invariant holds for any number of orders and workers, any quantity, and
\* whether or not claims outlive the batches.
THEOREM Invariance == Spec => []IInv
  BY InitInv, NextKeeps, PTL DEF Spec

\* Every variable stays within its type.
THEOREM TypeCorrect == Spec => []TypeOK
  <1>1. IInv => TypeOK BY DEF IInv
  <1> QED BY <1>1, Invariance, PTL

\* A row never says more than the venue has done, even when a claim lapses under
\* its worker and two workers process one order (resolve_one_unknown is fail-closed).
THEOREM Truthful == Spec => []NothingInvented
  <1>1. IInv => NothingInvented BY DEF IInv
  <1> QED BY <1>1, Invariance, PTL

\* If no claim lapses before its batch is dealt with, claim_unknown_batch gives an
\* order to one worker at a time...
THEOREM Unshared == ASSUME ~SlowBatches PROVE Spec => []OneWorkerPerOrder
  <1>1. IInv => OneWorkerPerOrder BY DEF IInv
  <1> QED BY <1>1, Invariance, PTL

\* ...the money moved for an order never exceeds what its row records...
THEOREM Recorded == ASSUME ~SlowBatches PROVE Spec => []BookedIsRecorded
  <1>1. IInv => BookedIsRecorded BY DEF IInv
  <1> QED BY <1>1, Invariance, PTL

\* ...and the unconditional upsert of put never overwrites a terminal order.
THEOREM TerminalForGood == ASSUME ~SlowBatches PROVE Spec => TerminalIsFinal
  <1> DEFINE Final == \A o \in Orders : row[o].status \in Terminal => row'[o].status = row[o].status
  <1>1. IInv /\ [Next]_vars => [Final]_row
    <2> SUFFICES ASSUME IInv, [Next]_vars, row' # row PROVE Final OBVIOUS
    <2>0. row \in [Orders -> Rows] BY TypeParts DEF IInv
    <2>1. ASSUME NEW x \in Orders, Submit(x) PROVE Final
      <3>1. row[x].status \notin Terminal BY <2>1 DEF Submit, Terminal
      <3>2. \A o \in Orders : o # x => row'[o] = row[o] BY <2>0, <2>1 DEF Submit
      <3> QED BY <3>1, <3>2
    <2>2. ASSUME NEW x \in Orders, ClaimLapses(x) PROVE Final
      BY <2>0, <2>2 DEF ClaimLapses, Rows
    <2>3. ASSUME NEW w \in Workers, Put(w) PROVE Final
      <3> DEFINE x == worker[w].order
      <3>1. x \in worker[w].batch
        BY <2>3 DEF IInv, AnswersHold, Put
      <3>2. row[x].status \notin Terminal
        BY <3>1 DEF IInv, BatchesAreGuarded, Terminal
      <3>3. \A o \in Orders : o # x => row'[o].status = row[o].status
        <4>1. \A o \in Orders : Published(w)[o].status = row[o].status
          <5> SUFFICES ASSUME NEW o \in Orders
                       PROVE  [row[o] EXCEPT !.claim = IF lock[o] = w THEN "fresh" ELSE @].status
                                = row[o].status
            BY DEF Published
          <5> QED BY <2>0 DEF Rows
        <4>2. \A o \in Orders : o # x => row'[o] = Published(w)[o] BY <2>3 DEF Put, Published
        <4> QED BY <4>1, <4>2
      <3> HIDE DEF x
      <3> QED BY <3>2, <3>3
    <2>4. ASSUME NEW w \in Workers, WorkerStep(w) \/ Crash(w), ~Put(w) PROVE FALSE
      BY <2>4 DEF WorkerStep, Claim, Query, Skip, Apply, EndTick, Crash
    <2>5. ASSUME NEW x \in Orders, VenueFills(x) \/ VenueEnds(x) PROVE FALSE
      BY <2>5 DEF VenueFills, VenueEnds
    <2> HIDE DEF Final
    <2>6. ~UNCHANGED vars BY DEF vars
    <2> QED BY <2>1, <2>2, <2>3, <2>4, <2>5, <2>6 DEF Next
  <1>2. Spec => [][Final]_row BY <1>1, Invariance, PTL DEF Spec
  <1> QED BY <1>2 DEF TerminalIsFinal

-----------------------------------------------------------------------------
(***************************************************************************)
(* The recovery implements the resolution of orders                        *)
(***************************************************************************)
StatusBook == [o \in Orders |-> row[o].status]
FilledBook == [o \in Orders |-> row[o].filled]

\* A step on the rows whose order the resolution sees.
LEMMA OneRowMoves ==
  ASSUME NEW o \in Orders,
         \A x \in Orders : x # o => row'[x].status = row[x].status /\ row'[x].filled = row[x].filled
  PROVE  /\ StatusBook' = [StatusBook EXCEPT ![o] = row'[o].status]
         /\ FilledBook' = [FilledBook EXCEPT ![o] = row'[o].filled]
  BY DEF StatusBook, FilledBook

LEMMA QuietIsStutter ==
  ASSUME UNCHANGED <<venue, booked>>,
         \A o \in Orders : row'[o].status = row[o].status /\ row'[o].filled = row[o].filled
  PROVE  UNCHANGED Resolution!vars
  BY DEF Resolution!vars

LEMMA SubmitResolves ==
  ASSUME IInv, NEW o \in Orders, Submit(o)
  PROVE  Resolution!Send(o)
  <1>0. row \in [Orders -> Rows] BY TypeParts DEF IInv
  <1>1. /\ row[o].status = "ABSENT" /\ UNCHANGED <<venue, booked>>
        /\ \E b \in BOOLEAN : row' = [row EXCEPT ![o] =
             [status |-> "UNKNOWN", filled |-> 0, bound |-> b, claim |-> "none"]]
    BY DEF Submit, money
  <1>2. /\ row'[o].status = "UNKNOWN" /\ row'[o].filled = 0
        /\ \A x \in Orders : x # o => row'[x] = row[x]
    BY <1>0, <1>1
  <1>3. row[o].filled = 0 BY <1>1, InvParts DEF NewRowsAreEmpty
  <1>4. StatusBook' = [StatusBook EXCEPT ![o] = "UNKNOWN"] /\ FilledBook' = FilledBook
    BY <1>2, <1>3, OneRowMoves DEF FilledBook
  <1> QED BY <1>1, <1>4 DEF StatusBook, FilledBook, Resolution!Send, Resolution!market

LEMMA FillResolves ==
  ASSUME IInv, NEW o \in Orders, VenueFills(o)
  PROVE  \E n \in 1..Quantity : Resolution!Trade(o, n)
  <1>0. venue \in [Orders -> Venues] BY TypeParts DEF IInv
  <1> DEFINE had == venue[o].filled
  <1>1. PICK n \in 1..(Quantity - had) :
          venue' = [venue EXCEPT ![o] =
            [state |-> IF had + n = Quantity THEN "filled" ELSE "working",
             filled |-> had + n, seq |-> venue[o].seq + 1]]
    BY DEF VenueFills
  <1>2. venue[o].state = "working" /\ UNCHANGED <<row, booked>> BY DEF VenueFills, money
  <1>3. had \in 0..Quantity BY <1>0 DEF Venues
  <1>4. n \in 1..Quantity /\ had + n <= Quantity BY <1>3, QuantityAssumption
  <1>5. /\ venue'[o].filled = had + n
        /\ venue'[o].state = IF had + n = Quantity THEN "filled" ELSE "working"
        /\ \A x \in Orders : x # o => venue'[x] = venue[x]
    BY <1>0, <1>1
  <1>6. Resolution!Trade(o, n)
    BY <1>2, <1>4, <1>5 DEF Resolution!Trade, Resolution!books
  <1> QED BY <1>4, <1>6

LEMMA EndResolves ==
  ASSUME IInv, NEW o \in Orders, VenueEnds(o)
  PROVE  \E end \in {"cancelled", "rejected"} : Resolution!End(o, end)
  <1>0. venue \in [Orders -> Venues] BY TypeParts DEF IInv
  <1>1. PICK end \in {"cancelled", "rejected"} :
          /\ end = "rejected" => venue[o].filled = 0
          /\ venue' = [venue EXCEPT ![o].state = end]
    BY DEF VenueEnds
  <1>2. venue[o].state = "working" /\ UNCHANGED <<row, booked>> BY DEF VenueEnds, money
  <1>3. /\ venue'[o].filled = venue[o].filled /\ venue'[o].state = end
        /\ \A x \in Orders : x # o => venue'[x] = venue[x]
    BY <1>0, <1>1 DEF Venues
  <1>4. /\ \A x \in Orders : venue'[x].filled = venue[x].filled
        /\ \A x \in Orders : venue'[x].state = IF x = o THEN end ELSE venue[x].state
    BY <1>3
  <1>5. [x \in Orders |-> venue[x].filled]' = [x \in Orders |-> venue[x].filled]
    BY <1>4
  <1>6. [x \in Orders |-> venue[x].state]' = [[x \in Orders |-> venue[x].state] EXCEPT ![o] = end]
    BY <1>4
  <1>7. Resolution!End(o, end)
    BY <1>1, <1>2, <1>5, <1>6 DEF Resolution!End, Resolution!books
  <1> QED BY <1>7

\* The upsert has no condition, but finds the row as the claim left it.
LEMMA PutResolves ==
  ASSUME IInv, ~SlowBatches, NEW w \in Workers, Put(w)
  PROVE  [Resolution!Next]_(Resolution!vars)
  <1>0. PICK o, a, said, n :
          /\ o = worker[w].order /\ a = worker[w].answer
          /\ said = Target(a) /\ n = row'[o].filled
    OBVIOUS
  <1>1. /\ o \in worker[w].batch /\ o \in Orders /\ a \in Answers /\ Legal(a)
        /\ a.filled <= venue[o].filled /\ a.outcome # "none"
        /\ a.outcome \in {"filled", "cancelled", "rejected"} => venue[o].state = a.outcome
        /\ UNCHANGED <<venue, booked>>
        /\ row'[o].status = said /\ n = IF IsFill(a) THEN a.filled ELSE 0
        /\ \A x \in Orders : x # o => row'[x].status = row[x].status /\ row'[x].filled = row[x].filled
    BY <1>0, PutWrites
  <1>2. /\ said \in {"UNKNOWN", "WORKING", "PARTIAL", "FILLED", "REJECTED", "CANCELLED"}
        /\ said = "UNKNOWN" <=> a.outcome = "unavailable"
        /\ said = "PARTIAL" <=> a.outcome = "partial"
        /\ said = "FILLED" <=> a.outcome = "filled"
        /\ said = "CANCELLED" <=> a.outcome = "cancelled"
        /\ said = "REJECTED" <=> a.outcome = "rejected"
    BY <1>0, PutWrites
  <1>3. row[o].status = "UNKNOWN" /\ row[o].filled = 0
    BY <1>1, InvParts DEF Exclusive, BatchesAreGuarded
  <1>4. a.filled \in 0..Quantity /\ venue[o].filled \in 0..Quantity
    BY <1>1, TypeParts DEF IInv, Answers, Venues
  <1>5. CASE said = "UNKNOWN"
    <2>1. row'[o].status = "UNKNOWN" /\ row'[o].filled = 0
      BY <1>0, <1>1, <1>2, <1>5 DEF IsFill
    <2> QED BY <1>1, <1>3, <2>1, QuietIsStutter
  <1>6. CASE said # "UNKNOWN"
    <2>1. n \in 0..Quantity BY <1>1, <1>4, QuantityAssumption
    <2>2. Resolution!True(o, said, n)
      <3>1. n <= venue[o].filled BY <1>1, <1>4, QuantityAssumption
      <3>2. said = "PARTIAL" => 0 < n /\ n < Quantity
        BY <1>1, <1>2 DEF Legal, IsFill
      <3>3. said = "FILLED" => venue[o].state = "filled" /\ n = Quantity
        BY <1>1, <1>2 DEF Legal, IsFill
      <3>4. said = "CANCELLED" => venue[o].state = "cancelled"
        BY <1>1, <1>2
      <3>5. said = "REJECTED" => venue[o].state = "rejected" /\ n = 0
        BY <1>1, <1>2 DEF IsFill
      <3> QED BY <1>1, <3>1, <3>2, <3>3, <3>4, <3>5 DEF Resolution!True
    <2>3. StatusBook' = [StatusBook EXCEPT ![o] = said] /\ FilledBook' = [FilledBook EXCEPT ![o] = n]
      BY <1>0, <1>1, OneRowMoves
    <2>4. Resolution!Resolve(o, said, n)
      BY <1>1, <1>3, <2>2, <2>3 DEF StatusBook, FilledBook, Resolution!Resolve, Resolution!market
    <2>5. \E s \in {"WORKING", "PARTIAL", "FILLED", "CANCELLED", "REJECTED"}, q \in 0..Quantity :
            Resolution!Resolve(o, s, q)
      BY <1>2, <1>6, <2>1, <2>4
    <2> QED BY <1>1, <2>5 DEF Resolution!Next
  <1> QED BY <1>5, <1>6

\* The money of a fill moves when none has moved for its order.
LEMMA ApplyResolves ==
  ASSUME IInv, ~SlowBatches, NEW w \in Workers, Apply(w)
  PROVE  [Resolution!Next]_(Resolution!vars)
  <1>0. /\ worker \in [Workers -> Ticks] /\ booked \in [Orders -> Nat]
    BY TypeParts DEF IInv
  <1>1. UNCHANGED <<row, venue>> BY DEF Apply
  <1>2. PICK f \in worker[w].fills :
          booked' = booked \/ booked' = [booked EXCEPT ![f[1]] = booked[f[1]] + f[2]]
    BY DEF Apply, money
  <1> DEFINE o == f[1]
  <1>3. o \in Orders /\ f[2] \in Nat BY <1>0, QuantityAssumption DEF Ticks
  <1>4. f[2] = row[o].filled /\ row[o].status \in {"PARTIAL", "FILLED"} /\ booked[o] = 0
    BY InvParts DEF Exclusive, FillsAreSingle
  <1>5. CASE booked' = booked
    BY <1>1, <1>5, QuietIsStutter
  <1>6. CASE booked' = [booked EXCEPT ![o] = booked[o] + f[2]]
    <2>0. booked[o] + f[2] = row[o].filled BY <1>3, <1>4
    <2>1. booked' = [booked EXCEPT ![o] = row[o].filled] BY <1>6, <2>0
    <2>2. Resolution!Pay(o)
      BY <1>1, <1>3, <1>4, <2>1 DEF Resolution!Pay, Resolution!market, Resolution!books
    <2> QED BY <1>3, <2>2 DEF Resolution!Next
  <1> QED BY <1>2, <1>5, <1>6

LEMMA StepResolves ==
  ASSUME IInv, ~SlowBatches, [Next]_vars
  PROVE  [Resolution!Next]_(Resolution!vars)
  <1>1. ASSUME NEW o \in Orders, Submit(o) \/ VenueFills(o) \/ VenueEnds(o)
        PROVE  Resolution!Next
    BY <1>1, SubmitResolves, FillResolves, EndResolves DEF Resolution!Next
  <1>2. ASSUME NEW o \in Orders, ClaimLapses(o) PROVE UNCHANGED Resolution!vars
    <2>1. row \in [Orders -> Rows] BY TypeParts DEF IInv
    <2>2. /\ UNCHANGED <<venue, booked>>
          /\ \A x \in Orders : row'[x].status = row[x].status /\ row'[x].filled = row[x].filled
      BY <1>2, <2>1 DEF ClaimLapses, money, Rows
    <2> QED BY <2>2, QuietIsStutter
  <1>3. ASSUME NEW w \in Workers,
               Claim(w) \/ (\E o \in Orders : Query(w, o)) \/ Skip(w) \/ EndTick(w) \/ Crash(w)
        PROVE  UNCHANGED Resolution!vars
    <2>1. UNCHANGED <<row, venue, booked>>
      BY <1>3 DEF Claim, Query, Skip, EndTick, Crash, money
    <2> QED BY <2>1, QuietIsStutter
  <1>4. CASE UNCHANGED vars
    BY <1>4, QuietIsStutter DEF vars
  <1> QED
    BY <1>1, <1>2, <1>3, <1>4, PutResolves, ApplyResolves DEF Next, WorkerStep

\* If no claim lapses before its batch is dealt with, the workers, whatever their number and
\* however often they die or are not answered, do nothing but resolve each order once, into
\* what the venue has done, and move the money of what they recorded at most once.
THEOREM ImplementsResolution == ASSUME ~SlowBatches PROVE Spec => IsOrderResolution
  <1>1. Init => Resolution!Init
    <2> SUFFICES ASSUME Init PROVE Resolution!Init OBVIOUS
    <2>1. \A o \in Orders : /\ row[o].status = "ABSENT" /\ row[o].filled = 0
                            /\ venue[o].state = "working" /\ venue[o].filled = 0
      BY DEF Init
    <2>2. booked = [o \in Orders |-> 0] BY DEF Init
    <2> QED BY <2>1, <2>2 DEF Resolution!Init
  <1>2. IInv /\ [Next]_vars => [Resolution!Next]_(Resolution!vars) BY StepResolves
  <1> QED BY <1>1, <1>2, Invariance, PTL DEF Spec, IsOrderResolution, Resolution!Spec
=============================================================================
