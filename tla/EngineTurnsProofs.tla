------------------------- MODULE EngineTurnsProofs -------------------------
(***************************************************************************)
(* What the lease and the ledger of ticks guarantee for every number of    *)
(* processes and every bound: turns exclude each other while none outlives *)
(* the lease, a cycle belongs to one turn, turns are settled in the order  *)
(* of the generations, the ledger is a journal that only the driver in     *)
(* office settles, and the engine buys on top of no more lots than its     *)
(* settlements have kept from its memory.                                  *)
(***************************************************************************)
EXTENDS EngineTurns, SequenceTheorems, TLAPS

\* A process has only seen generations that were handed out, each to one process; a
\* memory is only fresh under a generation, and a turn only runs under one.
Generations ==
  /\ published <= lease.gen
  /\ \A p \in Processes :
       /\ proc[p].seen <= lease.gen
       /\ proc[p].mine \in {0, proc[p].seen}
       /\ proc[p].memory = "fresh" => proc[p].seen # 0
       /\ proc[p].pc \in InTurn => proc[p].mine # 0
  /\ \A p, q \in Processes : proc[p].seen = proc[q].seen => p = q \/ proc[p].seen = 0

\* As long as no lease has lapsed in a turn, a turn runs under a lease that holds.
TurnsHold ==
  slow = 0 => \A p \in Processes : proc[p].pc \in InTurn => Holds(p) /\ lease.term = "current"

\* A number that is about to be inserted is not beyond the next one.
Inserting ==
  \A p \in Processes : proc[p].pc \in {"inserting", "recording"} =>
    proc[p].claim \in 1..(Len(ticks) + 1)

\* The process that saw the current generation, and whose memory is fresh, knows of every
\* lot in the book but those its settlements kept from it.
OwnerKnows ==
  slow = 0 =>
    /\ book <= Chunks + missed
    /\ \A p \in Processes :
         proc[p].memory = "fresh" /\ proc[p].seen = lease.gen => book <= proc[p].ram + missed

-----------------------------------------------------------------------------
LEMMA StartedType == Started("idle") \in Locals /\ Started("down") \in Locals
BY DEF Started, Locals

LEMMA RestedType == \A q \in Locals : Rested(q) \in Locals
BY DEF Rested, Locals

LEMMA NotedType == \A q \in Locals, gen \in Nat : Noted(q, gen) \in Locals
BY DEF Noted, Locals

\* The local states that the steps of a turn lead to.
LEMMA LocalMoves ==
  ASSUME NEW q \in Locals
  PROVE  /\ q.mine \in Nat /\ q.tries \in Nat /\ q.ram \in Nat /\ q.fails \in Nat /\ q.claim \in Nat
         /\ q.verdict \in {"ok", "unknown"}
         /\ \A pc \in {"held", "claiming", "claimed", "acting", "mirroring", "closing", "acquire"} :
              [q EXCEPT !.pc = pc] \in Locals
         /\ [q EXCEPT !.pc = "acquire", !.mine = 0] \in Locals
         /\ [q EXCEPT !.pc = "idle", !.claim = 0] \in Locals
         /\ [q EXCEPT !.mine = 0] \in Locals
         /\ \A n \in Nat :
              /\ [q EXCEPT !.pc = "held", !.mine = n] \in Locals
              /\ [q EXCEPT !.pc = "inserting", !.claim = n] \in Locals
              /\ [q EXCEPT !.pc = "claiming", !.claim = 0, !.tries = n] \in Locals
              /\ [q EXCEPT !.pc = "failing", !.claim = 0, !.tries = 0, !.fails = n] \in Locals
              /\ [q EXCEPT !.pc = "recording", !.claim = n] \in Locals
              /\ \A m \in {"old", "fresh"}, v \in {"ok", "unknown"} :
                   [q EXCEPT !.pc = "acting", !.memory = m, !.ram = n, !.verdict = v] \in Locals
BY DEF Locals, InTurn

LEMMA ExcessBound == \A m, n \in Nat : Excess(m, n) \in Nat /\ m <= n + Excess(m, n)
BY DEF Excess

\* The forms of a trade: what it does to the state of its process, to the book and to the
\* count of the lots that memory misses.
LEMMA ActForms ==
  ASSUME TypeOK, NEW p \in Processes, Act(p)
  PROVE  /\ proc[p].pc = "acting" /\ faults' \in Nat
         /\ UNCHANGED <<lease, ticks, published, mirror, slow>>
         /\ \E r \in Locals :
              /\ proc' = [proc EXCEPT ![p] = r]
              /\ r.pc \in {"closing", "mirroring"} /\ r.claim = proc[p].claim
              /\ r.mine = proc[p].mine /\ r.seen = proc[p].seen /\ r.memory = proc[p].memory
              /\ \/ r.ram = proc[p].ram /\ UNCHANGED <<book, missed>>
                 \/ /\ MayBuy(p)
                    /\ \E moved, told \in 0..Chunks :
                         /\ book' = book + moved /\ r.ram = told
                         /\ missed' = missed + Excess(moved, told)
                 \/ \E moved, told \in 0..proc[p].ram :
                      /\ moved <= book /\ book' = book - moved /\ r.ram = proc[p].ram - told
                      /\ missed' = missed + Excess(told, moved)
<1> DEFINE kept(r) == /\ r \in Locals /\ r.claim = proc[p].claim /\ r.mine = proc[p].mine
                      /\ r.seen = proc[p].seen /\ r.memory = proc[p].memory
<1>0. proc[p] \in Locals /\ proc[p].ram \in Nat /\ faults \in Nat
  BY DEF TypeOK, Locals
<1>1. proc[p].pc = "acting" /\ UNCHANGED <<lease, ticks, published, mirror, slow>>
  BY DEF Act
<1>2. \A pc \in {"closing", "mirroring"} :
        LET r == [proc[p] EXCEPT !.pc = pc] IN kept(r) /\ r.pc = pc /\ r.ram = proc[p].ram
  BY <1>0 DEF Locals, InTurn
<1>3. \A n, told \in Nat :
        LET r == [[proc[p] EXCEPT !.pc = Followed(told)] EXCEPT !.ram = n]
        IN  kept(r) /\ r.pc \in {"closing", "mirroring"} /\ r.ram = n
  <2>2. \A told \in Nat : Followed(told) \in {"closing", "mirroring"}
    BY DEF Followed
  <2>3. ASSUME NEW n \in Nat, NEW told \in Nat, NEW pc \in {"closing", "mirroring"},
               Followed(told) = pc
        PROVE  LET r == [[proc[p] EXCEPT !.pc = Followed(told)] EXCEPT !.ram = n]
               IN  kept(r) /\ r.pc \in {"closing", "mirroring"} /\ r.ram = n
    BY <1>0, <2>3 DEF Locals, InTurn
  <2> HIDE DEF kept
  <2> QED
    BY <2>2, <2>3
<1>4. CASE /\ \E pc \in {"closing", "mirroring"} : proc' = [proc EXCEPT ![p].pc = pc]
           /\ UNCHANGED <<book, missed, faults>>
  BY <1>0, <1>1, <1>2, <1>4
<1>5. ASSUME MayBuy(p), NEW moved \in 0..Chunks, NEW told \in 0..Chunks,
             Settlement(p, moved, told, Excess(moved, told)), book' = book + moved,
             proc' = [proc EXCEPT ![p].pc = Followed(told), ![p].ram = told]
      PROVE  /\ faults' \in Nat
             /\ \E r \in Locals : /\ proc' = [proc EXCEPT ![p] = r] /\ kept(r) /\ r.ram = told
                                  /\ r.pc \in {"closing", "mirroring"}
             /\ missed' = missed + Excess(moved, told)
  <2> DEFINE r == [[proc[p] EXCEPT !.pc = Followed(told)] EXCEPT !.ram = told]
  <2>1. told \in Nat
    BY BreakerAssumption
  <2>2. kept(r) /\ r.pc \in {"closing", "mirroring"} /\ r.ram = told
    BY <1>3, <2>1
  <2>3. proc' = [proc EXCEPT ![p] = r]
    BY <1>5 DEF TypeOK
  <2>4. faults' \in Nat /\ missed' = missed + Excess(moved, told)
    BY <1>0, <1>5 DEF Settlement
  <2> HIDE DEF r
  <2> QED
    BY <2>2, <2>3, <2>4
<1>6. ASSUME NEW moved \in 0..proc[p].ram, NEW told \in 0..proc[p].ram, moved <= book,
             Settlement(p, moved, told, Excess(told, moved)), book' = book - moved,
             proc' = [proc EXCEPT ![p].pc = Followed(told), ![p].ram = proc[p].ram - told]
      PROVE  /\ faults' \in Nat
             /\ \E r \in Locals : /\ proc' = [proc EXCEPT ![p] = r] /\ kept(r)
                                  /\ r.ram = proc[p].ram - told
                                  /\ r.pc \in {"closing", "mirroring"}
             /\ missed' = missed + Excess(told, moved)
  <2> DEFINE r == [[proc[p] EXCEPT !.pc = Followed(told)] EXCEPT !.ram = proc[p].ram - told]
  <2>1. told \in Nat /\ proc[p].ram - told \in Nat
    BY <1>0
  <2>2. kept(r) /\ r.pc \in {"closing", "mirroring"} /\ r.ram = proc[p].ram - told
    BY <1>3, <2>1
  <2>3. proc' = [proc EXCEPT ![p] = r]
    BY <1>6 DEF TypeOK
  <2>4. faults' \in Nat /\ missed' = missed + Excess(told, moved)
    BY <1>0, <1>6 DEF Settlement
  <2> HIDE DEF r
  <2> QED
    BY <2>2, <2>3, <2>4
<1> HIDE DEF kept
<1>7. CASE /\ MayBuy(p)
           /\ \E moved, told \in 0..Chunks :
                /\ Settlement(p, moved, told, Excess(moved, told)) /\ book' = book + moved
                /\ proc' = [proc EXCEPT ![p].pc = Followed(told), ![p].ram = told]
  <2>1. PICK moved \in 0..Chunks, told \in 0..Chunks :
          /\ Settlement(p, moved, told, Excess(moved, told)) /\ book' = book + moved
          /\ proc' = [proc EXCEPT ![p].pc = Followed(told), ![p].ram = told]
    BY <1>7
  <2> QED
    <3>1. PICK r \in Locals : /\ proc' = [proc EXCEPT ![p] = r] /\ kept(r) /\ r.ram = told
                              /\ r.pc \in {"closing", "mirroring"}
      BY <1>5, <1>7, <2>1
    <3>2. faults' \in Nat /\ missed' = missed + Excess(moved, told)
      BY <1>5, <1>7, <2>1
    <3> QED
      BY <1>1, <1>7, <2>1, <3>1, <3>2 DEF kept
<1>8. CASE \E moved, told \in 0..proc[p].ram :
             /\ moved <= book
             /\ Settlement(p, moved, told, Excess(told, moved)) /\ book' = book - moved
             /\ proc' = [proc EXCEPT ![p].pc = Followed(told), ![p].ram = proc[p].ram - told]
  <2>1. PICK moved \in 0..proc[p].ram, told \in 0..proc[p].ram :
          /\ moved <= book
          /\ Settlement(p, moved, told, Excess(told, moved)) /\ book' = book - moved
          /\ proc' = [proc EXCEPT ![p].pc = Followed(told), ![p].ram = proc[p].ram - told]
    BY <1>8
  <2> QED
    <3>1. PICK r \in Locals : /\ proc' = [proc EXCEPT ![p] = r] /\ kept(r)
                              /\ r.ram = proc[p].ram - told
                              /\ r.pc \in {"closing", "mirroring"}
      BY <1>6, <2>1
    <3>2. faults' \in Nat /\ missed' = missed + Excess(told, moved)
      BY <1>6, <2>1
    <3> QED
      BY <1>1, <2>1, <3>1, <3>2 DEF kept
<1> QED
  BY <1>4, <1>7, <1>8 DEF Act

LEMMA TypeInit == Init => TypeOK
BY NobodyAssumption, StartedType DEF Init, TypeOK, Leases

LEMMA TypeStep == TypeOK /\ [Next]_vars => TypeOK'
<1> SUFFICES ASSUME TypeOK, [Next]_vars PROVE TypeOK'
  OBVIOUS
<1> USE DEF position, spent
<1>1. CASE UNCHANGED vars
  BY <1>1 DEF vars, TypeOK
<1>2. CASE Lapse
  BY <1>2 DEF Lapse, TypeOK, Leases
<1>0. \A p \in Processes : proc[p] \in Locals
  BY DEF TypeOK
<1>len. Len(ticks) \in Nat /\ Len(ticks) + 1 \in Nat
  BY LenProperties DEF TypeOK
<1>3. ASSUME NEW p \in Processes, Renew(p) PROVE TypeOK'
  <2>1. Noted(proc[p], proc[p].mine) \in Locals
    BY <1>0, LocalMoves, NotedType
  <2>2. proc' \in [Processes -> Locals]
    <3>1. CASE Holds(p)
      <4>1. [Noted(proc[p], proc[p].mine) EXCEPT !.pc = "held"] \in Locals
        BY <2>1, LocalMoves
      <4> QED
        BY <1>3, <3>1, <4>1 DEF Renew, TypeOK
    <3>2. CASE ~Holds(p)
      <4>1. [[proc[p] EXCEPT !.pc = "acquire"] EXCEPT !.mine = 0] \in Locals
        BY <1>0, LocalMoves
      <4>2. proc' = [proc EXCEPT ![p] = [[proc[p] EXCEPT !.pc = "acquire"] EXCEPT !.mine = 0]]
        BY <1>3, <3>2 DEF Renew, TypeOK
      <4> QED
        BY <4>1, <4>2 DEF TypeOK
    <3> QED
      BY <3>1, <3>2
  <2> QED
    BY <1>3, <2>2 DEF Renew, TypeOK, Leases
<1>4. ASSUME NEW p \in Processes, Acquire(p) PROVE TypeOK'
  <2>1. lease.gen \in Nat
    BY DEF TypeOK, Leases
  <2>2. lease.gen + 1 \in Nat
    BY <2>1
  <2>3. [Noted(proc[p], lease.gen + 1) EXCEPT !.pc = "held", !.mine = lease.gen + 1] \in Locals
    BY <1>0, <2>2, LocalMoves, NotedType
  <2>4. proc' \in [Processes -> Locals]
    BY <1>4, <1>0, <2>3, RestedType DEF Acquire, TypeOK
  <2>5. lease' \in Leases
    BY <1>4, <2>2 DEF Acquire, TypeOK, Leases
  <2> QED
    BY <1>4, <2>4, <2>5 DEF Acquire, TypeOK
<1>5. ASSUME NEW p \in Processes, CheckLease(p) PROVE TypeOK'
  <2>1. proc' \in [Processes -> Locals]
    BY <1>5, <1>0, LocalMoves, RestedType DEF CheckLease, TypeOK
  <2> QED
    BY <1>5, <2>1 DEF CheckLease, TypeOK
<1>6. ASSUME NEW p \in Processes, ReadSeq(p) PROVE TypeOK'
  <2>1. [proc[p] EXCEPT !.pc = "inserting", !.claim = Len(ticks) + 1] \in Locals
    BY <1>0, <1>len, LocalMoves
  <2>2. proc' \in [Processes -> Locals]
    BY <1>6, <1>0, <2>1, RestedType DEF ReadSeq, TypeOK
  <2> QED
    BY <1>6, <2>2 DEF ReadSeq, TypeOK
<1>7. ASSUME NEW p \in Processes, InsertClaim(p) PROVE TypeOK'
  <2>1. proc[p].tries \in Nat
    BY <1>0, LocalMoves
  <2>2. proc[p].tries + 1 \in Nat
    BY <2>1
  <2>3. [proc[p] EXCEPT !.pc = "claiming", !.claim = 0, !.tries = proc[p].tries + 1] \in Locals
    BY <1>0, <2>2, LocalMoves
  <2>4. proc' \in [Processes -> Locals]
    <3>1. Rested(proc[p]) \in Locals /\ [proc[p] EXCEPT !.pc = "claimed"] \in Locals
      BY <1>0, LocalMoves, RestedType
    <3>2. CASE Taken(proc[p].claim) /\ proc[p].tries + 1 < Tries
      BY <1>7, <2>3, <3>2 DEF InsertClaim, TypeOK
    <3>3. CASE Taken(proc[p].claim) /\ ~(proc[p].tries + 1 < Tries)
      BY <1>7, <3>1, <3>3 DEF InsertClaim, TypeOK
    <3>4. CASE ~Taken(proc[p].claim)
      BY <1>7, <3>1, <3>4 DEF InsertClaim, TypeOK
    <3> QED
      BY <3>2, <3>3, <3>4
  <2>5. ticks' \in Seq(Ticks)
    <3>1. [by |-> p, state |-> "claimed"] \in Ticks
      BY DEF Ticks
    <3> QED
      BY <1>7, <3>1, AppendProperties DEF InsertClaim, TypeOK
  <2> QED
    BY <1>7, <2>4, <2>5 DEF InsertClaim, TypeOK
<1>8. ASSUME NEW p \in Processes, Adopt(p) PROVE TypeOK'
  <2>1. proc[p].ram \in Nat /\ proc[p].verdict \in {"ok", "unknown"} /\ mirror \in Nat /\ book \in Nat
    BY <1>0, LocalMoves DEF TypeOK
  <2>2. \E r \in Locals : proc' = [proc EXCEPT ![p] = r]
    <3>1. CASE proc' = [proc EXCEPT ![p].pc = "acting"]
      BY <3>1, <1>0, LocalMoves
    <3>2. CASE \E m \in {"old", "fresh"}, n \in Nat, v \in {"ok", "unknown"} :
                 proc' = [proc EXCEPT ![p] = [proc[p] EXCEPT
                            !.pc = "acting", !.memory = m, !.ram = n, !.verdict = v]]
      BY <3>2, <1>0, LocalMoves
    <3> QED
      BY <1>8, <2>1, <3>1, <3>2 DEF Adopt
  <2>3. proc' \in [Processes -> Locals] /\ mirror' \in Nat
    BY <1>8, <2>1, <2>2 DEF Adopt, TypeOK
  <2> QED
    BY <1>8, <2>3 DEF Adopt, TypeOK
<1>9. ASSUME NEW p \in Processes, Act(p) PROVE TypeOK'
  <2>1. proc[p].ram \in Nat /\ book \in Nat /\ missed \in Nat /\ Chunks \in Nat
    BY <1>0, LocalMoves, BreakerAssumption DEF TypeOK
  <2>2. proc' \in [Processes -> Locals]
    BY <1>9, ActForms DEF TypeOK
  <2>3. book' \in Nat /\ missed' \in Nat
    <3>1. \/ UNCHANGED <<book, missed>>
          \/ \E moved, told \in 0..Chunks :
               book' = book + moved /\ missed' = missed + Excess(moved, told)
          \/ \E moved, told \in 0..proc[p].ram :
               moved <= book /\ book' = book - moved /\ missed' = missed + Excess(told, moved)
      BY <1>9, ActForms
    <3>2. CASE \E moved, told \in 0..Chunks :
                 book' = book + moved /\ missed' = missed + Excess(moved, told)
      <4>1. PICK moved \in 0..Chunks, told \in 0..Chunks :
              book' = book + moved /\ missed' = missed + Excess(moved, told)
        BY <3>2
      <4>2. moved \in Nat /\ told \in Nat
        BY <2>1
      <4>3. Excess(moved, told) \in Nat
        BY <4>2, ExcessBound
      <4> QED
        BY <2>1, <4>1, <4>2, <4>3
    <3>3. CASE \E moved, told \in 0..proc[p].ram :
                 moved <= book /\ book' = book - moved /\ missed' = missed + Excess(told, moved)
      <4>1. PICK moved \in 0..proc[p].ram, told \in 0..proc[p].ram :
              moved <= book /\ book' = book - moved /\ missed' = missed + Excess(told, moved)
        BY <3>3
      <4>2. moved \in Nat /\ told \in Nat
        BY <2>1
      <4>3. Excess(told, moved) \in Nat
        BY <4>2, ExcessBound
      <4> QED
        BY <2>1, <4>1, <4>2, <4>3
    <3> QED
      BY <2>1, <3>1, <3>2, <3>3
  <2> QED
    BY <1>9, <2>2, <2>3, ActForms DEF TypeOK
<1>10. ASSUME NEW p \in Processes, Mirror(p) PROVE TypeOK'
  <2>1. proc[p].ram \in Nat
    BY <1>0, LocalMoves
  <2>2. proc' \in [Processes -> Locals]
    BY <1>10, <1>0, LocalMoves DEF Mirror, TypeOK
  <2> QED
    BY <1>10, <2>1, <2>2 DEF Mirror, TypeOK
<1>11. ASSUME NEW p \in Processes, Settle(p) PROVE TypeOK'
  <2>1. proc' \in [Processes -> Locals]
    <3>1. Rested(proc[p]) \in Locals
      BY <1>0, RestedType
    <3>2. [Rested(proc[p]) EXCEPT !.mine = 0] \in Locals
      BY <3>1, LocalMoves
    <3> QED
      BY <1>11, <3>1, <3>2 DEF Settle, TypeOK
  <2>2. ticks' \in Seq(Ticks)
    <3> DEFINE c == proc[p].claim
    <3>1. CASE ticks' = [ticks EXCEPT ![c].state = "settled"]
      <4>1. CASE c \in 1..Len(ticks)
        <5>1. ticks[c] \in Ticks
          BY <4>1, ElementOfSeq DEF TypeOK
        <5>2. [ticks[c] EXCEPT !.state = "settled"] \in Ticks
          BY <5>1 DEF Ticks
        <5> QED
          BY <3>1, <4>1, <5>2, ExceptSeq DEF TypeOK
      <4>2. CASE c \notin 1..Len(ticks)
        <5>1. ticks = [i \in 1..Len(ticks) |-> ticks[i]]
          BY LenProperties DEF TypeOK
        <5>2. ticks' = ticks
          BY <3>1, <4>2, <5>1
        <5> QED
          BY <5>2 DEF TypeOK
      <4> QED
        BY <4>1, <4>2
    <3>2. CASE UNCHANGED ticks
      BY <3>2 DEF TypeOK
    <3> QED
      BY <1>11, <3>1, <3>2 DEF Settle
  <2>3. published' \in Nat
    BY <1>11, <1>0, LocalMoves DEF Settle, TypeOK
  <2> QED
    BY <1>11, <2>1, <2>2, <2>3 DEF Settle, TypeOK
<1>12. ASSUME NEW p \in Processes, CountTicks(p) PROVE TypeOK'
  <2>1. [[proc[p] EXCEPT !.pc = "recording"] EXCEPT !.claim = Len(ticks) + 1] \in Locals
    BY <1>0, <1>len, LocalMoves
  <2>2. proc' \in [Processes -> Locals]
    BY <1>12, <2>1 DEF CountTicks, TypeOK
  <2> QED
    BY <1>12, <2>2 DEF CountTicks, TypeOK
<1>13. ASSUME NEW p \in Processes, RecordFailure(p) PROVE TypeOK'
  <2>1. proc' \in [Processes -> Locals]
    BY <1>13, <1>0, LocalMoves DEF RecordFailure, TypeOK
  <2>2. [by |-> p, state |-> "failed"] \in Ticks
    BY DEF Ticks
  <2>3. ticks' \in Seq(Ticks)
    BY <1>13, <2>2, AppendProperties DEF RecordFailure, TypeOK
  <2> QED
    BY <1>13, <2>1, <2>3 DEF RecordFailure, TypeOK
<1>14. ASSUME NEW p \in Processes, Fail(p) PROVE TypeOK'
  <2>1. proc[p].fails \in Nat
    BY <1>0, LocalMoves
  <2>2. proc[p].fails + 1 \in Nat /\ faults + 1 \in Nat
    BY <2>1 DEF TypeOK
  <2>3. proc' \in [Processes -> Locals]
    BY <1>14, <1>0, <2>2, LocalMoves DEF Fail, TypeOK
  <2> QED
    BY <1>14, <2>2, <2>3 DEF Fail, TypeOK
<1>15. ASSUME NEW p \in Processes, Close(p) PROVE TypeOK'
  BY <1>15, StartedType DEF Close, TypeOK, Leases
<1>16. ASSUME NEW p \in Processes, Crash(p) PROVE TypeOK'
  BY <1>16, StartedType DEF Crash, TypeOK
<1> QED
  BY <1>1, <1>2, <1>3, <1>4, <1>5, <1>6, <1>7, <1>8, <1>9, <1>10, <1>11, <1>12, <1>13,
     <1>14, <1>15, <1>16 DEF Next, Turn

\* Every variable keeps its type, whatever the numbers of processes and of turns.
THEOREM TypeCorrect == Spec => []TypeOK
<1>1. TypeOK /\ [Next]_vars => TypeOK'
  BY TypeStep
<1> QED
  BY TypeInit, <1>1, PTL DEF Spec

-----------------------------------------------------------------------------
\* What the steps do to the fields the invariants speak of.

Others(p) == \A q \in Processes : q # p => proc'[q] = proc[q]
Remembers(p) ==
  /\ proc'[p].seen = proc[p].seen
  /\ proc'[p].memory = proc[p].memory
  /\ proc'[p].ram = proc[p].ram

\* A step that touches neither the lease nor the book nor what p knows of them.
Plain(p) ==
  /\ Others(p) /\ Remembers(p)
  /\ proc'[p].pc \in InTurn => proc[p].pc \in InTurn /\ proc'[p].mine = proc[p].mine
  /\ proc'[p].mine \in {0, proc[p].mine}
  /\ UNCHANGED lease /\ UNCHANGED slow /\ UNCHANGED book /\ UNCHANGED missed
  /\ published' \in {published, lease.gen}

LEMMA FieldsOfMoves ==
  ASSUME NEW q \in Locals, NEW gen \in Nat
  PROVE  /\ Rested(q).pc = "idle" /\ Rested(q).mine = q.mine /\ Rested(q).seen = q.seen
         /\ Rested(q).memory = q.memory /\ Rested(q).ram = q.ram
         /\ Noted(q, gen).seen = gen /\ Noted(q, gen).mine = q.mine
         /\ Noted(q, gen).ram = q.ram
         /\ Noted(q, gen).memory = IF q.seen \in {0, gen} THEN q.memory ELSE "old"
BY DEF Rested, Noted, Locals

LEMMA PlainSteps ==
  ASSUME TypeOK, NEW p \in Processes,
         \/ CheckLease(p) \/ ReadSeq(p) \/ InsertClaim(p) \/ Mirror(p) \/ Settle(p)
         \/ CountTicks(p) \/ RecordFailure(p) \/ Fail(p)
  PROVE  Plain(p)
<1> DEFINE fields(r) == /\ r.seen = proc[p].seen /\ r.memory = proc[p].memory
                        /\ r.ram = proc[p].ram /\ r.mine \in {0, proc[p].mine}
                        /\ r.pc \in InTurn => proc[p].pc \in InTurn /\ r.mine = proc[p].mine
<1>0. proc[p] \in Locals
  BY DEF TypeOK
<1>1. fields(Rested(proc[p])) /\ fields([Rested(proc[p]) EXCEPT !.mine = 0])
  BY <1>0, FieldsOfMoves, RestedType DEF Locals, InTurn, Rested
<1>2. UNCHANGED lease /\ UNCHANGED slow /\ UNCHANGED book /\ UNCHANGED missed /\ Others(p)
  <2>1. CASE CheckLease(p)
    BY <2>1 DEF CheckLease, Others, position, spent, TypeOK
  <2>2. CASE ReadSeq(p)
    BY <2>2 DEF ReadSeq, Others, position, spent, TypeOK
  <2>3. CASE InsertClaim(p)
    BY <2>3 DEF InsertClaim, Others, position, spent, TypeOK
  <2>4. CASE Mirror(p)
    BY <2>4 DEF Mirror, Others, position, spent, TypeOK
  <2>5. CASE Settle(p)
    BY <2>5 DEF Settle, Others, position, spent, TypeOK
  <2>6. CASE CountTicks(p)
    BY <2>6 DEF CountTicks, Others, position, spent, TypeOK
  <2>7. CASE RecordFailure(p)
    BY <2>7 DEF RecordFailure, Others, position, spent, TypeOK
  <2>8. CASE Fail(p)
    BY <2>8 DEF Fail, Others, position, spent, TypeOK
  <2> QED
    BY <2>1, <2>2, <2>3, <2>4, <2>5, <2>6, <2>7, <2>8
<1>3. fields(proc'[p])
  <2>1. CASE CheckLease(p)
    <3>1. proc'[p] \in {[proc[p] EXCEPT !.pc = "claiming"], Rested(proc[p])} /\ proc[p].pc = "held"
      BY <2>1 DEF CheckLease, TypeOK
    <3>2. proc[p].pc = "held" => fields([proc[p] EXCEPT !.pc = "claiming"])
      BY <1>0 DEF Locals, InTurn
    <3> QED
      BY <1>1, <3>1, <3>2
  <2>2. CASE ReadSeq(p)
    <3>1. /\ proc'[p] \in {[proc[p] EXCEPT !.pc = "inserting", !.claim = Len(ticks) + 1],
                          Rested(proc[p])}
          /\ proc[p].pc = "claiming"
      BY <2>2 DEF ReadSeq, TypeOK
    <3>2. proc[p].pc = "claiming" =>
            fields([proc[p] EXCEPT !.pc = "inserting", !.claim = Len(ticks) + 1])
      BY <1>0 DEF Locals, InTurn
    <3> QED
      BY <1>1, <3>1, <3>2
  <2>3. CASE InsertClaim(p)
    <3>1. /\ proc'[p] \in {[proc[p] EXCEPT !.pc = "claiming", !.claim = 0,
                                            !.tries = proc[p].tries + 1],
                          Rested(proc[p]), [proc[p] EXCEPT !.pc = "claimed"]}
          /\ proc[p].pc = "inserting"
      BY <2>3 DEF InsertClaim, TypeOK
    <3>2. proc[p].pc = "inserting" =>
            /\ fields([proc[p] EXCEPT !.pc = "claiming", !.claim = 0,
                                      !.tries = proc[p].tries + 1])
            /\ fields([proc[p] EXCEPT !.pc = "claimed"])
      BY <1>0 DEF Locals, InTurn
    <3> QED
      BY <1>1, <3>1, <3>2
  <2>4. CASE Mirror(p)
    <3>1. proc'[p] = [proc[p] EXCEPT !.pc = "closing"] /\ proc[p].pc = "mirroring"
      BY <2>4 DEF Mirror, TypeOK
    <3> QED
      BY <1>0, <3>1 DEF Locals, InTurn
  <2>5. CASE Settle(p)
    <3>1. proc'[p] \in {Rested(proc[p]), [Rested(proc[p]) EXCEPT !.mine = 0]}
      BY <2>5 DEF Settle, TypeOK
    <3> QED
      BY <1>1, <3>1
  <2>6. CASE CountTicks(p)
    <3>1. proc'[p] = [[proc[p] EXCEPT !.pc = "recording"] EXCEPT !.claim = Len(ticks) + 1]
      BY <2>6 DEF CountTicks, TypeOK
    <3> QED
      BY <1>0, <3>1 DEF Locals, InTurn
  <2>7. CASE RecordFailure(p)
    <3>1. proc'[p] = [[proc[p] EXCEPT !.pc = "idle"] EXCEPT !.claim = 0]
      BY <2>7 DEF RecordFailure, TypeOK
    <3> QED
      BY <1>0, <3>1 DEF Locals, InTurn
  <2>8. CASE Fail(p)
    <3>1. proc'[p] = [proc[p] EXCEPT !.pc = "failing", !.claim = 0, !.tries = 0,
                                     !.fails = proc[p].fails + 1]
      BY <2>8 DEF Fail, TypeOK
    <3> QED
      BY <1>0, <3>1 DEF Locals, InTurn
  <2> QED
    BY <2>1, <2>2, <2>3, <2>4, <2>5, <2>6, <2>7, <2>8
<1>4. published' \in {published, lease.gen}
  <2>1. CASE CheckLease(p)
    BY <2>1 DEF CheckLease
  <2>2. CASE ReadSeq(p)
    BY <2>2 DEF ReadSeq
  <2>3. CASE InsertClaim(p)
    BY <2>3 DEF InsertClaim
  <2>4. CASE Mirror(p)
    BY <2>4 DEF Mirror
  <2>5. CASE Settle(p)
    BY <2>5 DEF Settle, Fenced, Holds
  <2>6. CASE CountTicks(p)
    BY <2>6 DEF CountTicks
  <2>7. CASE RecordFailure(p)
    BY <2>7 DEF RecordFailure
  <2>8. CASE Fail(p)
    BY <2>8 DEF Fail
  <2> QED
    BY <2>1, <2>2, <2>3, <2>4, <2>5, <2>6, <2>7, <2>8
<1> QED
  BY <1>2, <1>3, <1>4 DEF Plain, Remembers

LEMMA RenewStep ==
  ASSUME TypeOK, NEW p \in Processes, Renew(p)
  PROVE  /\ Others(p) /\ UNCHANGED slow /\ UNCHANGED book /\ UNCHANGED missed /\ UNCHANGED published
         /\ lease'.gen = lease.gen /\ lease'.owner = lease.owner
         /\ \/ Holds(p) /\ lease'.term = "current" /\ proc'[p].pc = "held"
               /\ proc[p].mine # 0 /\ proc'[p].mine = proc[p].mine
               /\ proc'[p].seen = proc[p].mine /\ proc'[p].ram = proc[p].ram
               /\ proc'[p].memory =
                    IF proc[p].seen \in {0, proc[p].mine} THEN proc[p].memory ELSE "old"
            \/ UNCHANGED lease /\ Remembers(p) /\ proc'[p].pc = "acquire" /\ proc'[p].mine = 0
<1> DEFINE r == [Noted(proc[p], proc[p].mine) EXCEPT !.pc = "held"]
<1>0. proc[p] \in Locals
  BY DEF TypeOK
<1>1. Others(p) /\ UNCHANGED slow /\ UNCHANGED book /\ UNCHANGED missed /\ UNCHANGED published /\ proc[p].mine # 0
  BY DEF Renew, Others, position, spent, TypeOK
<1>2. CASE Holds(p)
  <2>1. proc'[p] = r
    BY <1>2 DEF Renew, TypeOK
  <2>2. proc[p].mine \in Nat
    BY <1>0 DEF Locals
  <2>3. /\ r.pc = "held" /\ r.mine = proc[p].mine /\ r.seen = proc[p].mine /\ r.ram = proc[p].ram
        /\ r.memory = IF proc[p].seen \in {0, proc[p].mine} THEN proc[p].memory ELSE "old"
    BY <1>0, <2>2 DEF Noted, Locals
  <2>4. /\ lease'.gen = lease.gen /\ lease'.owner = lease.owner /\ lease'.term = "current"
    BY <1>2 DEF Renew, TypeOK, Leases
  <2> HIDE DEF r
  <2> QED
    BY <1>1, <1>2, <2>1, <2>3, <2>4
<1>3. CASE ~Holds(p)
  <2>1. proc'[p] = [[proc[p] EXCEPT !.pc = "acquire"] EXCEPT !.mine = 0] /\ UNCHANGED lease
    BY <1>3 DEF Renew, TypeOK
  <2>2. Remembers(p) /\ proc'[p].pc = "acquire" /\ proc'[p].mine = 0
    BY <1>0, <2>1 DEF Remembers, Locals
  <2> QED
    BY <1>1, <2>1, <2>2
<1> QED
  BY <1>2, <1>3

LEMMA AcquireStep ==
  ASSUME TypeOK, NEW p \in Processes, Acquire(p)
  PROVE  \/ /\ Others(p) /\ UNCHANGED slow /\ UNCHANGED book /\ UNCHANGED missed /\ UNCHANGED published
            /\ Free /\ lease' = [owner |-> p, gen |-> lease.gen + 1, term |-> "current"]
            /\ proc'[p].pc = "held" /\ proc'[p].mine = lease.gen + 1
            /\ proc'[p].seen = lease.gen + 1 /\ proc'[p].ram = proc[p].ram
            /\ proc'[p].memory =
                 IF proc[p].seen \in {0, lease.gen + 1} THEN proc[p].memory ELSE "old"
         \/ Plain(p)
<1> DEFINE gen == lease.gen + 1
           r == [Noted(proc[p], gen) EXCEPT !.pc = "held", !.mine = gen]
<1>0. proc[p] \in Locals
  BY DEF TypeOK
<1>1. Others(p) /\ UNCHANGED slow /\ UNCHANGED book /\ UNCHANGED missed /\ UNCHANGED published
  BY DEF Acquire, Others, position, spent, TypeOK
<1>2. CASE Free
  <2>1. proc'[p] = r /\ lease' = [owner |-> p, gen |-> gen, term |-> "current"]
    BY <1>2 DEF Acquire, TypeOK
  <2>2. /\ r.pc = "held" /\ r.mine = gen /\ r.seen = gen /\ r.ram = proc[p].ram
        /\ r.memory = IF proc[p].seen \in {0, gen} THEN proc[p].memory ELSE "old"
    <3> HIDE DEF gen
    <3> QED
      BY <1>0 DEF Noted, Locals
  <2> HIDE DEF r
  <2> QED
    BY <1>1, <1>2, <2>1, <2>2
<1>3. CASE ~Free
  <2>1. proc'[p] = Rested(proc[p]) /\ UNCHANGED lease
    BY <1>3 DEF Acquire, TypeOK
  <2>2. Remembers(p) /\ proc'[p].mine = proc[p].mine /\ proc'[p].pc \notin InTurn
    BY <1>0, <2>1 DEF Rested, Remembers, Locals, InTurn
  <2>3. Plain(p)
    BY <1>1, <2>1, <2>2 DEF Plain, Remembers
  <2> QED
    BY <2>3
<1> QED
  BY <1>2, <1>3

LEMMA AdoptStep ==
  ASSUME TypeOK, NEW p \in Processes, Adopt(p)
  PROVE  /\ Others(p) /\ UNCHANGED lease /\ UNCHANGED slow /\ UNCHANGED book /\ UNCHANGED missed
         /\ UNCHANGED published /\ proc[p].pc \in InTurn /\ proc'[p].pc = "acting"
         /\ proc'[p].mine = proc[p].mine /\ proc'[p].seen = proc[p].seen
         /\ \/ Remembers(p) \/ proc'[p].memory = "old"
            \/ book = 0 \/ proc'[p].ram = book
<1>0. proc[p] \in Locals
  BY DEF TypeOK
<1>1. /\ Others(p) /\ UNCHANGED lease /\ UNCHANGED slow /\ UNCHANGED book /\ UNCHANGED missed
      /\ UNCHANGED published /\ proc[p].pc = "claimed"
  BY DEF Adopt, Others, position, spent, TypeOK
<1>2. \/ proc'[p] = [proc[p] EXCEPT !.pc = "acting"]
      \/ \E m \in {"old", "fresh"}, n \in Nat, v \in {"ok", "unknown"} :
           /\ proc'[p] = [proc[p] EXCEPT
                           !.pc = "acting", !.memory = m, !.ram = n, !.verdict = v]
           /\ m = "old" \/ book = 0 \/ n = book
  <2>1. proc[p].ram \in Nat /\ proc[p].verdict \in {"ok", "unknown"} /\ mirror \in Nat /\ book \in Nat
    BY <1>0, LocalMoves DEF TypeOK
  <2>2. CASE proc' = [proc EXCEPT ![p].pc = "acting"]
    BY <2>2 DEF TypeOK
  <2>3. CASE \E m \in {"old", "fresh"}, n \in Nat, v \in {"ok", "unknown"} :
               /\ proc' = [proc EXCEPT ![p] = [proc[p] EXCEPT
                            !.pc = "acting", !.memory = m, !.ram = n, !.verdict = v]]
               /\ m = "old" \/ book = 0 \/ n = book
    BY <2>3 DEF TypeOK
  <2> QED
    BY <2>1, <2>2, <2>3 DEF Adopt
<1>3. \A m \in {"old", "fresh"}, n \in Nat, v \in {"ok", "unknown"} :
        LET r == [proc[p] EXCEPT !.pc = "acting", !.memory = m, !.ram = n, !.verdict = v]
        IN r.pc = "acting" /\ r.mine = proc[p].mine /\ r.seen = proc[p].seen
           /\ r.memory = m /\ r.ram = n
  BY <1>0 DEF Locals
<1>4. CASE proc'[p] = [proc[p] EXCEPT !.pc = "acting"]
  BY <1>0, <1>1, <1>4 DEF Remembers, Locals, InTurn
<1>5. ASSUME NEW m \in {"old", "fresh"}, NEW n \in Nat, NEW v \in {"ok", "unknown"},
             proc'[p] = [proc[p] EXCEPT !.pc = "acting", !.memory = m, !.ram = n, !.verdict = v],
             m = "old" \/ book = 0 \/ n = book
      PROVE  /\ proc'[p].pc = "acting"
             /\ proc'[p].mine = proc[p].mine /\ proc'[p].seen = proc[p].seen
             /\ proc'[p].memory = "old" \/ book = 0 \/ proc'[p].ram = book
  BY <1>3, <1>5
<1>6. proc[p].pc \in InTurn
  BY <1>1 DEF InTurn
<1> QED
  BY <1>1, <1>2, <1>4, <1>5, <1>6

LEMMA ActStep ==
  ASSUME TypeOK, NEW p \in Processes, Act(p)
  PROVE  /\ Others(p) /\ UNCHANGED lease /\ UNCHANGED slow /\ UNCHANGED published
         /\ proc[p].pc \in InTurn /\ proc'[p].pc \in InTurn
         /\ proc'[p].mine = proc[p].mine /\ proc'[p].seen = proc[p].seen
         /\ proc'[p].memory = proc[p].memory
         /\ \/ proc'[p].ram = proc[p].ram /\ UNCHANGED book /\ UNCHANGED missed
            \/ /\ MayBuy(p)
               /\ \E moved, told \in 0..Chunks :
                    /\ book' = book + moved /\ proc'[p].ram = told
                    /\ missed' = missed + Excess(moved, told)
            \/ \E moved, told \in 0..proc[p].ram :
                 /\ moved <= book /\ book' = book - moved /\ proc'[p].ram = proc[p].ram - told
                 /\ missed' = missed + Excess(told, moved)
<1>1. PICK r \in Locals :
        /\ proc' = [proc EXCEPT ![p] = r]
        /\ r.pc \in {"closing", "mirroring"} /\ r.claim = proc[p].claim
        /\ r.mine = proc[p].mine /\ r.seen = proc[p].seen /\ r.memory = proc[p].memory
        /\ \/ r.ram = proc[p].ram /\ UNCHANGED <<book, missed>>
           \/ /\ MayBuy(p)
              /\ \E moved, told \in 0..Chunks :
                   /\ book' = book + moved /\ r.ram = told
                   /\ missed' = missed + Excess(moved, told)
           \/ \E moved, told \in 0..proc[p].ram :
                /\ moved <= book /\ book' = book - moved /\ r.ram = proc[p].ram - told
                /\ missed' = missed + Excess(told, moved)
  BY ActForms
<1>2. Others(p) /\ proc'[p] = r
  BY <1>1 DEF Others, TypeOK
<1>3. UNCHANGED lease /\ UNCHANGED slow /\ UNCHANGED published /\ proc[p].pc = "acting"
  BY ActForms
<1> QED
  BY <1>1, <1>2, <1>3 DEF InTurn

LEMMA DownStep ==
  ASSUME TypeOK, NEW p \in Processes, Close(p) \/ Crash(p)
  PROVE  /\ Others(p) /\ UNCHANGED slow /\ UNCHANGED book /\ UNCHANGED missed /\ UNCHANGED published
         /\ proc'[p] = Started("down")
         /\ lease'.gen = lease.gen
         /\ UNCHANGED lease \/ Holds(p)
BY DEF Close, Crash, Others, position, spent, TypeOK, Leases

-----------------------------------------------------------------------------
\* The invariants of the lease and of the memory.

TurnInv == TypeOK /\ Generations /\ TurnsHold /\ OwnerKnows

LEMMA StepKinds ==
  ASSUME TypeOK, [Next]_vars
  PROVE  \/ UNCHANGED vars \/ Lapse
         \/ \E p \in Processes : \/ Plain(p) \/ Renew(p) \/ Acquire(p) \/ Adopt(p) \/ Act(p)
                                \/ Close(p) \/ Crash(p)
BY PlainSteps DEF Next, Turn

LEMMA Typing ==
  ASSUME TypeOK
  PROVE  /\ lease.gen \in Nat /\ published \in Nat /\ book \in Nat /\ slow \in Nat
         /\ missed \in Nat /\ Chunks \in Nat
         /\ \A p \in Processes :
              /\ proc[p].seen \in Nat /\ proc[p].mine \in Nat /\ proc[p].ram \in Nat
BY BreakerAssumption DEF TypeOK, Leases, Locals

LEMMA GenerationsStep == TypeOK /\ Generations /\ [Next]_vars => Generations'
<1> SUFFICES ASSUME TypeOK, Generations, [Next]_vars PROVE Generations'
  OBVIOUS
<1>1. CASE UNCHANGED vars
  BY <1>1 DEF vars, Generations
<1>2. CASE Lapse
  BY <1>2 DEF Lapse, Generations, TypeOK, Leases
<1>3. ASSUME NEW p \in Processes, Plain(p) PROVE Generations'
  BY <1>3, Typing DEF Plain, Others, Remembers, Generations
<1>4. ASSUME NEW p \in Processes, Renew(p) PROVE Generations'
  BY <1>4, Typing, RenewStep DEF Others, Remembers, Generations, Holds, InTurn
<1>5. ASSUME NEW p \in Processes, Acquire(p) PROVE Generations'
  <2>1. CASE Plain(p)
    BY <1>3, <2>1
  <2>2. CASE ~Plain(p)
    BY <1>5, <2>2, Typing, AcquireStep DEF Others, Generations
  <2> QED
    BY <2>1, <2>2
<1>6. ASSUME NEW p \in Processes, Adopt(p) PROVE Generations'
  BY <1>6, Typing, AdoptStep DEF Others, Remembers, Generations
<1>7. ASSUME NEW p \in Processes, Act(p) PROVE Generations'
  BY <1>7, Typing, ActStep DEF Others, Generations
<1>8. ASSUME NEW p \in Processes, Close(p) \/ Crash(p) PROVE Generations'
  BY <1>8, Typing, DownStep DEF Others, Started, Generations, InTurn
<1> QED
  BY StepKinds, <1>1, <1>2, <1>3, <1>4, <1>5, <1>6, <1>7, <1>8

LEMMA TurnsHoldStep == TypeOK /\ Generations /\ TurnsHold /\ [Next]_vars => TurnsHold'
<1> SUFFICES ASSUME TypeOK, Generations, TurnsHold, [Next]_vars PROVE TurnsHold'
  OBVIOUS
<1>1. CASE UNCHANGED vars
  BY <1>1 DEF vars, TurnsHold, Holds
<1>2. CASE Lapse
  <2>1. CASE Busy(lease.owner)
    BY <1>2, <2>1, Typing DEF Lapse, TurnsHold
  <2>2. CASE ~Busy(lease.owner)
    BY <1>2, <2>2 DEF Lapse, Busy, TurnsHold, Holds
  <2> QED
    BY <2>1, <2>2
<1>3. ASSUME NEW p \in Processes, Plain(p) PROVE TurnsHold'
  BY <1>3 DEF Plain, Others, TurnsHold, Holds
<1>4. ASSUME NEW p \in Processes, Renew(p) PROVE TurnsHold'
  BY <1>4, RenewStep DEF Others, TurnsHold, Holds, InTurn
<1>5. ASSUME NEW p \in Processes, Acquire(p) PROVE TurnsHold'
  <2>1. CASE Plain(p)
    BY <1>3, <2>1
  <2>2. CASE ~Plain(p)
    BY <1>5, <2>2, AcquireStep, NobodyAssumption DEF Others, TurnsHold, Holds, Free
  <2> QED
    BY <2>1, <2>2
<1>6. ASSUME NEW p \in Processes, Adopt(p) PROVE TurnsHold'
  BY <1>6, AdoptStep DEF Others, TurnsHold, Holds
<1>7. ASSUME NEW p \in Processes, Act(p) PROVE TurnsHold'
  BY <1>7, ActStep DEF Others, TurnsHold, Holds
<1>8. ASSUME NEW p \in Processes, Close(p) \/ Crash(p) PROVE TurnsHold'
  BY <1>8, DownStep DEF Others, Started, TurnsHold, Holds, InTurn
<1> QED
  BY StepKinds, <1>1, <1>2, <1>3, <1>4, <1>5, <1>6, <1>7, <1>8

LEMMA OwnerKnowsStep ==
  TypeOK /\ Generations /\ TurnsHold /\ OwnerKnows /\ [Next]_vars => OwnerKnows'
<1> SUFFICES ASSUME TypeOK, Generations, TurnsHold, OwnerKnows, [Next]_vars PROVE OwnerKnows'
  OBVIOUS
<1>1. CASE UNCHANGED vars
  BY <1>1 DEF vars, OwnerKnows
<1>2. CASE Lapse
  BY <1>2, Typing DEF Lapse, OwnerKnows, position, TypeOK, Leases
<1>3. ASSUME NEW p \in Processes, Plain(p) PROVE OwnerKnows'
  BY <1>3 DEF Plain, Others, Remembers, OwnerKnows
<1>4. ASSUME NEW p \in Processes, Renew(p) PROVE OwnerKnows'
  BY <1>4, Typing, RenewStep DEF Others, Remembers, OwnerKnows, Generations, Holds
<1>5. ASSUME NEW p \in Processes, Acquire(p) PROVE OwnerKnows'
  <2>1. CASE Plain(p)
    BY <1>3, <2>1
  <2>2. CASE ~Plain(p)
    BY <1>5, <2>2, Typing, AcquireStep DEF Others, OwnerKnows, Generations
  <2> QED
    BY <2>1, <2>2
<1>6. ASSUME NEW p \in Processes, Adopt(p) PROVE OwnerKnows'
  <2>1. /\ UNCHANGED lease /\ UNCHANGED slow /\ UNCHANGED book /\ UNCHANGED missed
        /\ \A q \in Processes : q # p => proc'[q] = proc[q]
        /\ proc'[p].seen = proc[p].seen
        /\ \/ Remembers(p) \/ proc'[p].memory = "old"
           \/ book = 0 \/ proc'[p].ram = book
    BY <1>6, AdoptStep DEF Others
  <2>2. proc'[p].ram \in Nat
    <3>1. TypeOK'
      BY TypeStep
    <3> QED
      BY <3>1 DEF TypeOK, Locals
  <2>3. book = 0 \/ proc'[p].ram = book => book <= proc'[p].ram + missed
    BY <2>2, Typing
  <2> QED
    BY <2>1, <2>3 DEF Remembers, OwnerKnows
<1>7. ASSUME NEW p \in Processes, Act(p), slow = 0
      PROVE  /\ book' <= Chunks + missed'
             /\ \A q \in Processes :
                  proc'[q].memory = "fresh" /\ proc'[q].seen = lease.gen
                    => book' <= proc'[q].ram + missed'
  <2>0. Chunks \in Nat /\ missed \in Nat /\ book \in Nat /\ proc[p].ram \in Nat
    BY Typing
  <2>1. proc[p].seen = lease.gen /\ lease.gen # 0
    BY <1>7, ActStep, Typing DEF TurnsHold, Generations, Holds
  <2>2. \A q \in Processes : q # p => proc'[q] = proc[q] /\ proc[q].seen # lease.gen
    BY <1>7, <2>1, ActStep DEF Others, Generations
  <2>3. CASE proc'[p].ram = proc[p].ram /\ UNCHANGED book /\ UNCHANGED missed
    BY <1>7, <2>2, <2>3, ActStep DEF OwnerKnows
  <2>4. ASSUME MayBuy(p), NEW moved \in 0..Chunks, NEW told \in 0..Chunks,
               book' = book + moved, proc'[p].ram = told,
               missed' = missed + Excess(moved, told)
        PROVE  book' <= Chunks + missed' /\ book' <= proc'[p].ram + missed'
    <3>1. book <= missed
      <4>1. proc[p].memory = "fresh" /\ proc[p].ram = 0
        BY <2>4 DEF MayBuy
      <4>2. book <= proc[p].ram + missed
        BY <1>7, <2>1, <4>1 DEF OwnerKnows
      <4> QED
        BY <2>0, <4>1, <4>2
    <3>2. /\ moved \in Nat /\ told \in Nat /\ moved <= Chunks
          /\ Excess(moved, told) \in Nat /\ moved <= told + Excess(moved, told)
      <4>1. moved \in Nat /\ told \in Nat /\ moved <= Chunks
        BY <2>0
      <4> QED
        BY <4>1, ExcessBound
    <3> QED
      BY <2>0, <2>4, <3>1, <3>2
  <2>5. ASSUME NEW moved \in 0..proc[p].ram, NEW told \in 0..proc[p].ram, moved <= book,
               book' = book - moved, proc'[p].ram = proc[p].ram - told,
               missed' = missed + Excess(told, moved)
        PROVE  /\ book' <= Chunks + missed'
               /\ book <= proc[p].ram + missed => book' <= proc'[p].ram + missed'
    <3>1. /\ moved \in Nat /\ told \in Nat /\ told <= proc[p].ram
          /\ Excess(told, moved) \in Nat /\ told <= moved + Excess(told, moved)
      <4>1. moved \in Nat /\ told \in Nat /\ told <= proc[p].ram
        BY <2>0
      <4> QED
        BY <4>1, ExcessBound
    <3>2. book <= Chunks + missed
      BY <1>7 DEF OwnerKnows
    <3> QED
      BY <2>0, <2>5, <3>1, <3>2
  <2>6. /\ book' <= Chunks + missed'
        /\ proc[p].memory = "fresh" => book' <= proc'[p].ram + missed'
    <3>1. proc[p].memory = "fresh" => book <= proc[p].ram + missed
      BY <1>7, <2>1 DEF OwnerKnows
    <3>2. CASE /\ MayBuy(p)
               /\ \E moved, told \in 0..Chunks :
                    /\ book' = book + moved /\ proc'[p].ram = told
                    /\ missed' = missed + Excess(moved, told)
      BY <2>4, <3>2
    <3>3. CASE \E moved, told \in 0..proc[p].ram :
                 /\ moved <= book /\ book' = book - moved /\ proc'[p].ram = proc[p].ram - told
                 /\ missed' = missed + Excess(told, moved)
      BY <2>5, <3>1, <3>3
    <3>4. CASE proc'[p].ram = proc[p].ram /\ UNCHANGED book /\ UNCHANGED missed
      BY <1>7, <3>1, <3>4 DEF OwnerKnows
    <3> QED
      BY <1>7, <3>2, <3>3, <3>4, ActStep
  <2>7. proc'[p].memory = proc[p].memory
    BY <1>7, ActStep
  <2>8. ASSUME NEW q \in Processes, proc'[q].memory = "fresh", proc'[q].seen = lease.gen
        PROVE  book' <= proc'[q].ram + missed'
    BY <2>2, <2>6, <2>7, <2>8
  <2> QED
    BY <2>6, <2>8
<1>8. ASSUME NEW p \in Processes, Act(p) PROVE OwnerKnows'
  BY <1>7, <1>8, ActStep DEF OwnerKnows
<1>9. ASSUME NEW p \in Processes, Close(p) \/ Crash(p) PROVE OwnerKnows'
  BY <1>9, DownStep DEF Others, Started, OwnerKnows
<1> QED
  BY StepKinds, <1>1, <1>2, <1>3, <1>4, <1>5, <1>6, <1>8, <1>9

LEMMA TurnInvariant == Spec => []TurnInv
<1>1. Init => TurnInv
  <2>1. Init => Generations /\ TurnsHold /\ OwnerKnows
    BY BreakerAssumption DEF Init, Started, Generations, TurnsHold, OwnerKnows, InTurn
  <2> QED
    BY <2>1, TypeInit DEF TurnInv
<1>2. TurnInv /\ [Next]_vars => TurnInv'
  BY TypeStep, GenerationsStep, TurnsHoldStep, OwnerKnowsStep DEF TurnInv
<1> QED
  BY <1>1, <1>2, PTL DEF Spec

\* However many processes have the engine switched on, as long as no lease lapses in a
\* turn no two of them are in a turn together.
THEOREM TurnsExclude == Spec => []OneTurnAtATime
<1>1. TurnInv => OneTurnAtATime
  BY DEF TurnInv, TurnsHold, Holds, OneTurnAtATime
<1> QED
  BY <1>1, TurnInvariant, PTL

\* A turn is never settled after one of a later owner, even if its lease lapsed meanwhile.
THEOREM SettlesInOrder == Spec => SettledInOrder
<1>1. TurnInv /\ [Next]_vars => [published' >= published]_published
  <2> SUFFICES ASSUME TurnInv, [Next]_vars PROVE published' >= published \/ UNCHANGED published
    OBVIOUS
  <2>1. published \in Nat /\ published <= lease.gen
    BY Typing DEF TurnInv, Generations
  <2>2. \A p \in Processes : Plain(p) => published' \in {published, lease.gen}
    BY DEF Plain
  <2>3. \A p \in Processes : Renew(p) \/ Acquire(p) \/ Adopt(p) \/ Act(p) \/ Close(p) \/ Crash(p)
          => UNCHANGED published \/ Plain(p)
    BY RenewStep, AcquireStep, AdoptStep, ActStep, DownStep DEF TurnInv
  <2> QED
    BY <2>1, <2>2, <2>3, StepKinds DEF TurnInv, vars, Lapse
<1> QED
  BY <1>1, TurnInvariant, PTL DEF Spec, SettledInOrder

\* Across crashes, hand-overs, failed readoptions and settlements that memory does not
\* follow, the position never exceeds one order by more than the lots that settlements kept
\* from memory, as long as no lease lapses in a turn.
THEOREM NeverBuysTwice == Spec => []NoSecondBuy
<1>1. TurnInv => NoSecondBuy
  BY DEF TurnInv, OwnerKnows, NoSecondBuy
<1> QED
  BY <1>1, TurnInvariant, PTL

-----------------------------------------------------------------------------
\* The cycle ledger.

CycleInv == TypeOK /\ Inserting /\ OneTurnPerCycle

\* What the steps do to the claims and the ledger: a number is proposed, a proposed number
\* is inserted, a claim is kept or dropped, or a claimed row is settled.
LEMMA ClaimSteps ==
  ASSUME TypeOK, NEW p \in Processes, Turn(p) \/ Fail(p) \/ Close(p) \/ Crash(p)
  PROVE  /\ Others(p)
         /\ \/ /\ UNCHANGED ticks
               /\ \/ proc'[p].pc \notin {"inserting", "recording", "claimed", "acting", "mirroring",
                                       "closing"}
                  \/ proc'[p].claim = Len(ticks) + 1 /\ proc'[p].pc \in {"inserting", "recording"}
                  \/ Claimed(p) /\ Claimed(p)' /\ proc'[p].claim = proc[p].claim
            \/ /\ proc[p].pc = "inserting" /\ ~Taken(proc[p].claim)
               /\ ticks' = Append(ticks, [by |-> p, state |-> "claimed"])
               /\ proc'[p].pc = "claimed" /\ proc'[p].claim = proc[p].claim
            \/ /\ proc[p].pc = "recording" /\ ~Taken(proc[p].claim)
               /\ ticks' = Append(ticks, [by |-> p, state |-> "failed"])
               /\ proc'[p].pc = "idle"
            \/ /\ Claimed(p) /\ proc'[p].pc = "idle"
               /\ ticks' = [ticks EXCEPT ![proc[p].claim].state = "settled"]
<1>0. proc[p] \in Locals
  BY DEF TypeOK
<1>1. Rested(proc[p]).pc = "idle" /\ [Rested(proc[p]) EXCEPT !.mine = 0].pc = "idle"
  BY <1>0 DEF Rested, Locals
<1>2. CASE Renew(p)
  <2>1. proc'[p].pc \in {"held", "acquire"}
    BY <1>2, RenewStep
  <2>2. UNCHANGED ticks
    BY <1>2 DEF Renew
  <2> QED
    BY <1>2, <2>1, <2>2, RenewStep
<1>3. CASE Acquire(p)
  <2>1. proc'[p] \in {[Noted(proc[p], lease.gen + 1) EXCEPT !.pc = "held", !.mine = lease.gen + 1],
                     Rested(proc[p])}
    BY <1>3 DEF Acquire, TypeOK
  <2>2. lease.gen + 1 \in Nat
    BY DEF TypeOK, Leases
  <2>3. [Noted(proc[p], lease.gen + 1) EXCEPT !.pc = "held", !.mine = lease.gen + 1].pc = "held"
    BY <1>0, <2>2, NotedType DEF Locals
  <2>4. Others(p) /\ UNCHANGED ticks
    BY <1>3 DEF Acquire, Others, TypeOK
  <2> QED
    BY <1>1, <2>1, <2>3, <2>4
<1>4. CASE CheckLease(p)
  <2>1. proc'[p] \in {[proc[p] EXCEPT !.pc = "claiming"], Rested(proc[p])}
    BY <1>4 DEF CheckLease, TypeOK
  <2>2. [proc[p] EXCEPT !.pc = "claiming"].pc = "claiming"
    BY <1>0 DEF Locals
  <2>3. Others(p) /\ UNCHANGED ticks
    BY <1>4 DEF CheckLease, Others, TypeOK
  <2> QED
    BY <1>1, <2>1, <2>2, <2>3
<1>5. CASE ReadSeq(p)
  <2> DEFINE r == [proc[p] EXCEPT !.pc = "inserting", !.claim = Len(ticks) + 1]
  <2>1. proc'[p] \in {r, Rested(proc[p])}
    BY <1>5 DEF ReadSeq, TypeOK
  <2>2. r.pc = "inserting" /\ r.claim = Len(ticks) + 1
    BY <1>0 DEF Locals
  <2>3. Others(p) /\ UNCHANGED ticks
    BY <1>5 DEF ReadSeq, Others, TypeOK
  <2> QED
    BY <1>1, <2>1, <2>2, <2>3
<1>6. CASE InsertClaim(p)
  <2> DEFINE r == [proc[p] EXCEPT !.pc = "claiming", !.claim = 0, !.tries = proc[p].tries + 1]
            c == [proc[p] EXCEPT !.pc = "claimed"]
  <2>1. r.pc = "claiming" /\ c.pc = "claimed" /\ c.claim = proc[p].claim
    BY <1>0 DEF Locals
  <2>2. Others(p) /\ proc[p].pc = "inserting"
    BY <1>6 DEF InsertClaim, Others, TypeOK
  <2>3. CASE Taken(proc[p].claim)
    <3>1. proc'[p] \in {r, Rested(proc[p])} /\ UNCHANGED ticks
      BY <1>6, <2>3 DEF InsertClaim, TypeOK
    <3> QED
      BY <1>1, <2>1, <2>2, <3>1
  <2>4. CASE ~Taken(proc[p].claim)
    <3>1. proc'[p] = c /\ ticks' = Append(ticks, [by |-> p, state |-> "claimed"])
      BY <1>6, <2>4 DEF InsertClaim, TypeOK
    <3> QED
      BY <2>1, <2>2, <2>4, <3>1
  <2> QED
    BY <2>3, <2>4
<1>7. CASE Adopt(p)
  <2>1. Others(p) /\ UNCHANGED ticks /\ proc[p].pc = "claimed"
    BY <1>7 DEF Adopt, Others, TypeOK
  <2>2. proc'[p].pc = "acting" /\ proc'[p].claim = proc[p].claim
    <3>1. \/ proc'[p] = [proc[p] EXCEPT !.pc = "acting"]
          \/ \E m \in {"old", "fresh"}, n \in Nat, v \in {"ok", "unknown"} :
               proc'[p] = [proc[p] EXCEPT !.pc = "acting", !.memory = m, !.ram = n, !.verdict = v]
      <4>1. proc[p].ram \in Nat /\ proc[p].verdict \in {"ok", "unknown"} /\ mirror \in Nat /\ book \in Nat
        BY <1>0, LocalMoves DEF TypeOK
      <4>2. CASE proc' = [proc EXCEPT ![p].pc = "acting"]
        BY <4>2 DEF TypeOK
      <4>3. CASE \E m \in {"old", "fresh"}, n \in Nat, v \in {"ok", "unknown"} :
                   proc' = [proc EXCEPT ![p] = [proc[p] EXCEPT
                              !.pc = "acting", !.memory = m, !.ram = n, !.verdict = v]]
        BY <4>3 DEF TypeOK
      <4> QED
        BY <1>7, <4>1, <4>2, <4>3 DEF Adopt
    <3>2. \A m \in {"old", "fresh"}, n \in Nat, v \in {"ok", "unknown"} :
            LET r == [proc[p] EXCEPT !.pc = "acting", !.memory = m, !.ram = n, !.verdict = v]
            IN  r.pc = "acting" /\ r.claim = proc[p].claim
      BY <1>0 DEF Locals
    <3>3. /\ [proc[p] EXCEPT !.pc = "acting"].pc = "acting"
          /\ [proc[p] EXCEPT !.pc = "acting"].claim = proc[p].claim
      BY <1>0 DEF Locals
    <3>4. ASSUME NEW m \in {"old", "fresh"}, NEW n \in Nat, NEW v \in {"ok", "unknown"},
                 proc'[p] = [proc[p] EXCEPT !.pc = "acting", !.memory = m, !.ram = n, !.verdict = v]
          PROVE  proc'[p].pc = "acting" /\ proc'[p].claim = proc[p].claim
      BY <3>2, <3>4
    <3>5. CASE proc'[p] = [proc[p] EXCEPT !.pc = "acting"]
      BY <3>3, <3>5
    <3> QED
      BY <3>1, <3>4, <3>5
  <2> QED
    BY <2>1, <2>2 DEF Claimed
<1>8. CASE Act(p)
  <2>1. Others(p) /\ UNCHANGED ticks /\ proc[p].pc = "acting"
    BY <1>8 DEF Act, Others, TypeOK
  <2>2. proc'[p].pc \in {"closing", "mirroring"} /\ proc'[p].claim = proc[p].claim
    BY <1>8, ActForms DEF TypeOK
  <2> QED
    BY <2>1, <2>2 DEF Claimed
<1>9. CASE Mirror(p)
  <2>1. Others(p) /\ UNCHANGED ticks /\ proc[p].pc = "mirroring"
    BY <1>9 DEF Mirror, Others, TypeOK
  <2>2. proc'[p].pc = "closing" /\ proc'[p].claim = proc[p].claim
    BY <1>0, <1>9 DEF Mirror, TypeOK, Locals
  <2> QED
    BY <2>1, <2>2 DEF Claimed
<1>10. CASE Settle(p)
  <2>1. Others(p) /\ proc[p].pc = "closing" /\ proc'[p].pc = "idle"
    BY <1>1, <1>10 DEF Settle, Others, TypeOK
  <2>2. UNCHANGED ticks \/ ticks' = [ticks EXCEPT ![proc[p].claim].state = "settled"]
    BY <1>10 DEF Settle
  <2> QED
    BY <2>1, <2>2 DEF Claimed
<1>11. CASE CountTicks(p)
  <2>1. proc'[p] = [[proc[p] EXCEPT !.pc = "recording"] EXCEPT !.claim = Len(ticks) + 1]
    BY <1>11 DEF CountTicks, TypeOK
  <2>2. proc'[p].pc = "recording" /\ proc'[p].claim = Len(ticks) + 1
    BY <1>0, <2>1 DEF Locals
  <2>3. Others(p) /\ UNCHANGED ticks
    BY <1>11 DEF CountTicks, Others, TypeOK
  <2> QED
    BY <2>2, <2>3
<1>12. CASE RecordFailure(p)
  <2>1. proc'[p] = [[proc[p] EXCEPT !.pc = "idle"] EXCEPT !.claim = 0]
    BY <1>12 DEF RecordFailure, TypeOK
  <2>2. proc'[p].pc = "idle"
    BY <1>0, <2>1 DEF Locals
  <2>3. Others(p) /\ proc[p].pc = "recording"
    BY <1>12 DEF RecordFailure, Others, TypeOK
  <2>4. \/ UNCHANGED ticks
        \/ ~Taken(proc[p].claim) /\ ticks' = Append(ticks, [by |-> p, state |-> "failed"])
    BY <1>12 DEF RecordFailure
  <2> QED
    BY <2>2, <2>3, <2>4
<1>13. CASE Fail(p)
  <2>1. proc'[p] = [proc[p] EXCEPT !.pc = "failing", !.claim = 0, !.tries = 0,
                                   !.fails = proc[p].fails + 1]
    BY <1>13 DEF Fail, TypeOK
  <2>2. proc'[p].pc = "failing"
    BY <1>0, <2>1 DEF Locals
  <2>3. Others(p) /\ UNCHANGED ticks
    BY <1>13 DEF Fail, Others, TypeOK
  <2> QED
    BY <2>2, <2>3
<1>14. CASE Close(p) \/ Crash(p)
  <2>1. UNCHANGED ticks
    BY <1>14 DEF Close, Crash
  <2> QED
    BY <1>14, <2>1, DownStep DEF Started
<1> QED
  BY <1>2, <1>3, <1>4, <1>5, <1>6, <1>7, <1>8, <1>9, <1>10, <1>11, <1>12, <1>13, <1>14 DEF Turn

LEMMA CycleStep == CycleInv /\ [Next]_vars => Inserting' /\ OneTurnPerCycle'
<1> SUFFICES ASSUME CycleInv, [Next]_vars PROVE Inserting' /\ OneTurnPerCycle'
  OBVIOUS
<1>0. TypeOK /\ Inserting /\ OneTurnPerCycle /\ Len(ticks) \in Nat /\ ticks \in Seq(Ticks)
  BY LenProperties DEF CycleInv, TypeOK
<1>1. CASE UNCHANGED vars
  BY <1>0, <1>1 DEF vars, Inserting, OneTurnPerCycle, Claimed
<1>2. CASE Lapse
  BY <1>0, <1>2 DEF Lapse, Inserting, OneTurnPerCycle, Claimed
<1>3. ASSUME NEW p \in Processes, Turn(p) \/ Fail(p) \/ Close(p) \/ Crash(p)
      PROVE  Inserting' /\ OneTurnPerCycle'
  <2>0. Others(p)
    BY <1>0, <1>3, ClaimSteps
  <2>1. CASE /\ UNCHANGED ticks
             /\ \/ proc'[p].pc \notin {"inserting", "recording", "claimed", "acting", "mirroring",
                                     "closing"}
                \/ proc'[p].claim = Len(ticks) + 1 /\ proc'[p].pc \in {"inserting", "recording"}
                \/ Claimed(p) /\ Claimed(p)' /\ proc'[p].claim = proc[p].claim
    BY <1>0, <2>0, <2>1 DEF Others, Inserting, OneTurnPerCycle, Claimed
  <2>2. CASE /\ proc[p].pc = "inserting" /\ ~Taken(proc[p].claim)
             /\ ticks' = Append(ticks, [by |-> p, state |-> "claimed"])
             /\ proc'[p].pc = "claimed" /\ proc'[p].claim = proc[p].claim
    <3>1. proc[p].claim = Len(ticks) + 1
      BY <1>0, <2>2 DEF Inserting, Taken
    <3>2. [by |-> p, state |-> "claimed"] \in Ticks
      BY DEF Ticks
    <3>3. /\ Len(ticks') = Len(ticks) + 1 /\ ticks'[Len(ticks) + 1] = [by |-> p, state |-> "claimed"]
          /\ \A i \in 1..Len(ticks) : ticks'[i] = ticks[i]
      BY <1>0, <2>2, <3>2, AppendProperties
    <3>4. Inserting'
      BY <1>0, <2>0, <2>2, <3>3 DEF Others, Inserting
    <3>5. \A q \in Processes : q # p /\ Claimed(q)' =>
            /\ proc'[q].claim \in 1..Len(ticks)
            /\ ticks'[proc'[q].claim] = [by |-> q, state |-> "claimed"]
      BY <1>0, <2>0, <3>3 DEF Others, OneTurnPerCycle, Claimed
    <3>6. proc'[p].claim = Len(ticks) + 1 /\ ticks'[proc'[p].claim] = [by |-> p, state |-> "claimed"]
      BY <2>2, <3>1, <3>3
    <3>7. ASSUME NEW q \in Processes, q # p, Claimed(q)'
          PROVE  proc'[q].claim # Len(ticks) + 1
      <4>1. Len(ticks) \in Nat
        BY <1>0
      <4>2. proc'[q].claim \in 1..Len(ticks)
        BY <3>5, <3>7
      <4> QED
        BY <4>1, <4>2
    <3>8. ASSUME NEW q \in Processes, NEW o \in Processes, Claimed(q)', Claimed(o)',
                 proc'[q].claim = proc'[o].claim
          PROVE  q = o
      <4>1. CASE q = p \/ o = p
        BY <3>6, <3>7, <3>8, <4>1
      <4>2. CASE q # p /\ o # p
        <5>1. [by |-> q, state |-> "claimed"] = [by |-> o, state |-> "claimed"]
          BY <3>5, <3>8, <4>2
        <5> QED
          BY <5>1
      <4> QED
        BY <4>1, <4>2
    <3>9. \A q \in Processes : Claimed(q)' =>
            /\ proc'[q].claim \in 1..Len(ticks')
            /\ ticks'[proc'[q].claim] = [by |-> q, state |-> "claimed"]
      BY <1>0, <3>3, <3>5, <3>6
    <3>10. OneTurnPerCycle'
      BY <3>8, <3>9 DEF OneTurnPerCycle
    <3> QED
      BY <3>4, <3>10
  <2>3. CASE /\ proc[p].pc = "recording" /\ ~Taken(proc[p].claim)
             /\ ticks' = Append(ticks, [by |-> p, state |-> "failed"])
             /\ proc'[p].pc = "idle"
    <3>1. [by |-> p, state |-> "failed"] \in Ticks
      BY DEF Ticks
    <3>2. /\ Len(ticks') = Len(ticks) + 1
          /\ \A i \in 1..Len(ticks) : ticks'[i] = ticks[i]
      BY <1>0, <2>3, <3>1, AppendProperties
    <3> QED
      BY <1>0, <2>0, <2>3, <3>2 DEF Others, Inserting, OneTurnPerCycle, Claimed
  <2>4. CASE /\ Claimed(p) /\ proc'[p].pc = "idle"
             /\ ticks' = [ticks EXCEPT ![proc[p].claim].state = "settled"]
    <3>1. proc[p].claim \in 1..Len(ticks)
      BY <1>0, <2>4 DEF OneTurnPerCycle
    <3>2. ticks[proc[p].claim] \in Ticks
      BY <1>0, <3>1, ElementOfSeq
    <3>3. [ticks[proc[p].claim] EXCEPT !.state = "settled"] \in Ticks
      BY <3>2 DEF Ticks
    <3>4. Len(ticks') = Len(ticks)
      BY <1>0, <2>4, <3>1, <3>3, ExceptSeq
    <3>5. \A i \in 1..Len(ticks) : i # proc[p].claim => ticks'[i] = ticks[i]
      BY <1>0, <2>4, <3>1, <3>3, ExceptSeq
    <3>6. \A q \in Processes : q # p /\ Claimed(q) => proc[q].claim # proc[p].claim
      BY <1>0, <2>4 DEF OneTurnPerCycle
    <3> QED
      BY <1>0, <2>0, <2>4, <3>4, <3>5, <3>6 DEF Others, Inserting, OneTurnPerCycle, Claimed
  <2> QED
    BY <1>0, <1>3, <2>1, <2>2, <2>3, <2>4, ClaimSteps
<1> QED
  BY <1>1, <1>2, <1>3 DEF Next

LEMMA CycleInvariant == Spec => []CycleInv
<1>1. Init => CycleInv
  <2>1. Init => Inserting /\ OneTurnPerCycle
    BY DEF Init, Started, Inserting, OneTurnPerCycle, Claimed
  <2> QED
    BY <2>1, TypeInit DEF CycleInv
<1>2. CycleInv /\ [Next]_vars => CycleInv'
  BY TypeStep, CycleStep DEF CycleInv
<1> QED
  BY <1>1, <1>2, PTL DEF Spec

\* A cycle of the ledger belongs to one turn and is untouched until that turn settles it,
\* however many turns overlap or fail.
THEOREM CycleHasOneTurn == Spec => []OneTurnPerCycle
<1>1. CycleInv => OneTurnPerCycle
  BY DEF CycleInv
<1> QED
  BY <1>1, CycleInvariant, PTL

-----------------------------------------------------------------------------
\* The refinement of the fenced journal.

\* The row of a turn is this turn's, still unsettled.
LEMMA ClaimedRow ==
  ASSUME CycleInv, NEW p \in Processes, Claimed(p)
  PROVE  /\ proc[p].claim \in 1..Len(ticks)
         /\ ticks[proc[p].claim] = [by |-> p, state |-> "claimed"]
BY DEF CycleInv, OneTurnPerCycle

LEMMA JournalStep == CycleInv /\ [Next]_vars => [Journal!Next]_(Journal!vars)
<1> SUFFICES ASSUME CycleInv, [Next]_vars PROVE [Journal!Next]_(Journal!vars)
  OBVIOUS
<1> USE DEF position, spent
<1>0. TypeOK
  BY DEF CycleInv
<1>1. ASSUME UNCHANGED <<lease, ticks, published>> PROVE UNCHANGED Journal!vars
  BY <1>1 DEF Journal!vars
<1>2. CASE UNCHANGED vars
  BY <1>1, <1>2 DEF vars
<1>3. CASE Lapse
  BY <1>0, <1>3 DEF Lapse, Journal!vars, TypeOK, Leases
<1>4. ASSUME NEW p \in Processes, Renew(p) PROVE UNCHANGED Journal!vars
  <2>1. lease'.owner = lease.owner /\ lease'.gen = lease.gen
    BY <1>0, <1>4, RenewStep
  <2> QED
    BY <1>4, <2>1 DEF Renew, Journal!vars
<1>5. ASSUME NEW p \in Processes, Acquire(p) PROVE [Journal!Next]_(Journal!vars)
  <2>1. CASE Free
    <3>1. lease'.owner = p /\ lease'.gen = lease.gen + 1 /\ UNCHANGED <<ticks, published>>
      BY <1>5, <2>1 DEF Acquire
    <3>2. Journal!TakeOffice(p)
      BY <3>1 DEF Journal!TakeOffice
    <3> QED
      BY <3>2 DEF Journal!Next
  <2>2. CASE ~Free
    BY <1>1, <1>5, <2>2 DEF Acquire
  <2> QED
    BY <2>1, <2>2
<1>6. ASSUME NEW p \in Processes, InsertClaim(p) PROVE [Journal!Next]_(Journal!vars)
  <2>1. CASE Taken(proc[p].claim)
    BY <1>1, <1>6, <2>1 DEF InsertClaim
  <2>2. CASE ~Taken(proc[p].claim)
    <3>1. Journal!Enter(p, "claimed")
      BY <1>6, <2>2 DEF InsertClaim, Journal!Enter, Journal!office
    <3> QED
      BY <3>1 DEF Journal!Next
  <2> QED
    BY <2>1, <2>2
<1>7. ASSUME NEW p \in Processes, Settle(p) PROVE [Journal!Next]_(Journal!vars)
  <2>1. CASE Holds(p)
    <3> DEFINE c == proc[p].claim
    <3>1. c \in 1..Len(ticks) /\ ticks[c] = [by |-> lease.owner, state |-> "claimed"]
      BY <1>7, <2>1, ClaimedRow DEF Settle, Claimed, Holds
    <3>2. /\ ticks' = [ticks EXCEPT ![c].state = "settled"]
          /\ published' = lease.gen /\ UNCHANGED lease
      BY <1>7, <2>1 DEF Settle, Fenced, Holds
    <3>3. Journal!Settle(c)
      BY <3>1, <3>2 DEF Journal!Settle, Journal!office
    <3> QED
      BY <3>1, <3>3 DEF Journal!Next
  <2>2. CASE ~Holds(p)
    BY <1>1, <1>7, <2>2 DEF Settle, Fenced
  <2> QED
    BY <2>1, <2>2
<1>8. ASSUME NEW p \in Processes, RecordFailure(p) PROVE [Journal!Next]_(Journal!vars)
  <2>1. CASE UNCHANGED ticks
    BY <1>1, <1>8, <2>1 DEF RecordFailure
  <2>2. CASE ticks' = Append(ticks, [by |-> p, state |-> "failed"])
    <3>1. Journal!Enter(p, "failed")
      BY <1>8, <2>2 DEF RecordFailure, Journal!Enter, Journal!office
    <3> QED
      BY <3>1 DEF Journal!Next
  <2> QED
    BY <1>8, <2>1, <2>2 DEF RecordFailure
<1>9. ASSUME NEW p \in Processes, Close(p) PROVE [Journal!Next]_(Journal!vars)
  <2>1. CASE Holds(p)
    <3>1. lease'.owner = Nobody /\ lease'.gen = lease.gen /\ UNCHANGED <<ticks, published>>
      BY <1>0, <1>9, <2>1 DEF Close, TypeOK, Leases
    <3>2. Journal!LeaveOffice
      BY <3>1 DEF Journal!LeaveOffice
    <3> QED
      BY <3>2 DEF Journal!Next
  <2>2. CASE ~Holds(p)
    BY <1>1, <1>9, <2>2 DEF Close
  <2> QED
    BY <2>1, <2>2
<1>10. ASSUME NEW p \in Processes,
              \/ CheckLease(p) \/ ReadSeq(p) \/ Adopt(p) \/ Act(p) \/ Mirror(p)
              \/ CountTicks(p) \/ Fail(p) \/ Crash(p)
       PROVE  UNCHANGED <<lease, ticks, published>>
  BY <1>10 DEF CheckLease, ReadSeq, Adopt, Act, Mirror, CountTicks, Fail, Crash
<1> QED
  BY <1>1, <1>2, <1>3, <1>4, <1>5, <1>6, <1>7, <1>8, <1>9, <1>10 DEF Next, Turn

\* The lease and the ledger of cycles implement the fenced journal, whatever the number of
\* processes, turns and lapses: no cycle is lost or rewritten, and one is settled only
\* once, by its own turn, under the lease in force.
THEOREM ImplementsJournal == Spec => IsFencedJournal
<1>1. Init => Journal!Init
  BY DEF Init, Journal!Init
<1> QED
  BY <1>1, CycleInvariant, JournalStep, PTL DEF Spec, IsFencedJournal, Journal!Spec
=============================================================================
