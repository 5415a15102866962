---------------------------- MODULE EngineTurns ----------------------------
(***************************************************************************)
(* The automatic engine driven by several processes, one turn at a time    *)
(* (auto_engine_state_store.py, auto_simulation_worker.py: AutoSimRuntime, *)
(* real_turn, readopt_positions).                                          *)
(*                                                                         *)
(* A process renews or acquires the lease of the engine, claims a cycle in *)
(* the ledger of ticks, readopts the position when its memory may be old,  *)
(* trades, and settles the claimed cycle behind the fence of the lease.  A *)
(* turn that raises is entered in the ledger without fence; a streak of    *)
(* them pauses the process.  Every statement that another session can see  *)
(* is one step.                                                            *)
(*                                                                         *)
(* A process is one life of a process: its owner name holds a fresh uuid,  *)
(* so that a restart is another member of Processes.  One instrument       *)
(* stands for all; the book (the applied fills of the account) counts its  *)
(* lots.  An order is filled in chunks, each of which commits its own      *)
(* money, and memory follows what the settlement of the order reports: the *)
(* two may part.  The guards that may veto a trade besides those written   *)
(* here only make the engine trade less.                                   *)
(***************************************************************************)
EXTENDS Naturals, Sequences

CONSTANTS
  Processes,  \* lives of processes of the API with the engine switched on
  Nobody,     \* no process
  Breaker,    \* failed turns in a row that pause a process
  Tries,      \* attempts at a sequence number of the ledger
  Chunks,     \* fills of an order, one lot each (_FILL_CHUNKS)
  MaxGen,     \* bound: generations of the lease
  MaxTicks,   \* bound: rows of the ledger
  MaxSlow,    \* bound: leases that lapse in the middle of a turn
  MaxFaults   \* bound: turns that raise and settlements that memory does not follow

ASSUME NobodyAssumption == Nobody \notin Processes
ASSUME BreakerAssumption == /\ Breaker \in Nat \ {0} /\ Tries \in Nat \ {0}
                            /\ Chunks \in Nat \ {0}
ASSUME BoundsAssumption == /\ MaxGen \in Nat /\ MaxTicks \in Nat /\ MaxSlow \in Nat
                           /\ MaxFaults \in Nat

VARIABLES
  lease,      \* the lease columns of auto_engine_runs
  ticks,      \* auto_engine_ticks by seq: who inserted the row and what it says
  published,  \* the generation under which a turn was last settled
  book,       \* lots the applied fills have left in the account
  mirror,     \* lots in the row of sim_auto_positions
  missed,     \* history: lots that memory was not told of, bought, or told of too soon, sold
  proc,       \* [Processes -> local state]
  slow, faults  \* leases lapsed in a turn; turns that raised and settlements not followed

vars == <<lease, ticks, published, book, mirror, missed, proc, slow, faults>>
position == <<book, mirror, missed>>
spent == <<slow, faults>>

InTurn == {"held", "claiming", "inserting", "claimed", "acting", "mirroring", "closing"}

Started(pc) ==
  [pc |-> pc, mine |-> 0, seen |-> 0, memory |-> "old", verdict |-> "ok", ram |-> 0,
   claim |-> 0, tries |-> 0, fails |-> 0]

Init ==
  /\ lease = [owner |-> Nobody, gen |-> 0, term |-> "current"]
  /\ ticks = <<>>
  /\ published = 0
  /\ book = 0 /\ mirror = 0 /\ missed = 0
  /\ proc = [p \in Processes |-> Started("idle")]
  /\ slow = 0 /\ faults = 0

-----------------------------------------------------------------------------
\* The statements on the lease.

\* A change: the owner of the row is not compared.
HoldsAnything(p) == proc[p].mine # 0

\* WHERE lease_owner = :owner AND lease_generation = :generation.
Holds(p) == lease.owner = p /\ lease.gen = proc[p].mine

\* A change: a lease that has run out is not handed over.
OnlyIfReleased == lease.owner = Nobody

\* WHERE lease_owner IS NULL OR lease_expires_at <= now().
Free == lease.owner = Nobody \/ lease.term = "over"

\* A change: a new generation is no reason to distrust the memory.
NeverReadopts(q, gen) == [q EXCEPT !.seen = gen]

\* _note_lease_generation: the position has to be readopted when the lease has changed
\* hands since this process last saw it.
Noted(q, gen) ==
  [q EXCEPT !.seen = gen, !.memory = IF q.seen \in {0, gen} THEN q.memory ELSE "old"]

\* run_tick ends without an exception, and with it the streak of failed turns.
Rested(q) == [q EXCEPT !.pc = "idle", !.claim = 0, !.tries = 0, !.fails = 0]

\* After a streak of failed turns the process pauses, and nothing resumes it.
Paused(p) == proc[p].fails >= Breaker

\* _hold_lease: renew_lease does not ask whether the lease has run out.
Renew(p) ==
  /\ proc[p].pc = "idle" /\ ~Paused(p) /\ proc[p].mine # 0
  /\ IF Holds(p)
       THEN /\ lease' = [lease EXCEPT !.term = "current"]
            /\ proc' = [proc EXCEPT ![p] =
                          [Noted(proc[p], proc[p].mine) EXCEPT !.pc = "held"]]
       ELSE /\ proc' = [proc EXCEPT ![p].pc = "acquire", ![p].mine = 0]
            /\ UNCHANGED lease
  /\ UNCHANGED <<ticks, published, position, spent>>

Acquire(p) ==
  /\ \/ proc[p].pc = "acquire"
     \/ proc[p].pc = "idle" /\ ~Paused(p) /\ proc[p].mine = 0
  /\ IF Free
       THEN /\ lease.gen < MaxGen
            /\ lease' = [owner |-> p, gen |-> lease.gen + 1, term |-> "current"]
            /\ proc' = [proc EXCEPT ![p] = [Noted(proc[p], lease.gen + 1) EXCEPT
                          !.pc = "held", !.mine = lease.gen + 1]]
       ELSE /\ proc' = [proc EXCEPT ![p] = Rested(proc[p])]
            /\ UNCHANGED lease
  /\ UNCHANGED <<ticks, published, position, spent>>

-----------------------------------------------------------------------------
\* claim_cycle: the lease is looked at without a lock, MAX(seq) + 1 is read, and the
\* row is inserted if nobody else has taken the number.

CheckLease(p) ==
  /\ proc[p].pc = "held"
  /\ proc' = [proc EXCEPT ![p] =
               IF Holds(p) THEN [proc[p] EXCEPT !.pc = "claiming"] ELSE Rested(proc[p])]
  /\ UNCHANGED <<lease, ticks, published, position, spent>>

ReadSeq(p) ==
  /\ proc[p].pc = "claiming"
  /\ proc' = [proc EXCEPT ![p] =
               IF Len(ticks) < MaxTicks
                 THEN [proc[p] EXCEPT !.pc = "inserting", !.claim = Len(ticks) + 1]
                 ELSE Rested(proc[p])]
  /\ UNCHANGED <<lease, ticks, published, position, spent>>

\* A change: the unique index does not arbitrate.
TakenNever(seq) == FALSE

Taken(seq) == seq <= Len(ticks)

InsertClaim(p) ==
  LET q == proc[p] IN
  /\ q.pc = "inserting"
  /\ IF Taken(q.claim)
       THEN /\ proc' = [proc EXCEPT ![p] =
                 IF q.tries + 1 < Tries
                   THEN [q EXCEPT !.pc = "claiming", !.claim = 0, !.tries = q.tries + 1]
                   ELSE Rested(q)]
            /\ UNCHANGED ticks
       ELSE /\ ticks' = Append(ticks, [by |-> p, state |-> "claimed"])
            /\ proc' = [proc EXCEPT ![p].pc = "claimed"]
  /\ UNCHANGED <<lease, published, position, spent>>

-----------------------------------------------------------------------------
\* real_turn: what it trades.

\* readopt_positions, which corrects memory symbol by symbol and never clears it.  What the
\* book holds is taken over and written to the mirror; a row of the mirror that the book
\* does not confirm is kept and vetoes openings; a flat symbol gets no verdict, so that the
\* last one stands.  When the book cannot be read, or not even the mirror, the turn opens
\* nothing and the next one tries again.  (A memory that says 0 outlives the mirror's row.)
Adopt(p) ==
  LET q == proc[p]
      kept == {q.ram} \cup (IF q.ram = 0 THEN {mirror} ELSE {})
      with(memory, known, verdict) ==
        [q EXCEPT !.pc = "acting", !.memory = memory, !.ram = known, !.verdict = verdict]
  IN
  /\ q.pc = "claimed"
  /\ \/ /\ q.memory = "fresh"
        /\ proc' = [proc EXCEPT ![p].pc = "acting"]
        /\ UNCHANGED mirror
     \/ /\ q.memory = "old" /\ book > 0
        /\ proc' = [proc EXCEPT ![p] = with("fresh", book, "ok")]
        /\ mirror' = book
     \/ /\ q.memory = "old" /\ book = 0
        /\ \E known \in kept :
             proc' = [proc EXCEPT ![p] =
                        with("fresh", known, IF mirror > 0 THEN "unknown" ELSE q.verdict)]
        /\ UNCHANGED mirror
     \/ /\ q.memory = "old"
        /\ \/ proc' = [proc EXCEPT ![p] = with("old", q.ram, "unknown")]
           \/ \E known \in kept :
                proc' = [proc EXCEPT ![p] =
                           with("old", known, IF mirror > 0 THEN "unknown" ELSE "ok")]
        /\ UNCHANGED mirror
  /\ UNCHANGED <<lease, ticks, published, book, missed, spent>>

\* A turn opens only when it knows of no position, the last readoption was complete and
\* vetoed nothing and the last turn did not fail.
MayBuy(p) ==
  /\ proc[p].ram = 0 /\ proc[p].memory = "fresh"
  /\ proc[p].verdict = "ok" /\ proc[p].fails = 0

\* _next_logical_order_id: an order is named by the bar and by its place among the intents
\* that the process has had in it, so that another process may use a name again; its
\* fills are then "already_applied".
Resends(p) == proc[p].mine > 1

Excess(m, n) == IF m > n THEN m - n ELSE 0

\* _settle: moved lots have changed hands, and memory hears of told lots.  It hears of fewer
\* when a later chunk raises ("no fill in this tick", although the earlier chunks have
\* committed their money), when the row of a chunk cannot be marked, or when something
\* raises between the settlement and _open; and of more when the order was filled before.
Settlement(p, moved, told, lack) ==
  /\ told > moved => Resends(p)
  /\ told # moved => faults < MaxFaults
  /\ faults' = IF told = moved THEN faults ELSE faults + 1
  /\ missed' = missed + lack

\* A settlement that reports no fill leaves memory and mirror alone (FILL_NOT_MATERIALIZED).
Followed(told) == IF told = 0 THEN "closing" ELSE "mirroring"

\* One symbol of auto_turn: nothing, a change of the plan of a position it knows of, an
\* entry or an exit.  The money of an exit is refused beyond what the account holds.
Act(p) ==
  /\ proc[p].pc = "acting"
  /\ \/ /\ proc' = [proc EXCEPT ![p].pc = "closing"]
        /\ UNCHANGED <<book, missed, faults>>
     \/ /\ proc[p].ram > 0
        /\ proc' = [proc EXCEPT ![p].pc = "mirroring"]
        /\ UNCHANGED <<book, missed, faults>>
     \/ /\ MayBuy(p)
        /\ \E moved, told \in 0..Chunks :
             /\ Settlement(p, moved, told, Excess(moved, told))
             /\ book' = book + moved
             /\ proc' = [proc EXCEPT ![p].pc = Followed(told), ![p].ram = told]
     \/ \E moved, told \in 0..proc[p].ram :
          /\ moved <= book
          /\ Settlement(p, moved, told, Excess(told, moved))
          /\ book' = book - moved
          /\ proc' = [proc EXCEPT ![p].pc = Followed(told), ![p].ram = proc[p].ram - told]
  /\ UNCHANGED <<lease, ticks, published, mirror, slow>>

\* _persist_position, whose failure does not stop the turn.
Mirror(p) ==
  /\ proc[p].pc = "mirroring"
  /\ mirror' \in {proc[p].ram, mirror}
  /\ proc' = [proc EXCEPT ![p].pc = "closing"]
  /\ UNCHANGED <<lease, ticks, published, book, missed, spent>>

-----------------------------------------------------------------------------
\* The end of a turn.

\* A change: the turn is settled whoever drives the engine.
FencedNever(p) == TRUE

\* _assert_lease, under the lock of the run row that the settling UPDATE keeps.
Fenced(p) == Holds(p)

\* record_tick: the claimed row is settled, or AutoEngineLeaseLost drops the turn.
Settle(p) ==
  /\ proc[p].pc = "closing"
  /\ IF Fenced(p)
       THEN /\ ticks' = [ticks EXCEPT ![proc[p].claim].state = "settled"]
            /\ published' = proc[p].mine
            /\ proc' = [proc EXCEPT ![p] = Rested(proc[p])]
       ELSE /\ proc' = [proc EXCEPT ![p] = [Rested(proc[p]) EXCEPT !.mine = 0]]
            /\ UNCHANGED <<ticks, published>>
  /\ UNCHANGED <<lease, position, spent>>

\* A turn raises, at any statement of it; note_tick_failure counts it, and the next turn
\* opens nothing.  The lease is kept.
Fail(p) ==
  /\ proc[p].pc \in InTurn \cup {"acquire"} /\ faults < MaxFaults
  /\ faults' = faults + 1
  /\ proc' = [proc EXCEPT ![p] =
               [proc[p] EXCEPT !.pc = "failing", !.claim = 0, !.tries = 0,
                               !.fails = proc[p].fails + 1]]
  /\ UNCHANGED <<lease, ticks, published, position, slow>>

\* record_failure_tick: the number of rows is read, and a row with the next number is
\* inserted without any fence, unless somebody has taken the number meanwhile.
CountTicks(p) ==
  /\ proc[p].pc = "failing"
  /\ proc' = [proc EXCEPT ![p].pc = "recording", ![p].claim = Len(ticks) + 1]
  /\ UNCHANGED <<lease, ticks, published, position, spent>>

RecordFailure(p) ==
  /\ proc[p].pc = "recording"
  /\ IF Taken(proc[p].claim) \/ proc[p].claim > MaxTicks
       THEN UNCHANGED ticks
       ELSE ticks' = Append(ticks, [by |-> p, state |-> "failed"])
  /\ proc' = [proc EXCEPT ![p].pc = "idle", ![p].claim = 0]
  /\ UNCHANGED <<lease, published, position, spent>>

\* close: the loop is cancelled, in the middle of a turn or between two, and the lease
\* is released if it is still this process's.
Close(p) ==
  /\ proc[p].pc # "down"
  /\ lease' = IF Holds(p) THEN [lease EXCEPT !.owner = Nobody, !.term = "current"] ELSE lease
  /\ proc' = [proc EXCEPT ![p] = Started("down")]
  /\ UNCHANGED <<ticks, published, position, spent>>

Crash(p) ==
  /\ proc[p].pc # "down"
  /\ proc' = [proc EXCEPT ![p] = Started("down")]
  /\ UNCHANGED <<lease, ticks, published, position, spent>>

\* The time to live of the lease passes: while its owner is between two turns, paused or
\* dead, or in the middle of a turn that takes longer.
Busy(p) == p \in Processes /\ proc[p].pc \in InTurn /\ Holds(p)

Lapse ==
  /\ lease.owner # Nobody /\ lease.term = "current"
  /\ lease' = [lease EXCEPT !.term = "over"]
  /\ IF Busy(lease.owner)
       THEN slow < MaxSlow /\ slow' = slow + 1
       ELSE UNCHANGED slow
  /\ UNCHANGED <<ticks, published, position, proc, faults>>

-----------------------------------------------------------------------------
Turn(p) ==
  \/ Renew(p) \/ Acquire(p) \/ CheckLease(p) \/ ReadSeq(p) \/ InsertClaim(p)
  \/ Adopt(p) \/ Act(p) \/ Mirror(p) \/ Settle(p) \/ CountTicks(p) \/ RecordFailure(p)

Next == Lapse \/ \E p \in Processes : Turn(p) \/ Fail(p) \/ Close(p) \/ Crash(p)

Spec == Init /\ [][Next]_vars

\* auto_sim_loop runs for ever, and time passes.
Idling == lease.owner # Nobody /\ ~Busy(lease.owner)
FairSpec ==
  /\ Spec
  /\ \A p \in Processes : WF_vars(Turn(p))
  /\ WF_vars(Lapse /\ Idling)

-----------------------------------------------------------------------------
Leases == [owner : Processes \cup {Nobody}, gen : Nat, term : {"current", "over"}]
Ticks == [by : Processes, state : {"claimed", "settled", "failed"}]
Locals ==
  [pc : InTurn \cup {"idle", "acquire", "failing", "recording", "down"},
   mine : Nat, seen : Nat, memory : {"old", "fresh"}, verdict : {"ok", "unknown"},
   ram : Nat, claim : Nat, tries : Nat, fails : Nat]

TypeOK ==
  /\ lease \in Leases
  /\ ticks \in Seq(Ticks)
  /\ published \in Nat
  /\ book \in Nat
  /\ mirror \in Nat
  /\ missed \in Nat
  /\ proc \in [Processes -> Locals]
  /\ slow \in Nat
  /\ faults \in Nat

\* As long as no turn outlives its lease, two processes are never in a turn together:
\* what acquire_lease promises ("el llamante NO ejecuta el ciclo").  Only the record of
\* a turn is fenced, its trades are not, so that a slow turn has no such promise.
OneTurnAtATime ==
  slow = 0 => \A p, q \in Processes : proc[p].pc \in InTurn /\ proc[q].pc \in InTurn => p = q

\* Turns that overlap never share a cycle, and nobody touches the row of a cycle before
\* its own turn settles it (claim_cycle, and the rows of failed turns beside it).
Claimed(p) == proc[p].pc \in {"claimed", "acting", "mirroring", "closing"}
OneTurnPerCycle ==
  \A p \in Processes : Claimed(p) =>
    /\ proc[p].claim \in 1..Len(ticks)
    /\ ticks[proc[p].claim] = [by |-> p, state |-> "claimed"]
    /\ \A q \in Processes : Claimed(q) /\ proc[q].claim = proc[p].claim => q = p

\* A turn is never settled after one of a later owner, however long it takes ("la valla":
\* _assert_lease and the generations that never go back).
SettledInOrder == [][published' >= published]_published

\* The run row and the ledger of ticks are a journal that only the driver in office
\* settles: no cycle is lost or rewritten, none is settled twice or by another process,
\* and none under a lease that has passed on, however late its turn ends (claim_cycle,
\* record_tick and record_failure_tick together).
Journal == INSTANCE FencedJournal WITH
  Drivers <- Processes, owner <- lease.owner, term <- lease.gen, journal <- ticks,
  last <- published
IsFencedJournal == Journal!Spec

\* The engine only buys on top of lots that a settlement kept from its memory: crashes,
\* hand-overs and failed readoptions never make it do so, as long as no turn outlives its
\* lease (G7, "no segundo BUY tras crash").
NoSecondBuy == slow = 0 => book <= Chunks + missed

\* The memory a turn trades by, once readopted without a veto, is the book ("hay que
\* reconstruir _open desde sim_auto_positions en vez de heredar una memoria que dejó de
\* ser suya", require_position_readopt).
MemoryIsRebuilt ==
  slow = 0 => \A p \in Processes :
    proc[p].pc = "acting" /\ proc[p].memory = "fresh" /\ proc[p].verdict = "ok"
      => proc[p].ram = book

\* A dead owner does not stop the engine while another process can drive it.
Drives(p) == proc[p].pc # "down" /\ ~Paused(p)
OwnerIsReplaced ==
  \A p \in Processes :
    lease.owner = p /\ proc[p].pc = "down"
      ~> \/ lease.owner # p
         \/ \A q \in Processes : ~Drives(q)
         \/ lease.gen = MaxGen
=============================================================================
