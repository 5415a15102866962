---------------------------- MODULE Reservations ----------------------------
(***************************************************************************)
(* The reservations of capital that go before the orders of the automatic  *)
(* engine (reservation_store.py, portfolio_reservation.py, and the V2      *)
(* reservations of auto_simulation_worker.py).                             *)
(*                                                                         *)
(* The plan of a turn claims a row for every signal it approves, commits,  *)
(* and only then emits the orders; what an order fills is freed from its   *)
(* row, and the close of the turn retires the rows whose order is dead.    *)
(* The engines of one account share the table without a lock: a release    *)
(* reads its row, computes, and writes the whole row back.  Who may retire *)
(* a row is decided by who claimed it and by its age against the stamp of  *)
(* its creation, which has the grain of a second.                          *)
(*                                                                         *)
(* A signal stands for its reservation (the id is a hash of account and    *)
(* signal), its instrument and the buying order of its cycle; quantities   *)
(* are lots.  A signal keeps its identity for a whole bar, so that a       *)
(* released row may be claimed again.  Exit reservations, which have an id *)
(* of their own each, and the kill switch, which only stops new approvals, *)
(* are left out.                                                           *)
(***************************************************************************)
EXTENDS Naturals, FiniteSets

CONSTANTS
  Sessions,   \* engines of the account, each with one process at a time
  Signals,    \* approved signals of the bar
  Want,       \* lots an order asks for
  Grain,      \* instants in one second, the resolution of created_at
  Interval,   \* instants between two turns of a session (one, in turns)
  MaxTurn,    \* instants a turn lasts at most, from the clock it reads
  MaxFaults   \* bound: crashes and statements that raise

ASSUME SignalsAssumption == Signals # {}
ASSUME WantAssumption == Want \in Nat \ {0}
ASSUME GrainAssumption == Grain \in Nat \ {0}
\* The contract of the scheduler: a turn fits in the interval.
ASSUME TurnAssumption == Interval \in Nat /\ MaxTurn \in Nat /\ MaxTurn <= Interval
ASSUME BoundsAssumption == MaxFaults \in Nat

VARIABLES
  row,        \* portfolio_reservations: what is left of each and how it ended
  age,        \* instants since the stamp of a live row
  trace,      \* lots of each signal captured in execution_events, not applied
  made,       \* lots of each signal applied since its row, if live, was claimed
  consumed,   \* sim_consumed_signals of each engine
  proc,       \* [Sessions -> local state of its process]
  stale,      \* [Sessions -> signals another session has claimed since this one claimed
              \*              or listed them]
  torn,       \* whether a session has written over a row that was stale to it
  faults      \* crashes and statements that have raised

vars == <<row, age, trace, made, consumed, proc, stale, torn, faults>>
fills == <<trace, made, consumed>>

Live(g) == row[g].state = "open" /\ row[g].left > 0
LiveSet == {g \in Signals : Live(g)}

Least(m, n) == IF m <= n THEN m ELSE n

NoCopy == [left |-> 0, done |-> 0]

\* What a new process starts from.
Fresh ==
  [pc |-> "down", boot |-> "yes", clock |-> 0, sure |-> "yes", book |-> {}, owned |-> {},
   todo |-> {}, keep |-> {}, old |-> {}, flying |-> {}, credit |-> [g \in Signals |-> 0],
   item |-> CHOOSE g \in Signals : TRUE, qty |-> 0, copy |-> NoCopy]

Init ==
  /\ row = [g \in Signals |-> [state |-> "none", left |-> 0, done |-> 0]]
  /\ age = [g \in Signals |-> 0]
  /\ trace = [g \in Signals |-> 0]
  /\ made = [g \in Signals |-> 0]
  /\ consumed = [s \in Sessions |-> {}]
  /\ proc = [s \in Sessions |-> Fresh]
  /\ stale = [s \in Sessions |-> {}] /\ torn = "no"
  /\ faults = 0

-----------------------------------------------------------------------------
\* The age of a row, as a session reckons it from the clock its turn has read.

\* A change: the window leaves out the resolution of the stamp.
BareWindow == Interval

\* reservation_grace_window: one turn, and the resolution of the stamp.
Window == Interval + Grain

Cap == Window + MaxTurn + 1


\* _v2_reservation_is_aged: clock - created > window.
Aged(s, g) == age[g] > Window + proc[s].clock

-----------------------------------------------------------------------------
\* A turn begins: its clock is read, and the plan approves signals its engine has not
\* consumed, none when the book could not be measured.
Plan(s) ==
  /\ proc[s].pc = "asleep" /\ proc[s].clock >= Interval
  /\ \E chosen \in SUBSET (Signals \ consumed[s]) :
       /\ proc[s].sure = "yes" \/ chosen = {}
       /\ proc' = [proc EXCEPT ![s].pc = "claim", ![s].clock = 0, ![s].todo = chosen]
  /\ UNCHANGED <<row, age, fills, stale, torn, faults>>

\* A change: a row that is there is taken over, live or not.
ClaimsAll(g) == TRUE

\* save_claim: ON CONFLICT DO NOTHING, then UPDATE ... WHERE status != OPEN OR
\* remaining_qty <= 0.
Claimable(g) == ~Live(g)

\* _v2_persist_tick_reservations.  A lost race and a row the book already held veto the
\* order; the row that was won is owned either way.
Claim(s, g) ==
  /\ proc[s].pc = "claim" /\ g \in proc[s].todo
  /\ IF Claimable(g)
       THEN /\ row' = [row EXCEPT ![g] = [state |-> "open", left |-> Want, done |-> 0]]
            /\ \E cut \in 0..(Grain - 1) : age' = [age EXCEPT ![g] = proc[s].clock + cut]
            /\ made' = [made EXCEPT ![g] = 0]
            /\ stale' = [t \in Sessions |-> IF t = s THEN stale[t] \ {g} ELSE stale[t] \cup {g}]
            /\ proc' = [proc EXCEPT
                 ![s].todo = proc[s].todo \ {g},
                 ![s].owned = proc[s].owned \cup {g},
                 ![s].book = proc[s].book \cup {g},
                 ![s].flying = IF g \in proc[s].book THEN proc[s].flying
                                                     ELSE proc[s].flying \cup {g}]
       ELSE /\ proc' = [proc EXCEPT ![s].todo = proc[s].todo \ {g}]
            /\ UNCHANGED <<row, age, made, stale>>
  /\ UNCHANGED <<trace, consumed, torn, faults>>

\* The statement raises: the row is not durable and the signal is blocked.
ClaimRaises(s, g) ==
  /\ proc[s].pc = "claim" /\ g \in proc[s].todo
  /\ faults < MaxFaults /\ faults' = faults + 1
  /\ proc' = [proc EXCEPT ![s].todo = proc[s].todo \ {g}]
  /\ UNCHANGED <<row, age, fills, stale, torn>>

-----------------------------------------------------------------------------
\* The orders of the turn: the fills are captured, then applied.  What is not applied, for
\* now or for good, stays in execution_events and nothing comes back for it: the sweep of
\* stale fills only makes them RETRY, and a FAILED one is as unapplied as any.

Emit(s, g) ==
  /\ proc[s].pc = "claim" /\ proc[s].todo = {} /\ g \in proc[s].flying
  /\ \E n \in 0..Want : trace' = [trace EXCEPT ![g] = Least(trace[g] + n, Want)]
  /\ proc' = [proc EXCEPT ![s].pc = "apply", ![s].item = g]
  /\ UNCHANGED <<row, age, made, consumed, stale, torn, faults>>

\* One row of execution_events at a time moves to APPLIED.
Applied(g, k) ==
  /\ trace' = [trace EXCEPT ![g] = trace[g] - k]
  /\ made' = [made EXCEPT ![g] = IF Live(g) THEN Least(made[g] + k, Want) ELSE 0]

\* A settlement that raises after some lots were applied reports none.
Settle(s) ==
  LET g == proc[s].item IN
  /\ proc[s].pc = "apply"
  /\ \E k \in 0..trace[g] : \E told \in {0, k} :
       /\ told = k \/ faults < MaxFaults
       /\ faults' = IF told = k THEN faults ELSE faults + 1
       /\ Applied(g, k)
       /\ proc' = [proc EXCEPT ![s].pc = IF told > 0 THEN "free" ELSE "claim",
                               ![s].flying = proc[s].flying \ {g},
                               ![s].qty = told]
  /\ UNCHANGED <<row, age, consumed, stale, torn>>

\* The signal is consumed, and the row is read to free what was filled.
Free(s) ==
  LET g == proc[s].item IN
  /\ proc[s].pc = "free"
  /\ consumed' = [consumed EXCEPT ![s] = @ \cup {g}]
  /\ proc' = [proc EXCEPT
       ![s].pc = IF Live(g) THEN "freed" ELSE "claim",
       ![s].qty = IF Live(g) THEN proc[s].qty ELSE 0,
       ![s].copy = IF Live(g) THEN [left |-> row[g].left, done |-> row[g].done] ELSE NoCopy]
  /\ UNCHANGED <<row, age, trace, made, stale, torn, faults>>

\* ReservationLedger.release: what the row becomes when qty lots of it are released.
Released(copy, qty, end) ==
  [state |-> IF qty >= copy.left THEN end ELSE "open",
   left |-> copy.left - Least(qty, copy.left),
   done |-> copy.done + Least(qty, copy.left)]

\* save: INSERT ... ON CONFLICT DO NOTHING, then UPDATE of every column by id alone.
Save(s, g, new) ==
  /\ row' = [row EXCEPT ![g] = new]
  /\ age' = [age EXCEPT ![g] = IF new.state = "open" THEN age[g] ELSE 0]
  /\ made' = [made EXCEPT ![g] = IF new.state = "open" THEN made[g] ELSE 0]
  /\ torn' = IF g \in stale[s] THEN "yes" ELSE torn

Freed(s) ==
  LET g == proc[s].item
      new == Released(proc[s].copy, proc[s].qty, "filled") IN
  /\ proc[s].pc = "freed"
  /\ Save(s, g, new)
  /\ proc' = [proc EXCEPT
       ![s].pc = "claim", ![s].qty = 0, ![s].copy = NoCopy,
       ![s].book = IF new.state = "open" THEN proc[s].book ELSE proc[s].book \ {g}]
  /\ UNCHANGED <<trace, consumed, stale, faults>>

\* The release raises: what is not durable is not released.
FreeRaises(s) ==
  /\ proc[s].pc = "freed"
  /\ faults < MaxFaults /\ faults' = faults + 1
  /\ proc' = [proc EXCEPT ![s].pc = "claim", ![s].qty = 0, ![s].copy = NoCopy]
  /\ UNCHANGED <<row, age, fills, stale, torn>>

-----------------------------------------------------------------------------
\* _v2_reconcile_reservations, at the start of a process and at the close of each turn.

\* A process starts, or a turn has emitted its orders.
Closing(s) ==
  \/ proc[s].pc = "down"
  \/ proc[s].pc = "claim" /\ proc[s].todo = {} /\ proc[s].flying = {}

\* The first turn follows the start at once, the next one after the pause.
Rest(s) == IF proc[s].boot = "yes" THEN Interval ELSE 0

\* An empty book, and so a failed read of it, leaves the session owner of nothing.
Emptied(s, sure) ==
  [proc[s] EXCEPT !.pc = "asleep", !.boot = "no", !.clock = Rest(s), !.sure = sure,
                  !.book = {}, !.owned = {}]

List(s) ==
  /\ Closing(s)
  /\ stale' = [stale EXCEPT ![s] = @ \ (LiveSet \ proc[s].owned)]
  /\ proc' = [proc EXCEPT ![s] =
       IF LiveSet = {} THEN Emptied(s, "yes")
       ELSE [proc[s] EXCEPT !.pc = "read", !.todo = LiveSet,
                            !.old = {g \in LiveSet : Aged(s, g)}]]
  /\ UNCHANGED <<row, age, fills, torn, faults>>

ListRaises(s) ==
  /\ Closing(s)
  /\ faults < MaxFaults /\ faults' = faults + 1
  /\ proc' = [proc EXCEPT ![s] = Emptied(s, "no")]
  /\ UNCHANGED <<row, age, fills, stale, torn>>

\* A session decides over the rows it has claimed and over aged ones; at the start
\* of a process it owns nothing.
Mine(s) == IF proc[s].boot = "yes" THEN {} ELSE proc[s].owned

\* At the start the applied fills since the stamp of a row are credited to it; any
\* other row is dead when both reads succeeded and nothing of its order is in flight.  A
\* captured fill whose context cannot be read is passed over, and the reading counts.
Read(s) ==
  /\ proc[s].pc = "read"
  /\ \E facts, traces \in {"read", "raised"}, unseen \in SUBSET {g \in Signals : trace[g] > 0} :
       LET measured == facts = "read" /\ traces = "read"
           flawless == measured /\ unseen = {}
           judged == proc[s].todo \cap (Mine(s) \cup proc[s].old)
           credit == [g \in Signals |->
                        IF g \in judged /\ proc[s].boot = "yes" /\ facts = "read"
                          THEN made[g] ELSE 0]
           dead == {g \in judged : measured /\ (trace[g] = 0 \/ g \in unseen)}
           ending == {g \in Signals : credit[g] > 0} \cup dead IN
       /\ flawless \/ faults < MaxFaults
       /\ faults' = IF flawless THEN faults ELSE faults + 1
       /\ proc' = [proc EXCEPT ![s].pc = "judge", ![s].credit = credit,
                               ![s].todo = ending, ![s].keep = proc[s].todo \ ending, ![s].old = {},
                               ![s].sure = IF measured THEN "yes" ELSE "no"]
  /\ UNCHANGED <<row, age, fills, stale, torn>>

\* _release reads the row again; one that is no longer live is not touched, and stays
\* in the book of the session as it was listed.
Judge(s, g) ==
  /\ proc[s].pc = "judge" /\ g \in proc[s].todo
  /\ proc' = [proc EXCEPT ![s] =
       IF Live(g) THEN [proc[s] EXCEPT !.pc = "write", !.item = g,
                                       !.copy = [left |-> row[g].left, done |-> row[g].done]]
                  ELSE [proc[s] EXCEPT !.todo = @ \ {g}, !.keep = @ \cup {g}]]
  /\ UNCHANGED <<row, age, fills, stale, torn, faults>>

JudgeRaises(s, g) ==
  /\ proc[s].pc = "judge" /\ g \in proc[s].todo
  /\ faults < MaxFaults /\ faults' = faults + 1
  /\ proc' = [proc EXCEPT ![s].todo = proc[s].todo \ {g}, ![s].keep = proc[s].keep \cup {g}]
  /\ UNCHANGED <<row, age, fills, stale, torn>>

Write(s) ==
  LET g == proc[s].item
      q == proc[s]
      new == IF q.credit[g] > 0 THEN Released(q.copy, q.credit[g], "filled")
                                ELSE Released(q.copy, q.copy.left, "closed") IN
  /\ q.pc = "write"
  /\ Save(s, g, new)
  /\ proc' = [proc EXCEPT
       ![s].pc = "judge", ![s].copy = NoCopy, ![s].todo = q.todo \ {g},
       ![s].keep = IF new.state = "open" THEN q.keep \cup {g} ELSE q.keep]
  /\ UNCHANGED <<trace, consumed, stale, faults>>

\* The book is what was kept; what is no longer in it is no longer owned.
Settled(s) ==
  /\ proc[s].pc = "judge" /\ proc[s].todo = {}
  /\ proc' = [proc EXCEPT
       ![s].pc = "asleep", ![s].boot = "no", ![s].clock = Rest(s), ![s].book = proc[s].keep,
       ![s].owned = proc[s].owned \cap proc[s].keep,
       ![s].keep = {}, ![s].credit = [g \in Signals |-> 0]]
  /\ UNCHANGED <<row, age, fills, stale, torn, faults>>

-----------------------------------------------------------------------------
\* Time passes: a turn keeps to its contract, a pause and an age are counted as far
\* as they are compared.
Busy(s) == proc[s].pc \notin {"down", "asleep"}

Tick ==
  /\ \A s \in Sessions : Busy(s) => proc[s].clock < MaxTurn
  /\ age' = [g \in Signals |-> IF Live(g) THEN Least(age[g] + 1, Cap) ELSE age[g]]
  /\ proc' = [s \in Sessions |->
       CASE Busy(s) -> [proc[s] EXCEPT !.clock = proc[s].clock + 1]
         [] proc[s].pc = "asleep" ->
              [proc[s] EXCEPT !.clock = Least(proc[s].clock + 1, Interval)]
         [] OTHER -> proc[s]]
  /\ UNCHANGED <<row, fills, stale, torn, faults>>

\* The process dies; its engine comes back as a process without memory.
Crash(s) ==
  /\ proc[s].pc # "down"
  /\ faults < MaxFaults /\ faults' = faults + 1
  /\ proc' = [proc EXCEPT ![s] = Fresh]
  /\ UNCHANGED <<row, age, fills, stale, torn>>

Work(s) ==
  \/ Plan(s) \/ Settle(s) \/ Free(s) \/ Freed(s) \/ List(s)
  \/ Read(s) \/ Write(s) \/ Settled(s)
  \/ \E g \in Signals : Claim(s, g) \/ Emit(s, g) \/ Judge(s, g)

Raise(s) ==
  \/ ListRaises(s) \/ FreeRaises(s)
  \/ \E g \in Signals : ClaimRaises(s, g) \/ JudgeRaises(s, g)

Next ==
  \/ \E s \in Sessions : Work(s) \/ Raise(s) \/ Crash(s)
  \/ Tick

Spec == Init /\ [][Next]_vars

\* Every process goes on and is started again, and time passes.
FairSpec ==
  /\ Spec
  /\ \A s \in Sessions : WF_vars(Work(s))
  /\ WF_vars(Tick)

-----------------------------------------------------------------------------
Copies == [left : 0..Want, done : 0..Want]

Rows == [state : {"none", "open", "filled", "closed"}, left : 0..Want, done : 0..Want]

Locals ==
  [pc : {"down", "asleep", "claim", "apply", "free", "freed", "read", "judge", "write"},
   boot : {"yes", "no"}, clock : 0..Interval, sure : {"yes", "no"},
   book : SUBSET Signals, owned : SUBSET Signals, todo : SUBSET Signals,
   keep : SUBSET Signals, old : SUBSET Signals, flying : SUBSET Signals,
   credit : [Signals -> 0..Want], item : Signals, qty : 0..Want, copy : Copies]

TypeOK ==
  /\ row \in [Signals -> Rows]
  /\ age \in [Signals -> 0..Cap]
  /\ trace \in [Signals -> 0..Want] /\ made \in [Signals -> 0..Want]
  /\ consumed \in [Sessions -> SUBSET Signals]
  /\ proc \in [Sessions -> Locals]
  /\ stale \in [Sessions -> SUBSET Signals]
  /\ torn \in {"yes", "no"}
  /\ faults \in 0..MaxFaults

\* An order that is still to be filled has its whole capital reserved: no session takes
\* away the row of an order in flight, by its age or otherwise, unless it writes over a
\* row that was released and claimed again since it claimed or listed it.
FlightIsReserved ==
  torn = "no" =>
    \A s \in Sessions : \A g \in proc[s].flying :
      row[g].state = "open" /\ row[g].left = Want

\* One signal, one order: of the sessions that plan the same signal, one at a time has
\* an order of it.
OneOrderPerSignal ==
  torn = "no" => \A s, t \in Sessions : s # t => proc[s].flying \cap proc[t].flying = {}

=============================================================================
