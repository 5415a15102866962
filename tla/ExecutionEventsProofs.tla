------------------------ MODULE ExecutionEventsProofs ------------------------
(***************************************************************************)
(* Machine-checked proofs about ExecutionEvents, for every set of fills,   *)
(* accounts, workers, reapers and payloads and every naming of the owners. *)
(***************************************************************************)
EXTENDS ExecutionEvents, TLAPS

\* The two SET clauses stay within the columns' types, and the WHERE clause of a
\* terminal is only satisfied by an APPLYING row.
LEMMA RowUpdates ==
  ASSUME NEW r \in Rows
  PROVE  /\ \A o \in Owners : Leased(r, o) \in Rows /\ Leased(r, o).status = "APPLYING"
         /\ \A s \in Statuses : /\ Finished(r, s) \in Rows
                                /\ Finished(r, s).status = s
                                /\ Finished(r, s).gen = r.gen
                                /\ Finished(r, s).owner = Nobody
  <1>1. ASSUME NEW o \in Owners
        PROVE  Leased(r, o) \in Rows /\ Leased(r, o).status = "APPLYING"
    BY DEF Rows, Leased, Statuses
  <1>2. ASSUME NEW s \in Statuses
        PROVE  /\ Finished(r, s) \in Rows
               /\ Finished(r, s).status = s
               /\ Finished(r, s).gen = r.gen
               /\ Finished(r, s).owner = Nobody
    BY DEF Rows, Finished
  <1> QED BY <1>1, <1>2

LEMMA TerminalValues ==
  ASSUME NEW v
  PROVE  /\ Terminal(v).status \in {"APPLIED", "FAILED", "RETRY"}
         /\ Terminal(v).status = "APPLIED" => v = "effective"
         /\ Terminal(v).won \in Outcomes
         /\ Terminal(v).lost \in Outcomes
  <1>1. CASE v = "effective" BY <1>1 DEF Terminal, Outcomes
  <1>2. CASE v = "rejected" BY <1>2 DEF Terminal, Outcomes
  <1>3. CASE v # "effective" /\ v # "rejected" BY <1>3 DEF Terminal, Outcomes
  <1> QED BY <1>1, <1>2, <1>3

\* What a worker's local state is after each of its moves, field by field.
LEMMA MoveTo ==
  ASSUME NEW x \in WorkerStates, NEW c \in {"outrun", "owner"}
  PROVE  LET y == [x EXCEPT !.pc = c]
         IN  y \in WorkerStates /\ y.fill = x.fill /\ y.pc = c /\ y.inserted = x.inserted
             /\ y.pays = x.pays /\ y.verdict = x.verdict
  BY DEF WorkerStates

LEMMA MoveAcquired ==
  ASSUME NEW x \in WorkerStates
  PROVE  LET y == [x EXCEPT !.pc = "owner", !.inserted = FALSE]
         IN  y \in WorkerStates /\ y.fill = x.fill /\ y.pc = "owner" /\ y.inserted = FALSE
             /\ y.pays = x.pays /\ y.verdict = x.verdict
  BY DEF WorkerStates

LEMMA MoveFenced ==
  ASSUME NEW x \in WorkerStates, NEW n \in Nat
  PROVE  LET y == [x EXCEPT !.pc = "fenced", !.fence = n]
         IN  y \in WorkerStates /\ y.fill = x.fill /\ y.pc = "fenced" /\ y.inserted = x.inserted
             /\ y.pays = x.pays /\ y.verdict = x.verdict
  BY DEF WorkerStates

LEMMA MoveVerdict ==
  ASSUME NEW x \in WorkerStates,
         NEW v \in {"effective", "ineffective", "rejected"}, NEW b \in BOOLEAN
  PROVE  LET y == [x EXCEPT !.pc = "verdict", !.verdict = v, !.pays = b]
         IN  y \in WorkerStates /\ y.fill = x.fill /\ y.pc = "verdict" /\ y.inserted = x.inserted
             /\ y.pays = b /\ y.verdict = v
  BY DEF WorkerStates

\* A worker at rest, and one that starts on a fill.
LEMMA WorkerRest ==
  ASSUME NEW o \in Outcomes
  PROVE  /\ Resting(o) \in WorkerStates /\ Resting(o).pc = "idle"
         /\ Resting(o).inserted = FALSE /\ Resting(o).pays = FALSE
  BY DEF Resting, WorkerStates

LEMMA WorkerStart ==
  ASSUME NEW f \in Fills, NEW p \in Payloads, NEW n \in Nat, NEW b \in BOOLEAN
  PROVE  LET y == [Resting("none") EXCEPT !.pc = "captured", !.fill = f, !.payload = p,
                                          !.lapsed = n, !.inserted = b]
         IN  y \in WorkerStates /\ y.pc = "captured" /\ y.fill = f
             /\ y.inserted = b /\ y.pays = FALSE
  BY DEF Resting, WorkerStates, Outcomes

LEMMA OwnerNames == \A p \in Workers \cup Reapers : OwnerName[p] \in Owners
  BY DEF Owners

-----------------------------------------------------------------------------
\* The inductive invariant holds initially.
LEMMA InitInv == Init => IInv
  <1> SUFFICES ASSUME Init PROVE IInv OBVIOUS
  <1> USE NobodyAssumption DEF Init
  <1>1. TypeOK
    <2>1. Resting("none") \in WorkerStates BY WorkerRest DEF Outcomes
    <2>2. ReaperAtRest \in ReaperStates BY DEF ReaperAtRest, ReaperStates
    <2>3. row \in [Fills -> Rows] BY DEF Rows, Statuses
    <2> QED BY <2>1, <2>2, <2>3 DEF TypeOK
  <1>2. FinanceInv
    BY DEF FinanceInv, MoneyAtMostOnce, AppliedIsBooked, Resting
  <1>3. CaptureInv
    BY DEF CaptureInv, Resting
  <1> QED BY <1>1, <1>2, <1>3 DEF IInv

\* A new call.
LEMMA BeginKeeps ==
  ASSUME IInv, NEW w \in Workers, NEW f \in Fills, NEW p \in Payloads, Begin(w, f, p)
  PROVE  IInv'
  <1>0. TypeOK /\ FinanceInv /\ CaptureInv BY DEF IInv
  <1>l. Lapsed(row[f]) \in Nat BY <1>0 DEF TypeOK, Rows, Lapsed
  <1>b. PICK n \in Nat, b \in BOOLEAN : n = Lapsed(row[f]) /\ b = (row[f].status = "ABSENT")
    BY <1>l
  <1> DEFINE started == [Resting("none") EXCEPT !.pc = "captured", !.fill = f, !.payload = p,
                                                !.lapsed = n, !.inserted = b]
  <1>s. /\ started \in WorkerStates /\ started.pc = "captured" /\ started.fill = f
        /\ started.inserted = b /\ started.pays = FALSE
    BY <1>b DEF Resting, WorkerStates, Outcomes
  <1>o. "already_applied" \in Outcomes BY DEF Outcomes
  <1>w. \/ worker' = [worker EXCEPT ![w] = Resting("already_applied")]
        \/ worker' = [worker EXCEPT ![w] = started]
    BY <1>b DEF Begin
  <1> HIDE DEF started
  <1>u. /\ UNCHANGED <<row, booked, bookedAs, lock, reaper, crashes>>
        /\ calls' = calls + 1
        /\ \A v \in Workers : ~(worker[v].inserted /\ worker[v].fill = f)
    BY DEF Begin, InsertPending, money
  <1>1. TypeOK'
    <2>1. worker' \in [Workers -> WorkerStates]
      BY <1>0, <1>s, <1>o, <1>w, WorkerRest DEF TypeOK
    <2> QED BY <1>0, <1>u, <2>1 DEF TypeOK
  <1>2. FinanceInv'
    BY <1>0, <1>s, <1>o, <1>w, <1>u, WorkerRest
    DEF TypeOK, FinanceInv, MoneyAtMostOnce, AppliedIsBooked
  <1>3. CaptureInv'
    <2>1. /\ \A v \in Workers \ {w} : worker'[v] = worker[v]
          /\ worker'[w].inserted =>
               worker'[w].pc = "captured" /\ worker'[w].fill = f /\ row[f].status = "ABSENT"
      <3>1. CASE worker' = [worker EXCEPT ![w] = started]
        BY <3>1, <1>0, <1>b, <1>s DEF TypeOK
      <3>2. CASE worker' = [worker EXCEPT ![w] = Resting("already_applied")]
        BY <3>2, <1>0, <1>o, WorkerRest DEF TypeOK
      <3> QED BY <1>w, <3>1, <3>2
    <2> QED BY <1>0, <1>u, <2>1 DEF CaptureInv
  <1> QED BY <1>1, <1>2, <1>3 DEF IInv

\* A step that only moves w between two points before the trade, keeping its
\* fill and creating no pending insert, and that leases the row if it had not
\* been applied.
LEMMA QuietMove ==
  ASSUME IInv, NEW w \in Workers, NEW y \in WorkerStates,
         ~worker[w].pays,
         y.pc \in {"idle", "outrun", "owner", "fenced"},
         y.pc # "idle" => y.fill = worker[w].fill /\ worker[w].fill \in Fills,
         y.inserted = FALSE, y.pays = FALSE,
         worker' = [worker EXCEPT ![w] = y],
         UNCHANGED <<booked, bookedAs, lock, reaper, calls, crashes>>,
         \/ row' = row
         \/ /\ worker[w].fill \in Fills
            /\ \/ worker[w].inserted
               \/ row[worker[w].fill].status \in {"CAPTURED", "RETRY", "FAILED", "APPLYING"}
            /\ row' = [row EXCEPT ![worker[w].fill] =
                         Leased(row[worker[w].fill], OwnerName[w])]
  PROVE  IInv'
  <1>0. TypeOK /\ FinanceInv /\ CaptureInv BY DEF IInv
  <1>r. \/ row' = row
        \/ /\ worker[w].fill \in Fills
           /\ \/ worker[w].inserted
              \/ row[worker[w].fill].status \in {"CAPTURED", "RETRY", "FAILED", "APPLYING"}
           /\ row'[worker[w].fill] \in Rows
           /\ row'[worker[w].fill].status = "APPLYING"
           /\ row' = [row EXCEPT ![worker[w].fill] = row'[worker[w].fill]]
    BY <1>0, RowUpdates, OwnerNames DEF TypeOK
  <1>1. TypeOK'
    BY <1>0, <1>r DEF TypeOK
  <1>2. FinanceInv'
    BY <1>0, <1>r DEF TypeOK, FinanceInv, MoneyAtMostOnce, AppliedIsBooked
  <1>3. CaptureInv'
    BY <1>0, <1>r DEF TypeOK, CaptureInv, FinanceInv
  <1> QED BY <1>1, <1>2, <1>3 DEF IInv

\* The two acquisitions and the reading back of the token.
LEMMA AcquireKeeps ==
  ASSUME IInv, NEW w \in Workers, StartApply(w) \/ Reclaim(w) \/ ReadFence(w)
  PROVE  IInv'
  <1> DEFINE f == worker[w].fill
  <1>0. TypeOK /\ FinanceInv /\ CaptureInv BY DEF IInv
  <1>p. /\ worker[w].pc \in {"captured", "outrun", "owner"}
        /\ f \in Fills /\ ~worker[w].pays /\ worker[w] \in WorkerStates
        /\ worker[w].inserted => worker[w].pc = "captured"
        /\ worker[w].inserted \in BOOLEAN /\ worker[w].pays \in BOOLEAN
    BY <1>0 DEF TypeOK, FinanceInv, CaptureInv, StartApply, Reclaim, ReadFence, WorkerStates
  <1>1. CASE StartApply(w)
    <2>1. CASE worker[w].inserted \/ row[f].status \in ApplySources
      <3> DEFINE y == [worker[w] EXCEPT !.pc = "owner", !.inserted = FALSE]
      <3>1. y \in WorkerStates /\ y.pc = "owner" /\ y.fill = f /\ y.inserted = FALSE /\ y.pays = FALSE
        BY <1>p, MoveAcquired
      <3>2. worker' = [worker EXCEPT ![w] = y] BY <1>1, <2>1 DEF StartApply
      <3> HIDE DEF y
      <3>3. /\ row' = [row EXCEPT ![f] = Leased(row[f], OwnerName[w])]
            /\ UNCHANGED <<booked, bookedAs, lock, reaper, calls, crashes>>
        BY <1>1, <2>1 DEF StartApply, money
      <3>4. worker[w].inserted \/ row[f].status \in {"CAPTURED", "RETRY", "FAILED", "APPLYING"}
        BY <2>1 DEF ApplySources
      <3> QED BY <1>p, <3>1, <3>2, <3>3, <3>4, QuietMove
    <2>2. CASE ~(worker[w].inserted \/ row[f].status \in ApplySources)
      <3> DEFINE y == [worker[w] EXCEPT !.pc = "outrun"]
      <3>1. y \in WorkerStates /\ y.pc = "outrun" /\ y.fill = f /\ y.inserted = FALSE /\ y.pays = FALSE
        BY <1>p, <2>2, MoveTo
      <3>2. worker' = [worker EXCEPT ![w] = y] BY <1>1, <2>2 DEF StartApply
      <3> HIDE DEF y
      <3> QED BY <1>1, <1>p, <2>2, <3>1, <3>2, QuietMove DEF StartApply, money
    <2> QED BY <2>1, <2>2
  <1>2. CASE Reclaim(w)
    <2>1. CASE Reclaimable(row[f], worker[w].lapsed)
      <3> DEFINE y == [worker[w] EXCEPT !.pc = "owner"]
      <3>1. y \in WorkerStates /\ y.pc = "owner" /\ y.fill = f /\ y.inserted = FALSE /\ y.pays = FALSE
        BY <1>2, <1>p, MoveTo DEF Reclaim
      <3>2. worker' = [worker EXCEPT ![w] = y] BY <1>2, <2>1 DEF Reclaim
      <3> HIDE DEF y
      <3> QED BY <1>2, <1>p, <2>1, <3>1, <3>2, QuietMove DEF Reclaim, money, Reclaimable
    <2>2. CASE ~Reclaimable(row[f], worker[w].lapsed)
      <3> DEFINE y == Resting("no_apply_another_in_progress")
      <3>1. y \in WorkerStates /\ y.pc = "idle" /\ y.inserted = FALSE /\ y.pays = FALSE
        BY WorkerRest DEF Outcomes
      <3>2. worker' = [worker EXCEPT ![w] = y] BY <1>2, <2>2 DEF Reclaim
      <3> HIDE DEF y
      <3> QED BY <1>2, <1>p, <2>2, <3>1, <3>2, QuietMove DEF Reclaim, money
    <2> QED BY <2>1, <2>2
  <1>3. CASE ReadFence(w)
    <2> DEFINE y == [worker[w] EXCEPT !.pc = "fenced", !.fence = row[f].gen]
    <2>1. row[f].gen \in Nat BY <1>0, <1>p DEF TypeOK, Rows
    <2>2. y \in WorkerStates /\ y.pc = "fenced" /\ y.fill = f /\ y.inserted = FALSE /\ y.pays = FALSE
      BY <1>3, <1>p, <2>1, MoveFenced DEF ReadFence
    <2>3. worker' = [worker EXCEPT ![w] = y] BY <1>3 DEF ReadFence
    <2> HIDE DEF y
    <2> QED BY <1>3, <1>p, <2>2, <2>3, QuietMove DEF ReadFence, money
  <1> QED BY <1>1, <1>2, <1>3

\* The trade: the account lock excludes every other pending trade of the account.
LEMMA FinanceKeeps ==
  ASSUME IInv, NEW w \in Workers, Finance(w)
  PROVE  IInv'
  <1> DEFINE f == worker[w].fill
  <1>0. TypeOK /\ FinanceInv /\ CaptureInv BY DEF IInv
  <1>f. /\ f \in Fills /\ AccountOf[f] \in Accounts /\ lock[AccountOf[f]] = Nobody
        /\ worker[w] \in WorkerStates /\ worker[w].pc = "fenced"
    BY <1>0, AccountAssumption DEF TypeOK, FinanceInv, Finance
  <1>v. PICK v \in {"effective", "ineffective", "rejected"}, pays \in BOOLEAN :
          /\ worker' = [worker EXCEPT ![w] =
                          [worker[w] EXCEPT !.pc = "verdict", !.verdict = v, !.pays = pays]]
          /\ lock' = [lock EXCEPT ![AccountOf[f]] = w]
          /\ pays => v = "effective" /\ booked[f] = 0
          /\ v = "effective" /\ ~pays => booked[f] > 0
    <2>1. booked[f] \in Nat BY <1>0, <1>f DEF TypeOK
    <2>2. ~Recorded(f) => booked[f] = 0 BY <2>1 DEF Recorded
    <2>3. Recorded(f) => booked[f] > 0 BY DEF Recorded
    <2> QED BY <2>2, <2>3 DEF Finance
  <1> DEFINE y == [worker[w] EXCEPT !.pc = "verdict", !.verdict = v, !.pays = pays]
  <1>y. /\ y \in WorkerStates /\ y.fill = f /\ y.pc = "verdict"
        /\ y.inserted = worker[w].inserted /\ y.pays = pays /\ y.verdict = v
    BY <1>f DEF WorkerStates
  <1>w. worker' = [worker EXCEPT ![w] = y] BY <1>v
  <1> HIDE DEF y
  <1>u. UNCHANGED <<row, booked, bookedAs, reaper, calls, crashes>> BY DEF Finance
  <1>1. TypeOK'
    BY <1>0, <1>f, <1>v, <1>y, <1>w, <1>u DEF TypeOK
  <1>2. FinanceInv'
    <2>1. booked[f] > 0 => booked[f] = 1
      BY <1>0, <1>f DEF TypeOK, FinanceInv, MoneyAtMostOnce
    <2>2. \A x \in Workers : worker[x].pc = "verdict" => lock'[AccountOf[worker[x].fill]] = x
      BY <1>0, <1>f, <1>v, NobodyAssumption, AccountAssumption DEF TypeOK, FinanceInv
    <2>3. lock'[AccountOf[f]] = w BY <1>0, <1>f, <1>v DEF TypeOK
    <2> QED BY <1>0, <1>f, <1>v, <1>y, <1>w, <1>u, <2>1, <2>2, <2>3
            DEF TypeOK, FinanceInv, MoneyAtMostOnce, AppliedIsBooked
  <1>3. CaptureInv'
    BY <1>0, <1>f, <1>y, <1>w, <1>u DEF TypeOK, CaptureInv
  <1> QED BY <1>1, <1>2, <1>3 DEF IInv

\* The terminal and its commit.
LEMMA MarkKeeps ==
  ASSUME IInv, NEW w \in Workers, Mark(w)
  PROVE  IInv'
  <1> DEFINE f == worker[w].fill
             t == Terminal(worker[w].verdict)
  <1>0. TypeOK /\ FinanceInv /\ CaptureInv BY DEF IInv
  <1>f. /\ f \in Fills /\ AccountOf[f] \in Accounts /\ worker[w].pc = "verdict"
        /\ lock[AccountOf[f]] = w /\ worker[w].payload \in Payloads \cup {Nobody}
    BY <1>0, AccountAssumption DEF TypeOK, WorkerStates, FinanceInv, Mark
  <1>t. /\ t.status \in Statuses /\ t.status \notin {"ABSENT", "APPLYING"}
        /\ t.status = "APPLIED" => worker[w].verdict = "effective"
        /\ t.won \in Outcomes /\ t.lost \in Outcomes
    BY TerminalValues DEF Statuses
  <1>o. PICK o \in Outcomes : worker' = [worker EXCEPT ![w] = Resting(o)]
    BY <1>t DEF Mark
  <1>y. Resting(o) \in WorkerStates /\ Resting(o).pc = "idle"
        /\ Resting(o).inserted = FALSE /\ Resting(o).pays = FALSE
    BY WorkerRest
  <1>r. \/ row' = row
        \/ /\ row' = [row EXCEPT ![f] = Finished(row[f], t.status)]
           /\ row[f].status = "APPLYING"
           /\ Finished(row[f], t.status) \in Rows
           /\ Finished(row[f], t.status).status = t.status
    BY <1>0, <1>f, <1>t, RowUpdates DEF TypeOK, Mark, HoldsFence
  <1> HIDE DEF t
  <1>m. /\ \/ worker[w].pays /\ booked' = [booked EXCEPT ![f] = @ + 1]
                               /\ bookedAs' = [bookedAs EXCEPT ![f] = worker[w].payload]
           \/ ~worker[w].pays /\ UNCHANGED <<booked, bookedAs>>
        /\ lock' = [lock EXCEPT ![AccountOf[f]] = Nobody]
        /\ UNCHANGED <<reaper, calls, crashes>>
    BY DEF Mark
  <1>1. TypeOK'
    <2>1. row' \in [Fills -> Rows]
      BY <1>0, <1>f, <1>r DEF TypeOK
    <2>2. worker' \in [Workers -> WorkerStates]
      BY <1>0, <1>o, <1>y DEF TypeOK
    <2> QED BY <1>0, <1>f, <1>m, <2>1, <2>2 DEF TypeOK
  <1>2. FinanceInv'
    <2>1. MoneyAtMostOnce'
      BY <1>0, <1>f, <1>m DEF TypeOK, FinanceInv, MoneyAtMostOnce
    <2>2. AppliedIsBooked'
      <3>1. \A g \in Fills : g # f => row'[g] = row[g] /\ booked'[g] = booked[g]
        BY <1>0, <1>f, <1>r, <1>m DEF TypeOK
      <3>2. row'[f].status = "APPLIED" => row[f].status = "APPLIED" \/ worker[w].verdict = "effective"
        BY <1>0, <1>f, <1>r, <1>t DEF TypeOK
      <3>3. row[f].status = "APPLIED" \/ worker[w].verdict = "effective" => booked'[f] = 1
        BY <1>0, <1>f, <1>m DEF TypeOK, FinanceInv, AppliedIsBooked
      <3> QED BY <3>1, <3>2, <3>3, <1>0 DEF AppliedIsBooked, FinanceInv
    <2>3. ASSUME NEW x \in Workers, x # w
          PROVE  /\ worker'[x] = worker[x]
                 /\ worker[x].pc = "verdict" =>
                      /\ lock'[AccountOf[worker[x].fill]] = x
                      /\ booked'[worker[x].fill] = booked[worker[x].fill]
      <3>1. worker'[x] = worker[x] BY <1>0, <1>o, <2>3 DEF TypeOK
      <3>2. worker[x].pc = "verdict" =>
              worker[x].fill \in Fills /\ lock[AccountOf[worker[x].fill]] = x
        BY <1>0 DEF FinanceInv
      <3>3. worker[x].pc = "verdict" => AccountOf[worker[x].fill] # AccountOf[f]
        BY <1>f, <2>3, <3>2
      <3> QED BY <1>0, <1>f, <1>m, <3>1, <3>2, <3>3, AccountAssumption DEF TypeOK
    <2>4. worker'[w].pc = "idle" /\ ~worker'[w].pays
      BY <1>0, <1>o, <1>y DEF TypeOK
    <2>5. ASSUME NEW x \in Workers
          PROVE  /\ worker'[x].pc # "idle" => worker'[x].fill \in Fills
                 /\ worker'[x].pc = "verdict" => lock'[AccountOf[worker'[x].fill]] = x
                 /\ worker'[x].pays => worker'[x].pc = "verdict" /\ booked'[worker'[x].fill] = 0
                 /\ worker'[x].pc = "verdict" /\ worker'[x].verdict = "effective" /\ ~worker'[x].pays
                      => booked'[worker'[x].fill] = 1
      BY <1>0, <2>3, <2>4 DEF FinanceInv
    <2> QED BY <2>1, <2>2, <2>5 DEF FinanceInv
  <1>3. CaptureInv'
    BY <1>0, <1>f, <1>o, <1>y, <1>r, <1>t DEF TypeOK, CaptureInv, FinanceInv
  <1> QED BY <1>1, <1>2, <1>3 DEF IInv

\* A crash forgets the pending insert, the pending trade and the lock together.
LEMMA CrashKeeps ==
  ASSUME IInv, NEW w \in Workers, Crash(w)
  PROVE  IInv'
  <1>0. TypeOK /\ FinanceInv /\ CaptureInv BY DEF IInv
  <1>y. Resting("none") \in WorkerStates /\ Resting("none").pc = "idle"
        /\ Resting("none").inserted = FALSE /\ Resting("none").pays = FALSE
    BY WorkerRest DEF Outcomes
  <1>u. /\ worker' = [worker EXCEPT ![w] = Resting("none")]
        /\ lock' = [a \in Accounts |-> IF lock[a] = w THEN Nobody ELSE lock[a]]
        /\ crashes' = crashes + 1
        /\ UNCHANGED <<row, booked, bookedAs, reaper, calls>>
    BY DEF Crash
  <1>1. TypeOK'
    BY <1>0, <1>y, <1>u DEF TypeOK
  <1>2. FinanceInv'
    BY <1>0, <1>y, <1>u, AccountAssumption DEF TypeOK, FinanceInv, MoneyAtMostOnce, AppliedIsBooked
  <1>3. CaptureInv'
    BY <1>0, <1>y, <1>u DEF TypeOK, CaptureInv
  <1> QED BY <1>1, <1>2, <1>3 DEF IInv

-----------------------------------------------------------------------------
\* What a reaper or the clock does to the rows: only an APPLYING row changes, it
\* becomes APPLYING or RETRY, and its token never goes back.
RowsOnly ==
  /\ \A f \in Fills : \/ row'[f] = row[f]
                      \/ /\ row[f].status = "APPLYING"
                         /\ row'[f].status \in {"APPLYING", "RETRY"}
                         /\ row'[f].gen >= row[f].gen
                         /\ row'[f].owner \notin {row[f].owner, Nobody}
                              => row'[f].gen > row[f].gen
  /\ UNCHANGED <<booked, bookedAs, lock, worker, calls>>

\* One column of a reaper's local state at a time stays within its type.
LEMMA ReaperMoves ==
  ASSUME NEW x \in ReaperStates
  PROVE  /\ \A B \in SUBSET (Fills \X Nat) :
              /\ [x EXCEPT !.pc = "claiming", !.batch = B] \in ReaperStates
              /\ [x EXCEPT !.batch = B] \in ReaperStates
         /\ \A B \in SUBSET (Fills \X Nat), C \in SUBSET Fills :
              [x EXCEPT !.batch = B, !.claimed = C] \in ReaperStates
         /\ \A C \in SUBSET Fills, c \in {"claiming", "releasing"}, f \in Fills, n \in Nat :
              [x EXCEPT !.claimed = C, !.pc = c, !.fill = f, !.fence = n] \in ReaperStates
         /\ [x EXCEPT !.pc = "claiming"] \in ReaperStates
         /\ ReaperAtRest \in ReaperStates
  BY DEF ReaperStates, ReaperAtRest

\* A background step that changes at most one row, the way RowsOnly allows, and
\* the local state of at most one reaper.
LEMMA BackgroundMove ==
  ASSUME TypeOK,
         \/ reaper' = reaper
         \/ \E r \in Reapers, y \in ReaperStates : reaper' = [reaper EXCEPT ![r] = y],
         \/ row' = row
         \/ \E f \in Fills, y \in Rows :
              /\ row' = [row EXCEPT ![f] = y]
              /\ row[f].status = "APPLYING" /\ y.status \in {"APPLYING", "RETRY"}
              /\ y.gen >= row[f].gen
              /\ y.owner \notin {row[f].owner, Nobody} => y.gen > row[f].gen,
         UNCHANGED <<booked, bookedAs, lock, worker, calls>>,
         crashes' \in Nat
  PROVE  TypeOK' /\ RowsOnly
  <1>1. TypeOK' BY DEF TypeOK
  <1>2. RowsOnly BY DEF TypeOK, RowsOnly
  <1> QED BY <1>1, <1>2

\* What a lease and a release do to the columns that RowsOnly speaks of.
LEMMA LeaseAndRelease ==
  ASSUME NEW y \in Rows, NEW o \in Owners
  PROVE  /\ Leased(y, o).gen > y.gen /\ Leased(y, o).gen >= y.gen
         /\ Finished(y, "RETRY").owner = Nobody
         /\ Finished(y, "RETRY").gen >= y.gen
         /\ Finished(y, "RETRY").status = "RETRY"
  <1>1. y.gen \in Nat BY DEF Rows
  <1>2. Leased(y, o).gen = y.gen + 1 BY DEF Leased
  <1>3. "RETRY" \in Statuses BY DEF Statuses
  <1> QED BY <1>1, <1>2, <1>3, RowUpdates

LEMMA BackgroundRows ==
  ASSUME TypeOK,
         \/ \E r \in Reapers : ReaperStep(r) \/ ReaperCrash(r)
         \/ \E f \in Fills : LeaseExpires(f)
  PROVE  TypeOK' /\ RowsOnly
  <1> USE DEF money
  <1>0. /\ \A f \in Fills : row[f] \in Rows /\ row[f].gen \in Nat
        /\ \A r \in Reapers : /\ reaper[r] \in ReaperStates
                               /\ reaper[r].batch \in SUBSET (Fills \X Nat)
                               /\ reaper[r].claimed \in SUBSET Fills
        /\ crashes \in Nat /\ crashes + 1 \in Nat
    BY DEF TypeOK, Rows, ReaperStates
  <1>1. ASSUME NEW r \in Reapers, ReaperSelect(r) PROVE TypeOK' /\ RowsOnly
    <2> DEFINE B == {<<f, row[f].gen>> : f \in {f \in Fills : Lapsed(row[f]) > 0}}
               y == [reaper[r] EXCEPT !.pc = "claiming", !.batch = B]
    <2>1. B \in SUBSET (Fills \X Nat) BY <1>0
    <2>2. reaper' = [reaper EXCEPT ![r] = y] BY <1>1 DEF ReaperSelect
    <2> HIDE DEF B
    <2>3. y \in ReaperStates BY <1>0, <2>1, ReaperMoves
    <2> HIDE DEF y
    <2> QED BY <1>0, <1>1, <2>2, <2>3, BackgroundMove DEF ReaperSelect
  <1>2. ASSUME NEW r \in Reapers, NEW b \in reaper[r].batch, ReaperReclaim(r, b[1], b[2])
        PROVE  TypeOK' /\ RowsOnly
    <2> DEFINE f == b[1]
               B == reaper[r].batch \ {<<f, b[2]>>}
               C == reaper[r].claimed \cup {f}
               y == [reaper[r] EXCEPT !.batch = B, !.claimed = C]
               z == [reaper[r] EXCEPT !.batch = B]
    <2>1. f \in Fills /\ B \in SUBSET (Fills \X Nat) /\ C \in SUBSET Fills BY <1>0, <1>2
    <2>2. CASE Reclaimable(row[f], b[2])
      <3> DEFINE x == Leased(row[f], OwnerName[r])
      <3>1. row' = [row EXCEPT ![f] = x] /\ reaper' = [reaper EXCEPT ![r] = y]
        BY <1>2, <2>2 DEF ReaperReclaim
      <3>2. row[f].status = "APPLYING" BY <2>2 DEF Reclaimable
      <3>3. /\ x \in Rows /\ x.status = "APPLYING" /\ x.gen > row[f].gen /\ x.gen >= row[f].gen
        BY <1>0, <2>1, RowUpdates, LeaseAndRelease, OwnerNames
      <3> HIDE DEF x, B, C, f
      <3>4. y \in ReaperStates BY <1>0, <2>1, ReaperMoves
      <3> HIDE DEF y
      <3> QED BY <1>0, <1>2, <2>1, <3>1, <3>2, <3>3, <3>4, BackgroundMove DEF ReaperReclaim
    <2>3. CASE ~Reclaimable(row[f], b[2])
      <3>1. row' = row /\ reaper' = [reaper EXCEPT ![r] = z]
        BY <1>2, <2>3 DEF ReaperReclaim
      <3> HIDE DEF B, f
      <3>2. z \in ReaperStates BY <1>0, <2>1, ReaperMoves
      <3> HIDE DEF z
      <3> QED BY <1>0, <1>2, <3>1, <3>2, BackgroundMove DEF ReaperReclaim
    <2> QED BY <2>2, <2>3
  <1>3. ASSUME NEW r \in Reapers, NEW f \in Fills, ReaperRead(r, f)
        PROVE  TypeOK' /\ RowsOnly
    <2> DEFINE C == reaper[r].claimed \ {f}
               c == IF row[f].status = "APPLIED" THEN "claiming" ELSE "releasing"
               y == [reaper[r] EXCEPT !.claimed = C, !.pc = c, !.fill = f, !.fence = row[f].gen]
    <2>1. C \in SUBSET Fills /\ c \in {"claiming", "releasing"} BY <1>0
    <2>2. reaper' = [reaper EXCEPT ![r] = y] BY <1>3 DEF ReaperRead
    <2> HIDE DEF C, c
    <2>3. y \in ReaperStates BY <1>0, <2>1, ReaperMoves
    <2> HIDE DEF y
    <2> QED BY <1>0, <1>3, <2>2, <2>3, BackgroundMove DEF ReaperRead
  <1>4. ASSUME NEW r \in Reapers, ReaperRelease(r) PROVE TypeOK' /\ RowsOnly
    <2> DEFINE f == reaper[r].fill
               x == Finished(row[f], "RETRY")
               y == [reaper[r] EXCEPT !.pc = "claiming"]
    <2>1. \/ row' = row
          \/ row[f].status = "APPLYING" /\ row' = [row EXCEPT ![f] = x]
      BY <1>4 DEF ReaperRelease, HoldsFence
    <2>2. reaper' = [reaper EXCEPT ![r] = y] BY <1>4 DEF ReaperRelease
    <2>3. y \in ReaperStates BY <1>0, ReaperMoves
    <2>4. f \in Fills => /\ x \in Rows /\ x.status = "RETRY" /\ x.owner = Nobody
                         /\ x.gen >= row[f].gen
      <3> SUFFICES ASSUME f \in Fills
                   PROVE  /\ x \in Rows /\ x.status = "RETRY" /\ x.owner = Nobody
                          /\ x.gen >= row[f].gen
        OBVIOUS
      <3>1. row[f] \in Rows /\ row[f].gen \in Nat /\ OwnerName[r] \in Owners BY <1>0, OwnerNames
      <3> QED BY <3>1, RowUpdates, LeaseAndRelease DEF Statuses
    <2>5. f \notin Fills => row' = row
      BY <2>1 DEF TypeOK
    <2> HIDE DEF x, y
    <2> QED BY <1>0, <1>4, <2>1, <2>2, <2>3, <2>4, <2>5, BackgroundMove DEF ReaperRelease
  <1>5. ASSUME NEW r \in Reapers, ReaperSleep(r) \/ ReaperCrash(r) PROVE TypeOK' /\ RowsOnly
    <2>1. reaper' = [reaper EXCEPT ![r] = ReaperAtRest] /\ ReaperAtRest \in ReaperStates
      BY <1>0, <1>5, ReaperMoves DEF ReaperSleep, ReaperCrash
    <2> QED BY <1>0, <1>5, <2>1, BackgroundMove DEF ReaperSleep, ReaperCrash
  <1>6. ASSUME NEW f \in Fills, LeaseExpires(f) PROVE TypeOK' /\ RowsOnly
    <2> DEFINE x == [row[f] EXCEPT !.stale = TRUE]
    <2>1. row' = [row EXCEPT ![f] = x] /\ row[f].status = "APPLYING" BY <1>6 DEF LeaseExpires
    <2>2. x \in Rows /\ x.status = "APPLYING" /\ x.gen = row[f].gen /\ x.owner = row[f].owner
      BY <1>0, <2>1 DEF Rows
    <2> HIDE DEF x
    <2>3. x.gen >= row[f].gen /\ x.owner \in {row[f].owner, Nobody} BY <1>0, <2>2
    <2>4. UNCHANGED <<booked, bookedAs, lock, worker, calls>> /\ reaper' = reaper /\ crashes' \in Nat
      BY <1>0, <1>6 DEF LeaseExpires
    <2> QED BY <2>1, <2>2, <2>3, <2>4, BackgroundMove
  <1> QED BY <1>1, <1>2, <1>3, <1>4, <1>5, <1>6 DEF ReaperStep

LEMMA BackgroundKeeps ==
  ASSUME IInv, TypeOK', RowsOnly
  PROVE  IInv'
  <1>1. FinanceInv'
    BY DEF IInv, FinanceInv, RowsOnly, MoneyAtMostOnce, AppliedIsBooked
  <1>2. CaptureInv'
    BY DEF IInv, CaptureInv, FinanceInv, RowsOnly
  <1> QED BY <1>1, <1>2 DEF IInv

\* Every step keeps the inductive invariant.
LEMMA NextKeeps == IInv /\ [Next]_vars => IInv'
  <1> SUFFICES ASSUME IInv, [Next]_vars PROVE IInv' OBVIOUS
  <1>1. ASSUME NEW w \in Workers, NEW f \in Fills, NEW p \in Payloads, Begin(w, f, p)
        PROVE IInv'
    BY <1>1, BeginKeeps
  <1>2. ASSUME NEW w \in Workers, WorkerStep(w) PROVE IInv'
    BY <1>2, AcquireKeeps, FinanceKeeps, MarkKeeps
    DEF WorkerStep
  <1>3. ASSUME NEW w \in Workers, Crash(w) PROVE IInv'
    BY <1>3, CrashKeeps
  <1>4. CASE \/ \E r \in Reapers : ReaperStep(r) \/ ReaperCrash(r)
             \/ \E f \in Fills : LeaseExpires(f)
    BY <1>4, BackgroundRows, BackgroundKeeps DEF IInv
  <1>5. CASE UNCHANGED vars
    BY <1>5 DEF vars, IInv, TypeOK, FinanceInv, CaptureInv, MoneyAtMostOnce, AppliedIsBooked
  <1> QED BY <1>1, <1>2, <1>3, <1>4, <1>5 DEF Next

\* The inductive invariant, and with it the reasons given in the model for why
\* money moves once.
THEOREM Invariance == Spec => []IInv
  BY InitInv, NextKeeps, PTL DEF Spec

\* Every variable stays within its type.
THEOREM TypeCorrect == Spec => []TypeOK
  BY Invariance, PTL DEF IInv

\* A fill moves money at most once, whatever crashes, lapsed leases and
\* concurrent calls happen.
THEOREM AtMostOnce == Spec => []MoneyAtMostOnce
  <1>1. IInv => MoneyAtMostOnce BY DEF IInv, FinanceInv
  <1> QED BY <1>1, Invariance, PTL

\* APPLIED always stands for committed money.
THEOREM AppliedHasMoney == Spec => []AppliedIsBooked
  <1>1. IInv => AppliedIsBooked BY DEF IInv, FinanceInv
  <1> QED BY <1>1, Invariance, PTL

-----------------------------------------------------------------------------
\* What every step but a terminal does to the rows: an APPLIED row stays as it
\* is, none becomes APPLIED, tokens only grow, and no money is committed.
Tame ==
  /\ \A f \in Fills : \/ row'[f] = row[f]
                      \/ /\ row[f].status # "APPLIED" /\ row'[f].status # "APPLIED"
                         /\ row'[f].gen >= row[f].gen
                         /\ row'[f].owner \notin {row[f].owner, Nobody}
                              => row'[f].gen > row[f].gen
  /\ booked' = booked

LEMMA AcquireTame ==
  ASSUME IInv, NEW w \in Workers, StartApply(w) \/ Reclaim(w)
  PROVE  Tame
  <1> DEFINE f == worker[w].fill
             x == Leased(row[f], OwnerName[w])
  <1>0. TypeOK /\ FinanceInv /\ CaptureInv BY DEF IInv
  <1>1. f \in Fills BY <1>0 DEF FinanceInv, StartApply, Reclaim
  <1>2. booked' = booked BY DEF StartApply, Reclaim, money
  <1>3. row' = row \/ (row[f].status # "APPLIED" /\ row' = [row EXCEPT ![f] = x])
    BY <1>0 DEF StartApply, Reclaim, Reclaimable, ApplySources, CaptureInv
  <1>4. x.status = "APPLYING" /\ x.gen > row[f].gen /\ x.gen >= row[f].gen
    BY <1>0, <1>1, RowUpdates, LeaseAndRelease, OwnerNames DEF TypeOK
  <1> HIDE DEF x
  <1> QED BY <1>0, <1>1, <1>2, <1>3, <1>4 DEF Tame, TypeOK

LEMMA TameSteps ==
  ASSUME IInv, [Next]_vars, \A w \in Workers : ~Mark(w)
  PROVE  Tame
  <1>1. ASSUME NEW w \in Workers, NEW f \in Fills, NEW p \in Payloads, Begin(w, f, p) PROVE Tame
    BY <1>1 DEF Begin, Tame, money
  <1>2. ASSUME NEW w \in Workers, WorkerStep(w) \/ Crash(w) PROVE Tame
    <2>1. CASE StartApply(w) \/ Reclaim(w) BY <2>1, AcquireTame
    <2>2. CASE ReadFence(w) \/ Finance(w) \/ Crash(w)
      BY <2>2 DEF ReadFence, Finance, Crash, Tame, money
    <2> QED BY <1>2, <2>1, <2>2 DEF WorkerStep
  <1>3. CASE \/ \E r \in Reapers : ReaperStep(r) \/ ReaperCrash(r)
             \/ \E f \in Fills : LeaseExpires(f)
    <2>1. RowsOnly BY <1>3, BackgroundRows DEF IInv
    <2> QED BY <2>1 DEF RowsOnly, Tame
  <1>4. CASE UNCHANGED vars
    BY <1>4 DEF vars, Tame
  <1> QED BY <1>1, <1>2, <1>3, <1>4 DEF Next

\* What the terminal does to the row and to the money.
LEMMA MarkStep ==
  ASSUME IInv, NEW w \in Workers, Mark(w)
  PROVE  \E f \in Fills :
           /\ \A g \in Fills \ {f} : row'[g] = row[g]
           /\ \/ row'[f] = row[f]
              \/ /\ row[f].status = "APPLYING"
                 /\ row'[f].owner = Nobody /\ row'[f].gen = row[f].gen
           /\ \/ booked' = booked
              \/ booked[f] = 0 /\ booked' = [booked EXCEPT ![f] = 1]
  <1> DEFINE f == worker[w].fill
             x == Finished(row[f], Terminal(worker[w].verdict).status)
  <1>0. TypeOK /\ FinanceInv BY DEF IInv
  <1>1. f \in Fills BY <1>0 DEF FinanceInv, Mark
  <1>2. row' = row \/ (row[f].status = "APPLYING" /\ row' = [row EXCEPT ![f] = x])
    BY DEF Mark, HoldsFence
  <1>3. x.owner = Nobody /\ x.gen = row[f].gen
    <2>1. row[f] \in Rows BY <1>0, <1>1 DEF TypeOK
    <2>2. Terminal(worker[w].verdict).status \in Statuses BY TerminalValues DEF Statuses
    <2> QED BY <2>1, <2>2, RowUpdates
  <1> HIDE DEF x
  <1>4. /\ \A g \in Fills \ {f} : row'[g] = row[g]
        /\ \/ row'[f] = row[f]
           \/ row[f].status = "APPLYING" /\ row'[f].owner = Nobody /\ row'[f].gen = row[f].gen
    BY <1>0, <1>1, <1>2, <1>3 DEF TypeOK
  <1>5. booked' = booked \/ (booked[f] = 0 /\ booked' = [booked EXCEPT ![f] = 1])
    BY <1>0, <1>1 DEF Mark, FinanceInv, TypeOK
  <1> QED BY <1>1, <1>4, <1>5

\* No step takes a row out of APPLIED, lets a token go back, or changes the
\* owner of a lease without a new token.
THEOREM AppliedForGood == Spec => AppliedIsFinal
  <1> DEFINE Final == \A f \in Fills :
                        /\ row[f].status = "APPLIED" => row'[f] = row[f]
                        /\ row'[f].gen >= row[f].gen
                        /\ row'[f].owner \notin {row[f].owner, Nobody}
                             => row'[f].gen > row[f].gen
  <1>1. IInv /\ [Next]_vars => Final
    <2> SUFFICES ASSUME IInv, [Next]_vars PROVE Final OBVIOUS
    <2>0. \A f \in Fills : row[f].gen \in Nat BY DEF IInv, TypeOK, Rows
    <2>1. CASE \E w \in Workers : Mark(w) BY <2>0, <2>1, MarkStep
    <2>2. CASE \A w \in Workers : ~Mark(w) BY <2>0, <2>2, TameSteps DEF Tame
    <2> QED BY <2>1, <2>2
  <1>2. IInv /\ [Next]_vars => [Final]_vars BY <1>1
  <1>3. Spec => [][Final]_vars BY <1>2, Invariance, PTL DEF Spec
  <1> QED BY <1>3 DEF AppliedIsFinal

\* The detailed protocol implements FillOnce: every step moves the money of at
\* most one fill, once, and reports a fill only when its money has moved.
THEOREM Refinement == Spec => KeepsPromise
  <1>1. Init => Promise!Init
    BY DEF Init, Promise!Init
  <1>2. IInv /\ IInv' /\ [Next]_vars => [Promise!Next]_(Promise!vars)
    <2> SUFFICES ASSUME IInv, IInv', [Next]_vars PROVE [Promise!Next]_(Promise!vars) OBVIOUS
    <2> DEFINE S == {f \in Fills : row[f].status = "APPLIED"}
               T == {f \in Fills : row'[f].status = "APPLIED"}
    <2>0. /\ booked \in [Fills -> Nat] /\ booked' \in [Fills -> Nat]
          /\ \A f \in T : booked'[f] = 1
      BY DEF IInv, TypeOK, FinanceInv, AppliedIsBooked
    <2>1. CASE \E w \in Workers : Mark(w)
      <3>1. PICK f \in Fills :
              /\ \A g \in Fills \ {f} : row'[g] = row[g]
              /\ \/ row'[f] = row[f]
                 \/ row[f].status = "APPLYING"
              /\ \/ booked' = booked
                 \/ booked[f] = 0 /\ booked' = [booked EXCEPT ![f] = 1]
        BY <2>1, MarkStep
      <3>2. T = S \/ T = S \cup {f} BY <3>1
      <3>3. T = S \cup {f} => booked'[f] = 1 BY <2>0
      <3>4. CASE booked' = booked /\ T = S
        BY <3>4 DEF Promise!vars
      <3>5. CASE booked' = booked /\ T = S \cup {f}
        BY <3>1, <3>3, <3>5 DEF Promise!Next, Promise!Settle
      <3>6. CASE booked[f] = 0 /\ booked' = [booked EXCEPT ![f] = 1] /\ T = S
        BY <3>1, <3>6 DEF Promise!Next, Promise!Book, Promise!Move
      <3>7. CASE booked[f] = 0 /\ booked' = [booked EXCEPT ![f] = 1] /\ T = S \cup {f}
        BY <3>1, <3>7 DEF Promise!Next, Promise!BookAndSettle, Promise!Move
      <3> QED BY <3>1, <3>2, <3>4, <3>5, <3>6, <3>7
    <2>2. CASE \A w \in Workers : ~Mark(w)
      <3>1. Tame BY <2>2, TameSteps
      <3>2. T = S BY <3>1 DEF Tame
      <3> QED BY <3>1, <3>2 DEF Tame, Promise!vars
    <2> QED BY <2>1, <2>2
  <1> QED BY <1>1, <1>2, Invariance, PTL DEF Spec, KeepsPromise, Promise!Spec
=============================================================================
