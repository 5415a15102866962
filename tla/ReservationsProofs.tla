------------------------- MODULE ReservationsProofs -------------------------
(***************************************************************************)
(* What the claims, the ownership and the grace window of the reservations *)
(* guarantee for any number of engines and signals, any size of an order,  *)
(* any cadence and any number of crashes and failed statements.            *)
(***************************************************************************)
EXTENDS Reservations, TLAPS

\* Lots that a row or a copy of it holds never add up to more than the order.
Sums ==
  /\ \A g \in Signals : row[g].left + row[g].done <= Want
  /\ \A s \in Sessions : proc[s].copy.left + proc[s].copy.done <= Want

\* Where a session has orders in flight, and what it owns meanwhile.
Phases ==
  \A s \in Sessions :
    /\ proc[s].pc \in {"down", "asleep", "read", "judge", "write"} => proc[s].flying = {}
    /\ proc[s].flying \subseteq proc[s].owned
    /\ proc[s].pc \in {"apply", "free", "freed"} => proc[s].item \in proc[s].owned
    /\ proc[s].pc \in {"free", "freed"} => proc[s].item \notin proc[s].flying
    /\ proc[s].pc # "asleep" => proc[s].clock <= MaxTurn
    /\ proc[s].pc = "down" => proc[s].clock = 0

\* The rows a session may yet write.
Held(s) ==
  proc[s].owned
    \cup (IF proc[s].pc = "read" THEN proc[s].old ELSE {})
    \cup (IF proc[s].pc \in {"judge", "write"} THEN proc[s].todo ELSE {})
    \cup (IF proc[s].pc = "write" THEN {proc[s].item} ELSE {})

\* An order in flight has its whole row, which is too young for the others to retire.
Flight ==
  \A s \in Sessions : \A g \in proc[s].flying :
    /\ row[g].state = "open" /\ row[g].left = Want
    /\ g \notin stale[s]
    /\ age[g] <= proc[s].clock + Grain - 1

\* A row that a session may yet write, unless it is stale to it, carries no order of
\* another session.
Exclusive ==
  \A s, t \in Sessions : \A g \in Held(s) :
    g \in stale[s] \/ s = t \/ g \notin proc[t].flying

Safe == torn = "no" => Flight /\ Exclusive

Inv == TypeOK /\ Sums /\ Phases /\ Safe

-----------------------------------------------------------------------------
LEMMA Numbers ==
  /\ Want \in Nat /\ Grain \in Nat /\ Grain >= 1 /\ Want >= 1
  /\ Window = Interval + Grain /\ Cap = Interval + Grain + MaxTurn + 1
  /\ Cap \in Nat /\ Window \in Nat
BY WantAssumption, GrainAssumption, TurnAssumption DEF Window, Cap

LEMMA FreshType == Fresh \in Locals
<1>1. (CHOOSE g \in Signals : TRUE) \in Signals
  BY SignalsAssumption
<1> QED
  BY <1>1, WantAssumption, TurnAssumption DEF Fresh, Locals, Copies, NoCopy

LEMMA ReleasedType ==
  ASSUME NEW copy \in Copies, copy.left + copy.done <= Want, NEW qty \in 0..Want,
         NEW end \in {"filled", "closed"}
  PROVE  /\ Released(copy, qty, end) \in Rows
         /\ Released(copy, qty, end).left + Released(copy, qty, end).done <= Want
         /\ Released(copy, qty, end).state \in {"open", end}
BY WantAssumption DEF Released, Least, Rows, Copies

LEMMA TypeInit == Init => TypeOK
BY FreshType, Numbers, BoundsAssumption DEF Init, TypeOK, Rows

LEMMA SumsInit == Init => Sums
BY FreshType, Numbers DEF Init, Sums, Fresh, NoCopy

\* The local states that the steps of a session lead to.
LEMMA LocalMoves ==
  ASSUME NEW q \in Locals
  PROVE  /\ \A c \in 0..Interval : [q EXCEPT !.clock = c] \in Locals
         /\ \A gs \in SUBSET Signals :
              /\ [q EXCEPT !.todo = gs] \in Locals
              /\ [q EXCEPT !.pc = "claim", !.clock = 0, !.todo = gs] \in Locals
              /\ \A own, book, fly \in SUBSET Signals :
                   [q EXCEPT !.todo = gs, !.owned = own, !.book = book, !.flying = fly] \in Locals
              /\ \A k \in 0..Want, pc \in {"free", "claim"} :
                   [q EXCEPT !.pc = pc, !.flying = gs, !.qty = k] \in Locals
              /\ [q EXCEPT !.pc = "claim", !.qty = 0, !.copy = NoCopy, !.book = gs] \in Locals
              /\ \A old \in SUBSET Signals :
                   [q EXCEPT !.pc = "read", !.todo = gs, !.old = old] \in Locals
              /\ \A keep \in SUBSET Signals :
                   /\ [q EXCEPT !.todo = gs, !.keep = keep] \in Locals
                   /\ [q EXCEPT !.pc = "judge", !.copy = NoCopy, !.todo = gs, !.keep = keep]
                        \in Locals
                   /\ \A credit \in [Signals -> 0..Want], sure \in {"yes", "no"} :
                        [q EXCEPT !.pc = "judge", !.credit = credit, !.todo = gs,
                                  !.keep = keep, !.old = {}, !.sure = sure] \in Locals
              /\ \A own \in SUBSET Signals, c \in 0..Interval :
                   [q EXCEPT !.pc = "asleep", !.boot = "no", !.clock = c, !.book = gs,
                             !.owned = own, !.keep = {}, !.credit = [g \in Signals |-> 0]]
                     \in Locals
         /\ \A g \in Signals : [q EXCEPT !.pc = "apply", !.item = g] \in Locals
         /\ \A k \in 0..Want, copy \in Copies, pc \in {"freed", "claim"} :
              [q EXCEPT !.pc = pc, !.qty = k, !.copy = copy] \in Locals
         /\ \A c \in 0..Interval, sure \in {"yes", "no"} :
              [q EXCEPT !.pc = "asleep", !.boot = "no", !.clock = c, !.sure = sure,
                        !.book = {}, !.owned = {}] \in Locals
         /\ \A g \in Signals, copy \in Copies :
              [q EXCEPT !.pc = "write", !.item = g, !.copy = copy] \in Locals
<1>1. NoCopy \in Copies /\ 0 \in 0..Want /\ 0 \in 0..Interval
  BY WantAssumption, TurnAssumption DEF NoCopy, Copies
<1>2. [g \in Signals |-> 0] \in [Signals -> 0..Want]
  BY <1>1
<1>3. ASSUME NEW c \in 0..Interval PROVE [q EXCEPT !.clock = c] \in Locals
  BY <1>1, <1>2 DEF Locals
<1>4. ASSUME NEW gs \in SUBSET Signals
     PROVE  /\ [q EXCEPT !.todo = gs] \in Locals
            /\ [q EXCEPT !.pc = "claim", !.clock = 0, !.todo = gs] \in Locals
  BY <1>1, <1>2 DEF Locals
<1>5. ASSUME NEW gs \in SUBSET Signals, NEW own \in SUBSET Signals, NEW book \in SUBSET Signals,
            NEW fly \in SUBSET Signals
     PROVE  [q EXCEPT !.todo = gs, !.owned = own, !.book = book, !.flying = fly] \in Locals
  BY <1>1, <1>2 DEF Locals
<1>6. ASSUME NEW gs \in SUBSET Signals, NEW k \in 0..Want, NEW pc \in {"free", "claim"}
     PROVE  [q EXCEPT !.pc = pc, !.flying = gs, !.qty = k] \in Locals
  BY <1>1, <1>2 DEF Locals
<1>7. ASSUME NEW gs \in SUBSET Signals
     PROVE  [q EXCEPT !.pc = "claim", !.qty = 0, !.copy = NoCopy, !.book = gs] \in Locals
  BY <1>1, <1>2 DEF Locals
<1>8. ASSUME NEW gs \in SUBSET Signals, NEW old \in SUBSET Signals
     PROVE  [q EXCEPT !.pc = "read", !.todo = gs, !.old = old] \in Locals
  BY <1>1, <1>2 DEF Locals
<1>9. ASSUME NEW gs \in SUBSET Signals, NEW keep \in SUBSET Signals
     PROVE  /\ [q EXCEPT !.todo = gs, !.keep = keep] \in Locals
            /\ [q EXCEPT !.pc = "judge", !.copy = NoCopy, !.todo = gs, !.keep = keep]
                 \in Locals
  BY <1>1, <1>2 DEF Locals
<1>10. ASSUME NEW gs \in SUBSET Signals, NEW keep \in SUBSET Signals,
            NEW credit \in [Signals -> 0..Want], NEW sure \in {"yes", "no"}
     PROVE  [q EXCEPT !.pc = "judge", !.credit = credit, !.todo = gs,
                      !.keep = keep, !.old = {}, !.sure = sure] \in Locals
  BY <1>1, <1>2 DEF Locals
<1>11. ASSUME NEW gs \in SUBSET Signals, NEW own \in SUBSET Signals, NEW c \in 0..Interval
     PROVE  [q EXCEPT !.pc = "asleep", !.boot = "no", !.clock = c, !.book = gs,
                      !.owned = own, !.keep = {}, !.credit = [g \in Signals |-> 0]]
              \in Locals
  BY <1>1, <1>2 DEF Locals
<1>12. ASSUME NEW g \in Signals PROVE [q EXCEPT !.pc = "apply", !.item = g] \in Locals
  BY <1>1, <1>2 DEF Locals
<1>13. ASSUME NEW k \in 0..Want, NEW copy \in Copies, NEW pc \in {"freed", "claim"}
     PROVE  [q EXCEPT !.pc = pc, !.qty = k, !.copy = copy] \in Locals
  BY <1>1, <1>2 DEF Locals
<1>14. ASSUME NEW c \in 0..Interval, NEW sure \in {"yes", "no"}
     PROVE  [q EXCEPT !.pc = "asleep", !.boot = "no", !.clock = c, !.sure = sure,
                      !.book = {}, !.owned = {}] \in Locals
  BY <1>1, <1>2 DEF Locals
<1>15. ASSUME NEW g \in Signals, NEW copy \in Copies
     PROVE  [q EXCEPT !.pc = "write", !.item = g, !.copy = copy] \in Locals
  BY <1>1, <1>2 DEF Locals
<1> QED
  BY <1>3, <1>4, <1>5, <1>6, <1>7, <1>8, <1>9, <1>10, <1>11, <1>12, <1>13, <1>14, <1>15

LEMMA AppliedType ==
  ASSUME TypeOK, NEW g \in Signals, NEW k \in 0..trace[g], Applied(g, k)
  PROVE  trace' \in [Signals -> 0..Want] /\ made' \in [Signals -> 0..Want]
<1>1. trace[g] \in 0..Want /\ made[g] \in 0..Want
  BY DEF TypeOK
<1>2. trace[g] - k \in 0..Want /\ Least(made[g] + k, Want) \in 0..Want /\ 0 \in 0..Want
  BY <1>1, Numbers DEF Least
<1> QED
  BY <1>2 DEF Applied, TypeOK

LEMMA SaveType ==
  ASSUME TypeOK, NEW s \in Sessions, NEW g \in Signals, NEW new \in Rows, Save(s, g, new)
  PROVE  /\ row' \in [Signals -> Rows] /\ age' \in [Signals -> 0..Cap]
         /\ made' \in [Signals -> 0..Want] /\ torn' \in {"yes", "no"}
<1>1. 0 \in 0..Cap /\ 0 \in 0..Want
  BY Numbers
<1> QED
  BY <1>1 DEF Save, TypeOK

\* What a sweep may write, it owns or has listed as aged.
LEMMA ReadMoves ==
  ASSUME TypeOK, NEW s \in Sessions, Read(s)
  PROVE  \E credit \in [Signals -> 0..Want], todo \in SUBSET Signals,
            keep \in SUBSET Signals, sure \in {"yes", "no"} :
           /\ todo \subseteq proc[s].owned \cup proc[s].old
           /\ proc' = [proc EXCEPT ![s].pc = "judge", ![s].credit = credit, ![s].todo = todo,
                                   ![s].keep = keep, ![s].old = {}, ![s].sure = sure]
<1>t. /\ proc[s].todo \subseteq Signals /\ proc[s].old \subseteq Signals
      /\ proc[s].owned \subseteq Signals
  BY DEF TypeOK, Locals
<1>1. PICK facts \in {"read", "raised"}, traces \in {"read", "raised"},
          unseen \in SUBSET {g \in Signals : trace[g] > 0} :
        LET measured == facts = "read" /\ traces = "read"
            flawless == measured /\ unseen = {}
            judged == proc[s].todo \cap (Mine(s) \cup proc[s].old)
            credit == [g \in Signals |->
                         IF g \in judged /\ proc[s].boot = "yes" /\ facts = "read"
                           THEN made[g] ELSE 0]
            dead == {g \in judged : measured /\ (trace[g] = 0 \/ g \in unseen)}
            ending == {g \in Signals : credit[g] > 0} \cup dead IN
        /\ flawless \/ faults < MaxFaults
        /\ faults' = IF flawless THEN faults ELSE faults + 1
        /\ proc' = [proc EXCEPT ![s].pc = "judge", ![s].credit = credit,
             ![s].todo = ending, ![s].keep = proc[s].todo \ ending, ![s].old = {},
             ![s].sure = IF measured THEN "yes" ELSE "no"]
  BY DEF Read
<1> DEFINE measured == facts = "read" /\ traces = "read"
           judged == proc[s].todo \cap (Mine(s) \cup proc[s].old)
           credit == [g \in Signals |->
                        IF g \in judged /\ proc[s].boot = "yes" /\ facts = "read"
                          THEN made[g] ELSE 0]
           dead == {g \in judged : measured /\ (trace[g] = 0 \/ g \in unseen)}
           ending == {g \in Signals : credit[g] > 0} \cup dead
           keep == proc[s].todo \ ending
           sure == IF measured THEN "yes" ELSE "no"
<1>2. credit \in [Signals -> 0..Want]
  BY Numbers DEF TypeOK
<1>3. \A g \in Signals : credit[g] > 0 => g \in judged
  BY <1>2
<1>4. judged \subseteq proc[s].owned \cup proc[s].old
  BY DEF Mine
<1>5. ending \subseteq judged /\ ending \in SUBSET Signals /\ keep \in SUBSET Signals
  <2> HIDE DEF credit, judged
  <2>1. judged \subseteq Signals
    BY <1>4, <1>t
  <2> QED
    BY <1>3, <1>t, <2>1
<1>6. proc' = [proc EXCEPT ![s].pc = "judge", ![s].credit = credit, ![s].todo = ending,
                           ![s].keep = keep, ![s].old = {}, ![s].sure = sure]
  BY <1>1
<1>7. sure \in {"yes", "no"}
  OBVIOUS
<1> HIDE DEF credit, ending, keep, sure, judged
<1>8. ending \subseteq proc[s].owned \cup proc[s].old
  BY <1>4, <1>5
<1> QED
  BY <1>2, <1>5, <1>6, <1>7, <1>8

\* A reading that was not flawless is counted.
LEMMA ReadCounts ==
  ASSUME TypeOK, NEW s \in Sessions, Read(s)
  PROVE  faults' \in 0..MaxFaults
<1>1. PICK facts \in {"read", "raised"}, traces \in {"read", "raised"},
          unseen \in SUBSET {g \in Signals : trace[g] > 0} :
        LET measured == facts = "read" /\ traces = "read"
            flawless == measured /\ unseen = {}
            judged == proc[s].todo \cap (Mine(s) \cup proc[s].old)
            credit == [g \in Signals |->
                         IF g \in judged /\ proc[s].boot = "yes" /\ facts = "read"
                           THEN made[g] ELSE 0]
            dead == {g \in judged : measured /\ (trace[g] = 0 \/ g \in unseen)}
            ending == {g \in Signals : credit[g] > 0} \cup dead IN
        /\ flawless \/ faults < MaxFaults
        /\ faults' = IF flawless THEN faults ELSE faults + 1
        /\ proc' = [proc EXCEPT ![s].pc = "judge", ![s].credit = credit,
             ![s].todo = ending, ![s].keep = proc[s].todo \ ending, ![s].old = {},
             ![s].sure = IF measured THEN "yes" ELSE "no"]
  BY DEF Read
<1>2. faults' = faults \/ (faults < MaxFaults /\ faults' = faults + 1)
  BY <1>1
<1> QED
  BY <1>2, BoundsAssumption DEF TypeOK

LEMMA TypeStep == TypeOK /\ Sums /\ [Next]_vars => TypeOK'
<1> SUFFICES ASSUME TypeOK, Sums, [Next]_vars PROVE TypeOK'
  OBVIOUS
<1> USE DEF fills
<1>t. /\ proc \in [Sessions -> Locals] /\ \A s \in Sessions : proc[s] \in Locals
      /\ \A s \in Sessions :
           /\ proc[s].todo \subseteq Signals /\ proc[s].keep \subseteq Signals
           /\ proc[s].owned \subseteq Signals /\ proc[s].book \subseteq Signals
           /\ proc[s].old \subseteq Signals /\ proc[s].flying \subseteq Signals
           /\ proc[s].item \in Signals /\ proc[s].qty \in 0..Want /\ proc[s].copy \in Copies
           /\ proc[s].clock \in 0..Interval /\ proc[s].credit \in [Signals -> 0..Want]
  BY DEF TypeOK, Locals
<1>n. NoCopy \in Copies /\ 0 \in 0..Want /\ 0 \in 0..Interval /\ 0 \in 0..Cap
  BY Numbers, TurnAssumption DEF NoCopy, Copies
<1>f. faults < MaxFaults => faults + 1 \in 0..MaxFaults
  BY BoundsAssumption DEF TypeOK
<1>1. CASE UNCHANGED vars
  BY <1>1 DEF vars, TypeOK
<1>2. ASSUME NEW s \in Sessions, Plan(s) PROVE TypeOK'
  <2>1. PICK chosen \in SUBSET (Signals \ consumed[s]) :
          proc' = [proc EXCEPT ![s].pc = "claim", ![s].clock = 0, ![s].todo = chosen]
    BY <1>2 DEF Plan
  <2>2. [proc[s] EXCEPT !.pc = "claim", !.clock = 0, !.todo = chosen] \in Locals
    BY <1>t, LocalMoves
  <2>3. proc' \in [Sessions -> Locals]
    BY <2>1, <2>2, <1>t
  <2> QED
    BY <1>2, <2>3 DEF Plan, TypeOK
<1>3. ASSUME NEW s \in Sessions, NEW g \in Signals, Claim(s, g) PROVE TypeOK'
  <2>1. CASE ~Claimable(g)
    <3>1. [proc[s] EXCEPT !.todo = proc[s].todo \ {g}] \in Locals
      BY <1>t, LocalMoves
    <3>2. proc' \in [Sessions -> Locals]
      BY <1>3, <2>1, <3>1, <1>t DEF Claim
    <3> QED
      BY <1>3, <2>1, <3>2 DEF Claim, TypeOK
  <2>2. CASE Claimable(g)
    <3> DEFINE todo == proc[s].todo \ {g}
               owned == proc[s].owned \cup {g}
               book == proc[s].book \cup {g}
               fly == IF g \in proc[s].book THEN proc[s].flying ELSE proc[s].flying \cup {g}
    <3>1. todo \in SUBSET Signals /\ owned \in SUBSET Signals /\ book \in SUBSET Signals
            /\ fly \in SUBSET Signals
      BY <1>t
    <3>2. [proc[s] EXCEPT !.todo = todo, !.owned = owned, !.book = book, !.flying = fly]
            \in Locals
      <4> HIDE DEF todo, owned, book, fly
      <4> QED
        BY <1>t, <3>1, LocalMoves
    <3>3. proc' \in [Sessions -> Locals]
      BY <1>3, <2>2, <3>2, <1>t DEF Claim
    <3>4. [state |-> "open", left |-> Want, done |-> 0] \in Rows
      BY Numbers DEF Rows
    <3>5. row' \in [Signals -> Rows] /\ made' \in [Signals -> 0..Want]
      BY <1>3, <2>2, <3>4, <1>n DEF Claim, TypeOK
    <3>6. \A cut \in 0..(Grain - 1) : proc[s].clock + cut \in 0..Cap
      BY <1>t, Numbers, TurnAssumption
    <3>7. age' \in [Signals -> 0..Cap]
      BY <1>3, <2>2, <3>6 DEF Claim, TypeOK
    <3>8. stale' \in [Sessions -> SUBSET Signals]
      BY <1>3, <2>2 DEF Claim, TypeOK
    <3> QED
      BY <1>3, <3>3, <3>5, <3>7, <3>8 DEF Claim, TypeOK
  <2> QED
    BY <2>1, <2>2
<1>4. ASSUME NEW s \in Sessions, NEW g \in Signals, ClaimRaises(s, g) PROVE TypeOK'
  <2>1. [proc[s] EXCEPT !.todo = proc[s].todo \ {g}] \in Locals
    BY <1>t, LocalMoves
  <2>2. proc' \in [Sessions -> Locals]
    BY <1>4, <2>1, <1>t DEF ClaimRaises
  <2> QED
    BY <1>4, <2>2, <1>f DEF ClaimRaises, TypeOK
<1>5. ASSUME NEW s \in Sessions, NEW g \in Signals, Emit(s, g) PROVE TypeOK'
  <2>1. [proc[s] EXCEPT !.pc = "apply", !.item = g] \in Locals
    BY <1>t, LocalMoves
  <2>2. proc' \in [Sessions -> Locals]
    BY <1>5, <2>1, <1>t DEF Emit
  <2>3. \A n \in 0..Want : Least(trace[g] + n, Want) \in 0..Want
    BY Numbers DEF Least, TypeOK
  <2>4. trace' \in [Signals -> 0..Want]
    BY <1>5, <2>3 DEF Emit, TypeOK
  <2> QED
    BY <1>5, <2>2, <2>4 DEF Emit, TypeOK
<1>6. ASSUME NEW s \in Sessions, Settle(s) PROVE TypeOK'
  <2> DEFINE g == proc[s].item
  <2>1. PICK k \in 0..trace[g] : \E told \in {0, k} :
          /\ Applied(g, k)
          /\ told = k \/ faults < MaxFaults
          /\ faults' = IF told = k THEN faults ELSE faults + 1
          /\ proc' = [proc EXCEPT ![s].pc = IF told > 0 THEN "free" ELSE "claim",
                                  ![s].flying = proc[s].flying \ {g}, ![s].qty = told]
    BY <1>6 DEF Settle
  <2>t. PICK told \in {0, k} :
          /\ told = k \/ faults < MaxFaults
          /\ faults' = IF told = k THEN faults ELSE faults + 1
          /\ proc' = [proc EXCEPT ![s].pc = IF told > 0 THEN "free" ELSE "claim",
                                  ![s].flying = proc[s].flying \ {g}, ![s].qty = told]
    BY <2>1
  <2>2. g \in Signals /\ k \in 0..Want /\ told \in 0..Want
    <3>1. g \in Signals
      BY <1>t
    <3>2. trace[g] \in 0..Want
      BY <3>1 DEF TypeOK
    <3> QED
      BY <3>1, <3>2, Numbers
  <2>3. [proc[s] EXCEPT !.pc = IF told > 0 THEN "free" ELSE "claim",
                        !.flying = proc[s].flying \ {g}, !.qty = told] \in Locals
    BY <2>2, <1>t, LocalMoves
  <2>f. faults' \in 0..MaxFaults
    BY <2>t, <1>f DEF TypeOK
  <2>4. proc' \in [Sessions -> Locals]
    BY <2>t, <2>3, <1>t
  <2>5. trace' \in [Signals -> 0..Want] /\ made' \in [Signals -> 0..Want]
    BY <2>1, <2>2, AppliedType
  <2> QED
    BY <1>6, <2>4, <2>5, <2>f DEF Settle, TypeOK
<1>7. ASSUME NEW s \in Sessions, Free(s) PROVE TypeOK'
  <2> DEFINE g == proc[s].item
             copy == IF Live(g) THEN [left |-> row[g].left, done |-> row[g].done] ELSE NoCopy
             qty == IF Live(g) THEN proc[s].qty ELSE 0
             pc == IF Live(g) THEN "freed" ELSE "claim"
  <2>1. copy \in Copies /\ qty \in 0..Want /\ pc \in {"freed", "claim"}
    BY <1>t, <1>n DEF TypeOK, Rows, Copies
  <2>2. [proc[s] EXCEPT !.pc = pc, !.qty = qty, !.copy = copy] \in Locals
    <3> HIDE DEF copy, qty, pc
    <3> QED
      BY <2>1, <1>t, LocalMoves
  <2>3. proc' \in [Sessions -> Locals]
    BY <1>7, <2>2, <1>t DEF Free
  <2>4. consumed' \in [Sessions -> SUBSET Signals]
    BY <1>7, <1>t DEF Free, TypeOK
  <2> QED
    BY <1>7, <2>3, <2>4 DEF Free, TypeOK
<1>8. ASSUME NEW s \in Sessions, Freed(s) PROVE TypeOK'
  <2> DEFINE g == proc[s].item
             new == Released(proc[s].copy, proc[s].qty, "filled")
             book == IF new.state = "open" THEN proc[s].book ELSE proc[s].book \ {g}
  <2>1. new \in Rows /\ g \in Signals
    BY <1>t, ReleasedType DEF Sums
  <2>2. book \in SUBSET Signals
    BY <1>t
  <2>3. [proc[s] EXCEPT !.pc = "claim", !.qty = 0, !.copy = NoCopy, !.book = book] \in Locals
    <3> HIDE DEF book
    <3> QED
      BY <2>2, <1>t, LocalMoves
  <2>4. proc' \in [Sessions -> Locals]
    BY <1>8, <2>3, <1>t DEF Freed
  <2>5. Save(s, g, new)
    BY <1>8 DEF Freed
  <2> HIDE DEF new, g
  <2>6. /\ row' \in [Signals -> Rows] /\ age' \in [Signals -> 0..Cap]
        /\ made' \in [Signals -> 0..Want] /\ torn' \in {"yes", "no"}
    BY <2>1, <2>5, SaveType
  <2> QED
    BY <1>8, <2>4, <2>6 DEF Freed, TypeOK
<1>9. ASSUME NEW s \in Sessions, FreeRaises(s) PROVE TypeOK'
  <2>1. [proc[s] EXCEPT !.pc = "claim", !.qty = 0, !.copy = NoCopy] \in Locals
    BY <1>t, <1>n, LocalMoves
  <2>2. proc' \in [Sessions -> Locals]
    BY <1>9, <2>1, <1>t DEF FreeRaises
  <2> QED
    BY <1>9, <2>2, <1>f DEF FreeRaises, TypeOK
<1>10. ASSUME NEW s \in Sessions, List(s) PROVE TypeOK'
  <2>1. Rest(s) \in 0..Interval
    BY TurnAssumption DEF Rest
  <2>2. Emptied(s, "yes") \in Locals
    BY <2>1, <1>t, LocalMoves DEF Emptied
  <2>3. LiveSet \in SUBSET Signals /\ {g \in LiveSet : Aged(s, g)} \in SUBSET Signals
    BY DEF LiveSet
  <2>4. [proc[s] EXCEPT !.pc = "read", !.todo = LiveSet,
                        !.old = {g \in LiveSet : Aged(s, g)}] \in Locals
    BY <2>3, <1>t, LocalMoves
  <2>5. proc' \in [Sessions -> Locals]
    BY <1>10, <2>2, <2>4, <1>t DEF List
  <2>6. stale' \in [Sessions -> SUBSET Signals]
    BY <1>10 DEF List, TypeOK
  <2> QED
    BY <1>10, <2>5, <2>6 DEF List, TypeOK
<1>11. ASSUME NEW s \in Sessions, ListRaises(s) PROVE TypeOK'
  <2>1. Rest(s) \in 0..Interval
    BY TurnAssumption DEF Rest
  <2>2. Emptied(s, "no") \in Locals
    BY <2>1, <1>t, LocalMoves DEF Emptied
  <2>3. proc' \in [Sessions -> Locals]
    BY <1>11, <2>2, <1>t DEF ListRaises
  <2> QED
    BY <1>11, <2>3, <1>f DEF ListRaises, TypeOK
<1>12. ASSUME NEW s \in Sessions, Read(s) PROVE TypeOK'
  <2>1. PICK credit \in [Signals -> 0..Want], todo \in SUBSET Signals,
             keep \in SUBSET Signals, sure \in {"yes", "no"} :
          /\ todo \subseteq proc[s].owned \cup proc[s].old
          /\ proc' = [proc EXCEPT ![s].pc = "judge", ![s].credit = credit, ![s].todo = todo,
                                  ![s].keep = keep, ![s].old = {}, ![s].sure = sure]
    BY <1>12, ReadMoves
  <2>2. faults' \in 0..MaxFaults
    BY <1>12, ReadCounts
  <2>3. [proc[s] EXCEPT !.pc = "judge", !.credit = credit, !.todo = todo, !.keep = keep,
                        !.old = {}, !.sure = sure] \in Locals
    BY <1>t, LocalMoves
  <2>4. proc' \in [Sessions -> Locals]
    BY <2>1, <2>3, <1>t
  <2> QED
    BY <1>12, <2>2, <2>4 DEF Read, TypeOK
<1>13. ASSUME NEW s \in Sessions, NEW g \in Signals, Judge(s, g) PROVE TypeOK'
  <2>1. [left |-> row[g].left, done |-> row[g].done] \in Copies
    BY DEF TypeOK, Rows, Copies
  <2>2. [proc[s] EXCEPT !.pc = "write", !.item = g,
                        !.copy = [left |-> row[g].left, done |-> row[g].done]] \in Locals
    BY <2>1, <1>t, LocalMoves
  <2>3. proc[s].todo \ {g} \in SUBSET Signals /\ proc[s].keep \cup {g} \in SUBSET Signals
    BY <1>t
  <2>4. [proc[s] EXCEPT !.todo = proc[s].todo \ {g}, !.keep = proc[s].keep \cup {g}] \in Locals
    BY <2>3, <1>t, LocalMoves
  <2>5. proc' \in [Sessions -> Locals]
    BY <1>13, <2>2, <2>4, <1>t DEF Judge
  <2> QED
    BY <1>13, <2>5 DEF Judge, TypeOK
<1>14. ASSUME NEW s \in Sessions, NEW g \in Signals, JudgeRaises(s, g) PROVE TypeOK'
  <2>0. proc[s].todo \ {g} \in SUBSET Signals /\ proc[s].keep \cup {g} \in SUBSET Signals
    BY <1>t
  <2>1. [proc[s] EXCEPT !.todo = proc[s].todo \ {g}, !.keep = proc[s].keep \cup {g}] \in Locals
    BY <2>0, <1>t, LocalMoves
  <2>2. proc' \in [Sessions -> Locals]
    BY <1>14, <2>1, <1>t DEF JudgeRaises
  <2> QED
    BY <1>14, <2>2, <1>f DEF JudgeRaises, TypeOK
<1>15. ASSUME NEW s \in Sessions, Write(s) PROVE TypeOK'
  <2> DEFINE g == proc[s].item
             q == proc[s]
             new == IF q.credit[g] > 0 THEN Released(q.copy, q.credit[g], "filled")
                                       ELSE Released(q.copy, q.copy.left, "closed")
             keep == IF new.state = "open" THEN q.keep \cup {g} ELSE q.keep
  <2>1. q.credit[g] \in 0..Want /\ q.copy.left \in 0..Want /\ g \in Signals
    BY <1>t DEF Copies
  <2>2. new \in Rows
    BY <1>t, <2>1, ReleasedType DEF Sums
  <2>3. keep \in SUBSET Signals
    BY <1>t
  <2>4. [proc[s] EXCEPT !.pc = "judge", !.copy = NoCopy, !.todo = proc[s].todo \ {g},
                        !.keep = keep] \in Locals
    <3> HIDE DEF keep
    <3> QED
      BY <2>3, <1>t, LocalMoves
  <2>5. proc' \in [Sessions -> Locals]
    BY <1>15, <2>4, <1>t DEF Write
  <2>6. Save(s, g, new)
    BY <1>15 DEF Write
  <2> HIDE DEF new, g
  <2>7. /\ row' \in [Signals -> Rows] /\ age' \in [Signals -> 0..Cap]
        /\ made' \in [Signals -> 0..Want] /\ torn' \in {"yes", "no"}
    BY <2>1, <2>2, <2>6, SaveType
  <2> QED
    BY <1>15, <2>5, <2>7 DEF Write, TypeOK
<1>16. ASSUME NEW s \in Sessions, Settled(s) PROVE TypeOK'
  <2>1. Rest(s) \in 0..Interval
    BY TurnAssumption DEF Rest
  <2>2. [proc[s] EXCEPT !.pc = "asleep", !.boot = "no", !.clock = Rest(s),
           !.book = proc[s].keep, !.owned = proc[s].owned \cap proc[s].keep, !.keep = {},
           !.credit = [g \in Signals |-> 0]] \in Locals
    BY <2>1, <1>t, LocalMoves
  <2>3. proc' \in [Sessions -> Locals]
    BY <1>16, <2>2, <1>t DEF Settled
  <2> QED
    BY <1>16, <2>3 DEF Settled, TypeOK
<1>17. CASE Tick
  <2>1. \A g \in Signals : Least(age[g] + 1, Cap) \in 0..Cap
    BY Numbers DEF Least, TypeOK
  <2>2. age' \in [Signals -> 0..Cap]
    BY <1>17, <2>1 DEF Tick, TypeOK
  <2>3. ASSUME NEW s \in Sessions PROVE proc'[s] \in Locals
    <3>1. Busy(s) => proc[s].clock + 1 \in 0..Interval
      BY <1>17, <1>t, TurnAssumption DEF Tick
    <3>2. Least(proc[s].clock + 1, Interval) \in 0..Interval
      BY <1>t, TurnAssumption DEF Least
    <3>3. /\ Busy(s) => [proc[s] EXCEPT !.clock = proc[s].clock + 1] \in Locals
          /\ [proc[s] EXCEPT !.clock = Least(proc[s].clock + 1, Interval)] \in Locals
      BY <3>1, <3>2, <1>t, LocalMoves
    <3> QED
      BY <1>17, <3>3, <1>t DEF Tick
  <2>4. proc' \in [Sessions -> Locals]
    BY <1>17, <2>3 DEF Tick
  <2> QED
    BY <1>17, <2>2, <2>4 DEF Tick, TypeOK
<1>18. ASSUME NEW s \in Sessions, Crash(s) PROVE TypeOK'
  <2>1. proc' \in [Sessions -> Locals]
    BY <1>18, FreshType, <1>t DEF Crash
  <2> QED
    BY <1>18, <2>1, <1>f DEF Crash, TypeOK
<1> QED
  BY <1>1, <1>2, <1>3, <1>4, <1>5, <1>6, <1>7, <1>8, <1>9, <1>10, <1>11, <1>12, <1>13,
     <1>14, <1>15, <1>16, <1>17, <1>18 DEF Next, Work, Raise
LEMMA SumsStep == TypeOK /\ Sums /\ [Next]_vars => Sums'
<1> SUFFICES ASSUME TypeOK, Sums, [Next]_vars PROVE Sums'
  OBVIOUS
<1> USE DEF fills
<1>t. /\ proc \in [Sessions -> Locals] /\ \A s \in Sessions : proc[s] \in Locals
      /\ \A s \in Sessions :
           /\ proc[s].item \in Signals /\ proc[s].qty \in 0..Want /\ proc[s].copy \in Copies
           /\ proc[s].credit \in [Signals -> 0..Want]
  BY DEF TypeOK, Locals
<1>n. NoCopy.left + NoCopy.done <= Want
  BY Numbers DEF NoCopy
<1>r. \A g \in Signals : row[g] \in Rows
  BY DEF TypeOK
<1>q. row' = row /\ (\A s \in Sessions : proc'[s].copy = proc[s].copy) => Sums'
  BY DEF Sums
<1>1. CASE UNCHANGED vars
  BY <1>1, <1>q DEF vars
<1>2. ASSUME NEW s \in Sessions, Plan(s) PROVE Sums'
  BY <1>2, <1>q, <1>t DEF Plan, Locals
<1>3. ASSUME NEW s \in Sessions, NEW g \in Signals, Claim(s, g) PROVE Sums'
  <2>1. \A t \in Sessions : proc'[t].copy = proc[t].copy
    <3>1. CASE Claimable(g)
      BY <1>3, <3>1, <1>t DEF Claim, Locals
    <3>2. CASE ~Claimable(g)
      BY <1>3, <3>2, <1>t DEF Claim, Locals
    <3> QED
      BY <3>1, <3>2
  <2>2. \A h \in Signals : row'[h].left + row'[h].done <= Want
    BY <1>3, Numbers DEF Claim, Sums, TypeOK
  <2> QED
    BY <2>1, <2>2 DEF Sums
<1>4. ASSUME NEW s \in Sessions, NEW g \in Signals, ClaimRaises(s, g) PROVE Sums'
  BY <1>4, <1>q, <1>t DEF ClaimRaises, Locals
<1>5. ASSUME NEW s \in Sessions, NEW g \in Signals, Emit(s, g) PROVE Sums'
  BY <1>5, <1>q, <1>t DEF Emit, Locals
<1>6. ASSUME NEW s \in Sessions, Settle(s) PROVE Sums'
  BY <1>6, <1>q, <1>t DEF Settle, Locals
<1>7. ASSUME NEW s \in Sessions, Free(s) PROVE Sums'
  <2>1. \A t \in Sessions : proc'[t].copy.left + proc'[t].copy.done <= Want
    BY <1>7, <1>t, <1>n, <1>r DEF Free, Sums, Locals, Copies, Rows
  <2> QED
    BY <1>7, <2>1 DEF Free, Sums
<1>8. ASSUME NEW s \in Sessions, Freed(s) PROVE Sums'
  <2> DEFINE new == Released(proc[s].copy, proc[s].qty, "filled")
  <2>1. new \in Rows /\ new.left + new.done <= Want
    BY <1>t, ReleasedType DEF Sums
  <2>2. row' = [row EXCEPT ![proc[s].item] = new]
    BY <1>8 DEF Freed, Save
  <2>3. \A t \in Sessions : proc'[t].copy \in {proc[t].copy, NoCopy}
    BY <1>8, <1>t DEF Freed, Locals
  <2> HIDE DEF new
  <2> QED
    BY <2>1, <2>2, <2>3, <1>n DEF Sums, TypeOK
<1>9. ASSUME NEW s \in Sessions, FreeRaises(s) PROVE Sums'
  <2>1. \A t \in Sessions : proc'[t].copy \in {proc[t].copy, NoCopy}
    BY <1>9, <1>t DEF FreeRaises, Locals
  <2> QED
    BY <1>9, <2>1, <1>n DEF FreeRaises, Sums
<1>10. ASSUME NEW s \in Sessions, List(s) PROVE Sums'
  BY <1>10, <1>q, <1>t DEF List, Emptied, Locals
<1>11. ASSUME NEW s \in Sessions, ListRaises(s) PROVE Sums'
  BY <1>11, <1>q, <1>t DEF ListRaises, Emptied, Locals
<1>12. ASSUME NEW s \in Sessions, Read(s) PROVE Sums'
  <2>1. PICK credit \in [Signals -> 0..Want], todo \in SUBSET Signals,
             keep \in SUBSET Signals, sure \in {"yes", "no"} :
          /\ todo \subseteq proc[s].owned \cup proc[s].old
          /\ proc' = [proc EXCEPT ![s].pc = "judge", ![s].credit = credit, ![s].todo = todo,
                                  ![s].keep = keep, ![s].old = {}, ![s].sure = sure]
    BY <1>12, ReadMoves
  <2>2. \A t \in Sessions : proc'[t].copy = proc[t].copy
    BY <2>1, <1>t DEF Locals
  <2> QED
    BY <1>12, <2>2, <1>q DEF Read
<1>13. ASSUME NEW s \in Sessions, NEW g \in Signals, Judge(s, g) PROVE Sums'
  <2>1. \A t \in Sessions : proc'[t].copy.left + proc'[t].copy.done <= Want
    BY <1>13, <1>t, <1>r DEF Judge, Sums, Locals, Copies, Rows
  <2> QED
    BY <1>13, <2>1 DEF Judge, Sums
<1>14. ASSUME NEW s \in Sessions, NEW g \in Signals, JudgeRaises(s, g) PROVE Sums'
  BY <1>14, <1>q, <1>t DEF JudgeRaises, Locals
<1>15. ASSUME NEW s \in Sessions, Write(s) PROVE Sums'
  <2> DEFINE g == proc[s].item
             q == proc[s]
             new == IF q.credit[g] > 0 THEN Released(q.copy, q.credit[g], "filled")
                                       ELSE Released(q.copy, q.copy.left, "closed")
  <2>1. q.credit[g] \in 0..Want /\ q.copy.left \in 0..Want /\ g \in Signals
    BY <1>t DEF Copies
  <2>2. new \in Rows /\ new.left + new.done <= Want
    BY <1>t, <2>1, ReleasedType DEF Sums
  <2>3. row' = [row EXCEPT ![g] = new]
    BY <1>15 DEF Write, Save
  <2>4. \A t \in Sessions : proc'[t].copy \in {proc[t].copy, NoCopy}
    BY <1>15, <1>t DEF Write, Locals
  <2> HIDE DEF new, g, q
  <2> QED
    BY <2>2, <2>3, <2>4, <1>n DEF Sums, TypeOK
<1>16. ASSUME NEW s \in Sessions, Settled(s) PROVE Sums'
  BY <1>16, <1>q, <1>t DEF Settled, Locals
<1>17. CASE Tick
  BY <1>17, <1>q, <1>t DEF Tick, Locals
<1>18. ASSUME NEW s \in Sessions, Crash(s) PROVE Sums'
  <2>1. \A t \in Sessions : proc'[t].copy \in {proc[t].copy, NoCopy}
    BY <1>18, <1>t DEF Crash, Locals, Fresh
  <2> QED
    BY <1>18, <2>1, <1>n DEF Crash, Sums
<1> QED
  BY <1>1, <1>2, <1>3, <1>4, <1>5, <1>6, <1>7, <1>8, <1>9, <1>10, <1>11, <1>12, <1>13,
     <1>14, <1>15, <1>16, <1>17, <1>18 DEF Next, Work, Raise

\* Types of every variable in every reachable state.
THEOREM TypeCorrect == Spec => []TypeOK
<1>1. Init => TypeOK /\ Sums
  BY TypeInit, SumsInit
<1>2. TypeOK /\ Sums /\ [Next]_vars => (TypeOK /\ Sums)'
  BY TypeStep, SumsStep
<1> QED
  BY <1>1, <1>2, PTL DEF Spec

LEMMA PhasesInit == Init => Phases
BY TurnAssumption DEF Init, Phases, Fresh

LEMMA PhasesStep == TypeOK /\ Phases /\ [Next]_vars => Phases'
<1> SUFFICES ASSUME TypeOK, Phases, [Next]_vars PROVE Phases'
  OBVIOUS
<1>t. /\ proc \in [Sessions -> Locals] /\ \A s \in Sessions : proc[s] \in Locals
      /\ \A s \in Sessions :
           /\ proc[s].item \in Signals /\ proc[s].clock \in 0..Interval
  BY DEF TypeOK, Locals
<1>m. MaxTurn \in Nat /\ Interval \in Nat
  BY TurnAssumption
<1>1. CASE UNCHANGED vars
  BY <1>1 DEF vars, Phases
<1>2. ASSUME NEW s \in Sessions, Plan(s) PROVE Phases'
  BY <1>2, <1>t, <1>m DEF Plan, Phases, Locals
<1>3. ASSUME NEW s \in Sessions, NEW g \in Signals, Claim(s, g) PROVE Phases'
  <2>1. CASE Claimable(g)
    BY <1>3, <2>1, <1>t DEF Claim, Phases, Locals
  <2>2. CASE ~Claimable(g)
    BY <1>3, <2>2, <1>t DEF Claim, Phases, Locals
  <2> QED
    BY <2>1, <2>2
<1>4. ASSUME NEW s \in Sessions, NEW g \in Signals, ClaimRaises(s, g) PROVE Phases'
  BY <1>4, <1>t, <1>m DEF ClaimRaises, Phases, Locals
<1>5. ASSUME NEW s \in Sessions, NEW g \in Signals, Emit(s, g) PROVE Phases'
  BY <1>5, <1>t, <1>m DEF Emit, Phases, Locals
<1>6. ASSUME NEW s \in Sessions, Settle(s) PROVE Phases'
  BY <1>6, <1>t, <1>m DEF Settle, Phases, Locals
<1>7. ASSUME NEW s \in Sessions, Free(s) PROVE Phases'
  BY <1>7, <1>t, <1>m DEF Free, Phases, Locals
<1>8. ASSUME NEW s \in Sessions, Freed(s) PROVE Phases'
  BY <1>8, <1>t, <1>m DEF Freed, Phases, Locals
<1>9. ASSUME NEW s \in Sessions, FreeRaises(s) PROVE Phases'
  BY <1>9, <1>t, <1>m DEF FreeRaises, Phases, Locals
<1>10. ASSUME NEW s \in Sessions, List(s) PROVE Phases'
  BY <1>10, <1>t, <1>m DEF List, Phases, Locals, Closing, Emptied
<1>11. ASSUME NEW s \in Sessions, ListRaises(s) PROVE Phases'
  BY <1>11, <1>t, <1>m DEF ListRaises, Phases, Locals, Closing, Emptied
<1>12. ASSUME NEW s \in Sessions, Read(s) PROVE Phases'
  <2>1. PICK credit \in [Signals -> 0..Want], todo \in SUBSET Signals,
             keep \in SUBSET Signals, sure \in {"yes", "no"} :
          /\ todo \subseteq proc[s].owned \cup proc[s].old
          /\ proc' = [proc EXCEPT ![s].pc = "judge", ![s].credit = credit, ![s].todo = todo,
                                  ![s].keep = keep, ![s].old = {}, ![s].sure = sure]
    BY <1>12, ReadMoves
  <2>2. proc[s].pc = "read"
    BY <1>12 DEF Read
  <2> QED
    BY <2>1, <2>2, <1>t DEF Phases, Locals
<1>13. ASSUME NEW s \in Sessions, NEW g \in Signals, Judge(s, g) PROVE Phases'
  BY <1>13, <1>t, <1>m DEF Judge, Phases, Locals
<1>14. ASSUME NEW s \in Sessions, NEW g \in Signals, JudgeRaises(s, g) PROVE Phases'
  BY <1>14, <1>t, <1>m DEF JudgeRaises, Phases, Locals
<1>15. ASSUME NEW s \in Sessions, Write(s) PROVE Phases'
  BY <1>15, <1>t, <1>m DEF Write, Phases, Locals
<1>16. ASSUME NEW s \in Sessions, Settled(s) PROVE Phases'
  BY <1>16, <1>t, <1>m DEF Settled, Phases, Locals
<1>17. CASE Tick
  BY <1>17, <1>t, <1>m DEF Tick, Phases, Locals, Busy
<1>18. ASSUME NEW s \in Sessions, Crash(s) PROVE Phases'
  BY <1>18, <1>t, <1>m DEF Crash, Phases, Locals, Fresh
<1> QED
  BY <1>1, <1>2, <1>3, <1>4, <1>5, <1>6, <1>7, <1>8, <1>9, <1>10, <1>11,
     <1>12, <1>13, <1>14, <1>15, <1>16, <1>17, <1>18 DEF Next, Work, Raise

\* A step that lets no order fly, gives no session more to write and leaves the rows
\* alone keeps them safe.
LEMMA SafeShrinks ==
  ASSUME Safe, row' = row, age' = age, stale' = stale, torn' = torn,
         \A s \in Sessions :
           /\ proc'[s].flying \subseteq proc[s].flying
           /\ Held(s)' \subseteq Held(s)
           /\ proc'[s].flying = {} \/ proc'[s].clock = proc[s].clock
  PROVE  Safe'
<1> SUFFICES ASSUME torn = "no" PROVE Flight' /\ Exclusive'
  BY DEF Safe
<1>1. Flight /\ Exclusive
  BY DEF Safe
<1>2. Flight'
  BY <1>1 DEF Flight
<1>3. Exclusive'
  BY <1>1 DEF Exclusive
<1> QED
  BY <1>2, <1>3

\* A write to a row that is not stale to the session touches no order in flight; one to
\* a stale row is recorded.
LEMMA SafeSave ==
  ASSUME TypeOK, Safe, NEW s \in Sessions, NEW g \in Signals, NEW new, Save(s, g, new),
         g \in Held(s), g \notin proc[s].flying, stale' = stale,
         \A t \in Sessions :
           /\ proc'[t].flying \subseteq proc[t].flying
           /\ Held(t)' \subseteq Held(t)
           /\ proc'[t].clock = proc[t].clock
  PROVE  Safe'
<1> SUFFICES ASSUME torn' = "no" PROVE Flight' /\ Exclusive'
  BY DEF Safe
<1>1. torn = "no" /\ g \notin stale[s]
  BY DEF Save
<1>2. Flight /\ Exclusive
  BY <1>1 DEF Safe
<1>3. \A t \in Sessions : g \notin proc[t].flying
  BY <1>1, <1>2 DEF Exclusive
<1>4. \A h \in Signals : h # g => row'[h] = row[h] /\ age'[h] = age[h]
  BY DEF Save, TypeOK
<1>5. \A t \in Sessions : proc[t].flying \subseteq Signals
  BY DEF TypeOK, Locals
<1>6. Flight'
  BY <1>2, <1>3, <1>4, <1>5 DEF Flight
<1>7. Exclusive'
  BY <1>2 DEF Exclusive
<1> QED
  BY <1>6, <1>7

LEMMA SafeInit == Init => Safe
BY DEF Init, Safe, Flight, Exclusive, Fresh

LEMMA SafeStep == Inv /\ [Next]_vars => Safe'
<1> SUFFICES ASSUME Inv, [Next]_vars PROVE Safe'
  OBVIOUS
<1> USE DEF fills
<1>t. /\ proc \in [Sessions -> Locals] /\ \A s \in Sessions : proc[s] \in Locals
      /\ \A s \in Sessions :
           /\ proc[s].item \in Signals /\ proc[s].clock \in 0..Interval
           /\ proc[s].todo \subseteq Signals /\ proc[s].flying \subseteq Signals
  BY DEF Inv, TypeOK, Locals
<1>i. TypeOK /\ Phases /\ Safe /\ Sums
  BY DEF Inv
<1>m. /\ MaxTurn \in Nat /\ Interval \in Nat /\ MaxTurn <= Interval
      /\ Grain \in Nat /\ Grain >= 1 /\ Want \in Nat /\ Want >= 1
      /\ Window = Interval + Grain
  BY TurnAssumption, Numbers
<1>1. CASE UNCHANGED vars
  <2>1. \A s \in Sessions : Held(s)' = Held(s)
    BY <1>1 DEF vars, Held
  <2> QED
    BY <1>1, <1>i, <2>1, SafeShrinks DEF vars
<1>2. ASSUME NEW s \in Sessions, Plan(s) PROVE Safe'
  <2>1. \A t \in Sessions :
          /\ proc'[t].flying \subseteq proc[t].flying
          /\ Held(t)' \subseteq Held(t)
          /\ proc'[t].flying = {} \/ proc'[t].clock = proc[t].clock
    BY <1>2, <1>i, <1>t DEF Plan, Phases, Held, Locals
  <2> QED
    BY <1>2, <2>1, <1>i, SafeShrinks DEF Plan
<1>3. ASSUME NEW s \in Sessions, NEW g \in Signals, Claim(s, g) PROVE Safe'
  <2>1. CASE ~Claimable(g)
    <3>1. \A t \in Sessions :
            /\ proc'[t].flying \subseteq proc[t].flying
            /\ Held(t)' \subseteq Held(t)
            /\ proc'[t].clock = proc[t].clock
      BY <1>3, <2>1, <1>t DEF Claim, Held, Locals
    <3> QED
      BY <1>3, <2>1, <3>1, <1>i, SafeShrinks DEF Claim
  <2>2. CASE Claimable(g)
    <3> SUFFICES ASSUME torn' = "no" PROVE Flight' /\ Exclusive'
      BY DEF Safe
    <3>1. Flight /\ Exclusive
      BY <1>3, <1>i DEF Safe, Claim
    <3>2. \A t \in Sessions : g \notin proc[t].flying
      BY <2>2, <3>1, <1>m DEF Claimable, Live, Flight
    <3>3. /\ \A h \in Signals : h # g => row'[h] = row[h] /\ age'[h] = age[h]
          /\ row'[g].state = "open" /\ row'[g].left = Want
          /\ g \notin stale'[s] /\ stale'[s] \subseteq stale[s]
          /\ \A t \in Sessions : t # s => stale'[t] = stale[t] \cup {g}
      BY <1>3, <2>2, <1>i DEF Claim, TypeOK
    <3>4. age'[g] <= proc[s].clock + Grain - 1
      BY <1>3, <2>2, <1>i, <1>t, <1>m DEF Claim, TypeOK
    <3>5. /\ proc'[s].flying \subseteq proc[s].flying \cup {g}
          /\ Held(s)' \subseteq Held(s) \cup {g} /\ proc'[s].clock = proc[s].clock
          /\ \A t \in Sessions : t # s => proc'[t] = proc[t] /\ Held(t)' = Held(t)
      BY <1>3, <2>2, <1>t DEF Claim, Held, Locals
    <3>6. Flight'
      BY <3>1, <3>2, <3>3, <3>4, <3>5, <1>t DEF Flight
    <3>7. Exclusive'
      <4> SUFFICES ASSUME NEW t \in Sessions, NEW u \in Sessions, NEW h \in Held(t)',
                          h \notin stale'[t], t # u
                   PROVE  h \notin proc'[u].flying
        BY DEF Exclusive
      <4>1. CASE h = g
        <5>1. t = s
          BY <4>1, <3>3
        <5> QED
          BY <4>1, <5>1, <3>2, <3>5
      <4>2. CASE h # g
        <5>1. h \in Held(t)
          BY <4>2, <3>5
        <5>2. h \notin stale[t]
          BY <4>2, <3>3, <1>3, <2>2, <1>i DEF Claim, TypeOK
        <5>3. h \notin proc[u].flying
          BY <5>1, <5>2, <3>1 DEF Exclusive
        <5> QED
          BY <5>3, <4>2, <3>5
      <4> QED
        BY <4>1, <4>2
    <3> QED
      BY <3>6, <3>7
  <2> QED
    BY <2>1, <2>2
<1>4. ASSUME NEW s \in Sessions, NEW g \in Signals, ClaimRaises(s, g) PROVE Safe'
  <2>1. \A t \in Sessions :
          /\ proc'[t].flying \subseteq proc[t].flying
          /\ Held(t)' \subseteq Held(t)
          /\ proc'[t].flying = {} \/ proc'[t].clock = proc[t].clock
    BY <1>4, <1>i, <1>t DEF ClaimRaises, Phases, Held, Locals
  <2> QED
    BY <1>4, <2>1, <1>i, SafeShrinks DEF ClaimRaises
<1>5. ASSUME NEW s \in Sessions, NEW g \in Signals, Emit(s, g) PROVE Safe'
  <2>1. \A t \in Sessions :
          /\ proc'[t].flying \subseteq proc[t].flying
          /\ Held(t)' \subseteq Held(t)
          /\ proc'[t].flying = {} \/ proc'[t].clock = proc[t].clock
    BY <1>5, <1>i, <1>t DEF Emit, Phases, Held, Locals
  <2> QED
    BY <1>5, <2>1, <1>i, SafeShrinks DEF Emit
<1>6. ASSUME NEW s \in Sessions, Settle(s) PROVE Safe'
  <2>1. \A t \in Sessions :
          /\ proc'[t].flying \subseteq proc[t].flying
          /\ Held(t)' \subseteq Held(t)
          /\ proc'[t].flying = {} \/ proc'[t].clock = proc[t].clock
    BY <1>6, <1>i, <1>t DEF Settle, Phases, Held, Locals
  <2> QED
    BY <1>6, <2>1, <1>i, SafeShrinks DEF Settle
<1>7. ASSUME NEW s \in Sessions, Free(s) PROVE Safe'
  <2>1. \A t \in Sessions :
          /\ proc'[t].flying \subseteq proc[t].flying
          /\ Held(t)' \subseteq Held(t)
          /\ proc'[t].flying = {} \/ proc'[t].clock = proc[t].clock
    BY <1>7, <1>i, <1>t DEF Free, Phases, Held, Locals
  <2> QED
    BY <1>7, <2>1, <1>i, SafeShrinks DEF Free
<1>8. ASSUME NEW s \in Sessions, Freed(s) PROVE Safe'
  <2> DEFINE g == proc[s].item
             new == Released(proc[s].copy, proc[s].qty, "filled")
  <2>1. Save(s, g, new)
    BY <1>8 DEF Freed
  <2>2. g \in Held(s) /\ g \notin proc[s].flying
    BY <1>8, <1>i DEF Freed, Phases, Held
  <2>3. \A t \in Sessions :
          /\ proc'[t].flying \subseteq proc[t].flying
          /\ Held(t)' \subseteq Held(t)
          /\ proc'[t].clock = proc[t].clock
    BY <1>8, <1>t DEF Freed, Held, Locals
  <2>4. g \in Signals /\ stale' = stale
    BY <1>8, <1>t DEF Freed
  <2> HIDE DEF g, new
  <2> QED
    BY <2>1, <2>2, <2>3, <2>4, <1>i, SafeSave
<1>9. ASSUME NEW s \in Sessions, FreeRaises(s) PROVE Safe'
  <2>1. \A t \in Sessions :
          /\ proc'[t].flying \subseteq proc[t].flying
          /\ Held(t)' \subseteq Held(t)
          /\ proc'[t].flying = {} \/ proc'[t].clock = proc[t].clock
    BY <1>9, <1>i, <1>t DEF FreeRaises, Phases, Held, Locals
  <2> QED
    BY <1>9, <2>1, <1>i, SafeShrinks DEF FreeRaises
<1>10. ASSUME NEW s \in Sessions, List(s) PROVE Safe'
  <2> SUFFICES ASSUME torn' = "no" PROVE Flight' /\ Exclusive'
    BY DEF Safe
  <2>1. Flight /\ Exclusive
    BY <1>10, <1>i DEF Safe, List
  <2>2. /\ proc'[s].flying = {} /\ proc[s].flying = {}
        /\ \A t \in Sessions : t # s => proc'[t] = proc[t] /\ Held(t)' = Held(t)
    BY <1>10, <1>i, <1>t DEF List, Closing, Emptied, Phases, Held, Locals
  <2>3. Held(s)' \subseteq proc[s].owned \cup {g \in LiveSet : Aged(s, g)}
    <3>1. CASE LiveSet = {}
      BY <1>10, <3>1, <1>t DEF List, Emptied, Held, Locals
    <3>2. CASE LiveSet # {}
      BY <1>10, <3>2, <1>t DEF List, Held, Locals
    <3> QED
      BY <3>1, <3>2
  <2>4. /\ stale'[s] = stale[s] \ (LiveSet \ proc[s].owned)
        /\ \A t \in Sessions : t # s => stale'[t] = stale[t]
        /\ row' = row /\ age' = age
    BY <1>10, <1>i DEF List, TypeOK
  <2>5. Flight'
    BY <2>1, <2>2, <2>4 DEF Flight
  <2>6. \A t \in Sessions, g \in Signals : g \in proc[t].flying => ~Aged(s, g)
    <3> SUFFICES ASSUME NEW t \in Sessions, NEW g \in Signals, g \in proc[t].flying
                 PROVE  ~Aged(s, g)
      OBVIOUS
    <3>1. age[g] <= proc[t].clock + Grain - 1 /\ age[g] \in Nat
      BY <2>1, <1>i, Numbers DEF Flight, TypeOK
    <3>2. proc[t].clock <= MaxTurn
      BY <1>i DEF Phases
    <3> QED
      BY <3>1, <3>2, <1>m, <1>t DEF Aged
  <2>7. Exclusive'
    <3> SUFFICES ASSUME NEW t \in Sessions, NEW u \in Sessions, NEW h \in Held(t)',
                        h \notin stale'[t], t # u
                 PROVE  h \notin proc'[u].flying
      BY DEF Exclusive
    <3>1. CASE t = s
      <4>1. proc'[u].flying = proc[u].flying
        BY <3>1, <2>2
      <4>2. CASE h \in proc[s].owned
        <5>1. h \in Held(s) /\ h \notin stale[s]
          BY <3>1, <4>2, <2>4 DEF Held
        <5> QED
          BY <3>1, <4>1, <5>1, <2>1 DEF Exclusive
      <4>3. CASE h \notin proc[s].owned
        <5>1. h \in Signals /\ Aged(s, h)
          BY <3>1, <4>3, <2>3 DEF LiveSet
        <5> QED
          BY <5>1, <4>1, <2>6
      <4> QED
        BY <4>2, <4>3
    <3>2. CASE t # s
      <4>1. h \in Held(t) /\ h \notin stale[t]
        BY <3>2, <2>2, <2>4
      <4>2. h \notin proc[u].flying
        BY <4>1, <2>1 DEF Exclusive
      <4> QED
        BY <4>2, <2>2
    <3> QED
      BY <3>1, <3>2
  <2> QED
    BY <2>5, <2>7
<1>11. ASSUME NEW s \in Sessions, ListRaises(s) PROVE Safe'
  <2>1. \A t \in Sessions :
          /\ proc'[t].flying \subseteq proc[t].flying
          /\ Held(t)' \subseteq Held(t)
          /\ proc'[t].flying = {} \/ proc'[t].clock = proc[t].clock
    BY <1>11, <1>i, <1>t DEF ListRaises, Phases, Held, Locals, Closing, Emptied
  <2> QED
    BY <1>11, <2>1, <1>i, SafeShrinks DEF ListRaises
<1>12. ASSUME NEW s \in Sessions, Read(s) PROVE Safe'
  <2>1. PICK credit \in [Signals -> 0..Want], todo \in SUBSET Signals,
             keep \in SUBSET Signals, sure \in {"yes", "no"} :
          /\ todo \subseteq proc[s].owned \cup proc[s].old
          /\ proc' = [proc EXCEPT ![s].pc = "judge", ![s].credit = credit, ![s].todo = todo,
                                  ![s].keep = keep, ![s].old = {}, ![s].sure = sure]
    BY <1>12, <1>i, ReadMoves
  <2>2. proc[s].pc = "read" /\ row' = row /\ age' = age /\ stale' = stale /\ torn' = torn
    BY <1>12 DEF Read
  <2>3. \A t \in Sessions :
          /\ proc'[t].flying \subseteq proc[t].flying
          /\ Held(t)' \subseteq Held(t)
          /\ proc'[t].clock = proc[t].clock
    BY <2>1, <2>2, <1>t DEF Held, Locals
  <2> QED
    BY <2>2, <2>3, <1>i, SafeShrinks
<1>13. ASSUME NEW s \in Sessions, NEW g \in Signals, Judge(s, g) PROVE Safe'
  <2>1. \A t \in Sessions :
          /\ proc'[t].flying \subseteq proc[t].flying
          /\ Held(t)' \subseteq Held(t)
          /\ proc'[t].flying = {} \/ proc'[t].clock = proc[t].clock
    BY <1>13, <1>i, <1>t DEF Judge, Phases, Held, Locals
  <2> QED
    BY <1>13, <2>1, <1>i, SafeShrinks DEF Judge
<1>14. ASSUME NEW s \in Sessions, NEW g \in Signals, JudgeRaises(s, g) PROVE Safe'
  <2>1. \A t \in Sessions :
          /\ proc'[t].flying \subseteq proc[t].flying
          /\ Held(t)' \subseteq Held(t)
          /\ proc'[t].flying = {} \/ proc'[t].clock = proc[t].clock
    BY <1>14, <1>i, <1>t DEF JudgeRaises, Phases, Held, Locals
  <2> QED
    BY <1>14, <2>1, <1>i, SafeShrinks DEF JudgeRaises
<1>15. ASSUME NEW s \in Sessions, Write(s) PROVE Safe'
  <2> DEFINE g == proc[s].item
             q == proc[s]
             new == IF q.credit[g] > 0 THEN Released(q.copy, q.credit[g], "filled")
                                       ELSE Released(q.copy, q.copy.left, "closed")
  <2>1. Save(s, g, new)
    BY <1>15 DEF Write
  <2>2. g \in Held(s) /\ g \notin proc[s].flying
    BY <1>15, <1>i DEF Write, Phases, Held
  <2>3. \A t \in Sessions :
          /\ proc'[t].flying \subseteq proc[t].flying
          /\ Held(t)' \subseteq Held(t)
          /\ proc'[t].clock = proc[t].clock
    BY <1>15, <1>t DEF Write, Held, Locals
  <2>4. g \in Signals /\ stale' = stale
    BY <1>15, <1>t DEF Write
  <2> HIDE DEF g, new, q
  <2> QED
    BY <2>1, <2>2, <2>3, <2>4, <1>i, SafeSave
<1>16. ASSUME NEW s \in Sessions, Settled(s) PROVE Safe'
  <2>1. /\ proc'[s].flying = {} /\ proc'[s].pc = "asleep"
        /\ proc'[s].owned = proc[s].owned \cap proc[s].keep
        /\ proc[s].flying = {}
        /\ \A t \in Sessions : t # s => proc'[t] = proc[t]
    BY <1>16, <1>i, <1>t DEF Settled, Phases, Locals
  <2>2. \A t \in Sessions :
          /\ proc'[t].flying \subseteq proc[t].flying
          /\ Held(t)' \subseteq Held(t)
          /\ proc'[t].flying = {} \/ proc'[t].clock = proc[t].clock
    BY <2>1 DEF Held
  <2> QED
    BY <1>16, <2>2, <1>i, SafeShrinks DEF Settled
<1>17. CASE Tick
  <2> SUFFICES ASSUME torn' = "no" PROVE Flight' /\ Exclusive'
    BY DEF Safe
  <2>1. Flight /\ Exclusive
    BY <1>17, <1>i DEF Safe, Tick
  <2>2. \A t \in Sessions : proc'[t].flying = proc[t].flying /\ Held(t)' = Held(t)
    BY <1>17, <1>t DEF Tick, Held, Locals
  <2>3. row' = row /\ stale' = stale
    BY <1>17 DEF Tick
  <2>4. \A t \in Sessions : proc[t].flying # {} => proc'[t].clock = proc[t].clock + 1
    BY <1>17, <1>i, <1>t DEF Tick, Busy, Phases, Locals
  <2>5. \A g \in Signals : age'[g] <= age[g] + 1
    BY <1>17, <1>i, Numbers DEF Tick, TypeOK, Least
  <2>6. Flight'
    <3> SUFFICES ASSUME NEW t \in Sessions, NEW g \in proc'[t].flying
                 PROVE  age'[g] <= proc'[t].clock + Grain - 1
      BY <2>1, <2>2, <2>3 DEF Flight
    <3>1. g \in proc[t].flying /\ g \in Signals
      BY <2>2, <1>t
    <3>2. age[g] <= proc[t].clock + Grain - 1
      BY <3>1, <2>1 DEF Flight
    <3>3. age[g] \in Nat /\ age'[g] \in Nat
      BY <1>17, <3>1, <1>i, Numbers DEF TypeOK, Tick, Least
    <3> QED
      BY <3>1, <3>2, <3>3, <2>4, <2>5, <1>t, <1>m
  <2>7. Exclusive'
    BY <2>1, <2>2, <2>3 DEF Exclusive
  <2> QED
    BY <2>6, <2>7
<1>18. ASSUME NEW s \in Sessions, Crash(s) PROVE Safe'
  <2>1. \A t \in Sessions :
          /\ proc'[t].flying \subseteq proc[t].flying
          /\ Held(t)' \subseteq Held(t)
          /\ proc'[t].flying = {} \/ proc'[t].clock = proc[t].clock
    BY <1>18, <1>i, <1>t DEF Crash, Phases, Held, Locals, Fresh
  <2> QED
    BY <1>18, <2>1, <1>i, SafeShrinks DEF Crash
<1> QED
  BY <1>1, <1>2, <1>3, <1>4, <1>5, <1>6, <1>7, <1>8, <1>9, <1>10, <1>11,
     <1>12, <1>13, <1>14, <1>15, <1>16, <1>17, <1>18 DEF Next, Work, Raise

LEMMA Inductive == Spec => []Inv
<1>1. Init => Inv
  BY TypeInit, SumsInit, PhasesInit, SafeInit DEF Inv
<1>2. Inv /\ [Next]_vars => Inv'
  BY TypeStep, SumsStep, PhasesStep, SafeStep DEF Inv
<1> QED
  BY <1>1, <1>2, PTL DEF Spec

\* No session takes away the row of an order in flight, unless it writes over a row that
\* was released and claimed again behind it.
THEOREM FlightReserved == Spec => []FlightIsReserved
<1>1. Inv => FlightIsReserved
  BY DEF Inv, Safe, Flight, FlightIsReserved
<1> QED
  BY <1>1, Inductive, PTL

\* Of the sessions that plan the same signal one at a time has an order of it.
THEOREM OneOrder == Spec => []OneOrderPerSignal
<1>1. Inv => OneOrderPerSignal
  <2> SUFFICES ASSUME Inv, torn = "no", NEW s \in Sessions, NEW t \in Sessions, s # t,
                      NEW g \in proc[s].flying
               PROVE  g \notin proc[t].flying
    BY DEF OneOrderPerSignal
  <2>1. Flight /\ Exclusive
    BY DEF Inv, Safe
  <2>2. g \notin stale[s] /\ g \in Held(s)
    BY <2>1 DEF Flight, Inv, Phases, Held
  <2> QED
    BY <2>1, <2>2 DEF Exclusive
<1> QED
  BY <1>1, Inductive, PTL
=============================================================================
