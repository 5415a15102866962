----------------------------- MODULE LifecycleLog -----------------------------
(***************************************************************************)
(* The event log of a position's lifecycle: the state machine of           *)
(* bolsa_domain.lifecycle, the validation of an event against the log, and *)
(* what AppendLifecycleEvent adds to it.  A payload is reduced to its kind *)
(* and its time; whatever else the validation may refuse (identity,        *)
(* quantity, a missing time) is one bit, Malformed.                        *)
(***************************************************************************)
EXTENDS Naturals, Sequences

CONSTANTS
  Positions,   \* positions, each with a log of its own
  Events,      \* events, named by their event_id
  PositionOf,  \* the position of an event
  KindOf,      \* its kind
  At,          \* its time, in milliseconds
  Malformed    \* the events no log accepts

Stages == {"candidate", "open", "t1_ready", "t1_executed", "trailing",
           "exit_required", "t2_ready", "t2_executed", "closed"}

Kinds == {"POSITION_OPENED", "T1_TRIGGERED", "T1_EXECUTED", "TRAIL_APPLIED",
          "T2_TRIGGERED", "T2_EXECUTED", "EXIT_REQUIRED", "POSITION_CLOSED"}

ASSUME EventsAssumption ==
  /\ PositionOf \in [Events -> Positions]
  /\ KindOf \in [Events -> Kinds]
  /\ At \in [Events -> Nat]
  /\ Malformed \subseteq Events

(***************************************************************************)
(* The state machine.                                                      *)
(***************************************************************************)
Closing == {"open", "t1_ready", "t1_executed", "trailing", "exit_required",
            "t2_ready", "t2_executed"}

TRANSITIONS ==
  {<<"candidate", "POSITION_OPENED", "open">>,
   <<"open", "T1_TRIGGERED", "t1_ready">>,
   <<"t2_ready", "T2_EXECUTED", "t2_executed">>}
    \cup {<<s, "T1_EXECUTED", "t1_executed">> : s \in {"open", "t1_ready"}}
    \cup {<<s, "TRAIL_APPLIED", "trailing">> :
            s \in {"t1_executed", "trailing", "t2_executed"}}
    \cup {<<s, "T2_TRIGGERED", "t2_ready">> : s \in {"t1_executed", "trailing"}}
    \cup {<<s, "EXIT_REQUIRED", "exit_required">> : s \in {"trailing", "t2_executed"}}
    \cup {<<s, "POSITION_CLOSED", "closed">> : s \in Closing}

\* validate_transition_result; from an illegal log the reduction raises
StageAfter ==
  [s \in Stages \cup {"illegal"} |-> [kind \in Kinds |->
     IF \E t \in Stages : <<s, kind, t>> \in TRANSITIONS
       THEN CHOOSE t \in Stages : <<s, kind, t>> \in TRANSITIONS
       ELSE "illegal"]]

\* reduce_lifecycle_events
Stage(l) ==
  LET stage[i \in 0..Len(l)] ==
        IF i = 0 THEN "candidate" ELSE StageAfter[stage[i - 1]][l[i].kind]
  IN  stage[Len(l)]

(***************************************************************************)
(* Appending to a log.                                                     *)
(***************************************************************************)
Entry(e) == [event |-> e, kind |-> KindOf[e], at |-> At[e]]

\* build_t2_triggered_input: one millisecond before the execution
Trigger(e) == [event |-> e, kind |-> "T2_TRIGGERED",
               at |-> IF At[e] = 0 THEN 0 ELSE At[e] - 1]

Has(l, e) == \E i \in 1..Len(l) : l[i].event = e /\ l[i].kind = KindOf[e]

AfterFirst(l, x, kind) ==
  \A i \in 1..Len(l) :
    l[i].kind = kind /\ (\A j \in 1..i - 1 : l[j].kind # kind) => l[i].at < x.at

\* _validate_time
Timely(l, x) ==
  /\ l # <<>> => IF x.kind = "POSITION_CLOSED" THEN l[Len(l)].at < x.at ELSE l[Len(l)].at <= x.at
  /\ x.kind = "T1_EXECUTED" => AfterFirst(l, x, "T1_TRIGGERED")
  /\ x.kind = "T2_EXECUTED" => AfterFirst(l, x, "T2_TRIGGERED")

\* A change: times are not compared
InAnyOrder(l, x) == StageAfter[Stage(l)][x.kind] # "illegal"

Legal(l, x) == Timely(l, x) /\ StageAfter[Stage(l)][x.kind] # "illegal"

\* needs_atomic_t2_pair
NeedsPair(l, e) ==
  KindOf[e] = "T2_EXECUTED" /\ l # <<>> /\ Stage(l) \in {"t1_executed", "trailing"}

HasTrigger(l, e) == \E i \in 1..Len(l) : l[i].event = e /\ l[i].kind = "T2_TRIGGERED"

\* The pair is looked for before the replay is; it is one execution again when
\* the log has this execution's own trigger
TakesPair(l, e) == NeedsPair(l, e) /\ ~HasTrigger(l, e)

\* What the one savepoint inserts
Entries(l, e) ==
  IF TakesPair(l, e) THEN <<Trigger(e), Entry(e)>> ELSE <<Entry(e)>>

\* A change: a replay is validated like a new event
ReplayValidated(l, e) ==
  /\ e \notin Malformed
  /\ IF TakesPair(l, e)
       THEN Legal(l, Trigger(e)) /\ Legal(Append(l, Trigger(e)), Entry(e))
       ELSE Legal(l, Entry(e))

\* An event that is in the log is accepted again, whatever came after it; but
\* an execution whose trigger was announced by hand must first pass with one of
\* its own
Accepts(l, e) ==
  LET Fits(m) == Has(m, e) \/ (e \notin Malformed /\ Legal(m, Entry(e)))
  IN  IF TakesPair(l, e)
        THEN Legal(l, Trigger(e)) /\ Fits(Append(l, Trigger(e)))
        ELSE Fits(l)

\* The log after AppendLifecycleEvent.execute, under the lock of its aggregate
Appended(l, e) ==
  IF Has(l, e) \/ ~Accepts(l, e) THEN l ELSE l \o Entries(l, e)
=============================================================================
