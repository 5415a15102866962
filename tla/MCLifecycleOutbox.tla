-------------------------- MODULE MCLifecycleOutbox --------------------------
(***************************************************************************)
(* A position that opens, takes its first target, is trailed by its owner, *)
(* takes its second target and closes, in every order the code can write   *)
(* them, with a second target that may also be announced by hand.  The     *)
(* times are such that some orders are refused and leave dead rows.        *)
(***************************************************************************)
EXTENDS LifecycleOutbox

CONSTANTS pos1, open, t1, trail, t2, close, posted

MCPositions == {pos1}
MCQueued == {open, t1, trail, t2, close}
MCEvents == MCQueued \cup {posted}
MCPositionOf == [e \in MCEvents |-> pos1]
MCKindOf ==
  [e \in MCEvents |->
     CASE e = open -> "POSITION_OPENED"
       [] e = posted -> "T2_TRIGGERED"
       [] e = t1 -> "T1_EXECUTED"
       [] e = trail -> "TRAIL_APPLIED"
       [] e = t2 -> "T2_EXECUTED"
       [] e = close -> "POSITION_CLOSED"]
MCAt ==
  [e \in MCEvents |->
     CASE e = open -> 1
       [] e = t1 -> 3
       [] e = posted -> 4
       [] e = t2 -> 5
       [] e = trail -> 6
       [] e = close -> 8]
MCMalformed == {}
MCSemi == {trail}
=============================================================================
