-------------------------- MODULE MCExecutionEvents --------------------------
(* Instances of ExecutionEvents for TLC. *)
EXTENDS ExecutionEvents

CONSTANTS f1, a1, w1, w2, w3, r1, p1, p2

OneAccount == [f \in Fills |-> a1]

\* The names the code uses: every recovery process passes the default owner
\* "worker", every simulated worker "auto-sim-worker"; a reaper names its process.
ProductionOwner ==
  [p \in Workers \cup Reapers |->
     IF p \in SimWorkers THEN "auto-sim-worker" ELSE IF p \in Workers THEN "worker" ELSE p]
=============================================================================
