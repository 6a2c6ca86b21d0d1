----------------------------- MODULE MCScheduler ----------------------------
(* Small instances of Scheduler for TLC. *)
EXTENDS Scheduler

CONSTANTS a, b, c

AllGraphs == [Task -> SUBSET Task]

(* execute writes its own Task.state where orchestrator.run_services uses   *)
(* the scheduler: on tasks without dependencies.                            *)
WritesAlone == [g \in AllGraphs |-> IF \A t \in Task : g[t] = {} THEN {"SUCCESS", "FAILED"}
                                   ELSE {}]

RetryA == [t \in Task |-> IF t = a THEN 1 ELSE 0]
=============================================================================
