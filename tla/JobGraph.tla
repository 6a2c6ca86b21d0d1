------------------------------ MODULE JobGraph ------------------------------
(***************************************************************************)
(* What a dependency-aware scheduler promises, with no threads, futures,   *)
(* scan order or events: a job runs only once all the jobs it depends on   *)
(* have succeeded, is given up when one of them went bad, may be tried     *)
(* again a bounded number of times, and at most Slots jobs run at a time.  *)
(* Scheduler.tla is shown to implement this module.                        *)
(***************************************************************************)
EXTENDS Naturals, FiniteSets

CONSTANTS Job,      \* the jobs submitted together
          Slots,    \* how many may run at the same time
          Budget    \* Budget[j]: how many times j may be tried again

VARIABLES graph,    \* graph[j]: the jobs that j depends on
          status,   \* where each job stands
          tries     \* tries[j]: how many times j was put back

jvars == <<graph, status, tries>>

Status == {"waiting", "running", "ok", "bad"}

JobTypeOK == /\ graph \in [Job -> SUBSET Job]
             /\ status \in [Job -> Status]
             /\ tries \in [Job -> Nat]

Running == {j \in Job : status[j] = "running"}

JobInit == /\ graph \in [Job -> SUBSET Job]
           /\ status = [j \in Job |-> "waiting"]
           /\ tries = [j \in Job |-> 0]

Move(j, s) == status' = [status EXCEPT ![j] = s] /\ UNCHANGED graph

Launch(j) == /\ status[j] = "waiting"
             /\ \A d \in graph[j] : status[d] = "ok"
             /\ Cardinality(Running) < Slots
             /\ Move(j, "running") /\ UNCHANGED tries

GiveUp(j) == /\ status[j] = "waiting"
             /\ \E d \in graph[j] : status[d] = "bad"
             /\ Move(j, "bad") /\ UNCHANGED tries

Conclude(j) == /\ status[j] = "running"
               /\ \E v \in {"ok", "bad"} : Move(j, v)
               /\ UNCHANGED tries

TryAgain(j) == /\ status[j] = "running"
               /\ tries[j] < Budget[j]
               /\ Move(j, "waiting")
               /\ tries' = [tries EXCEPT ![j] = @ + 1]

JobNext == \E j \in Job : Launch(j) \/ GiveUp(j) \/ Conclude(j) \/ TryAgain(j)

JobSpec == JobInit /\ [][JobNext]_jvars

-----------------------------------------------------------------------------
(* Dependencies define the order: whatever has started rests on successes. *)
Ordered == \A j \in Job : status[j] \in {"running", "ok"} =>
             \A d \in graph[j] : status[d] = "ok"

(* Every member of S waits for a member of S: a cycle, or jobs behind one. *)
Entangled(S) == \A j \in S : graph[j] \cap S # {}

(* A job on a dependency cycle never starts, whatever fails around it. *)
KnotsNeverStart == \A S \in SUBSET Job : Entangled(S) =>
                     \A j \in S : status[j] \in {"waiting", "bad"}
=============================================================================
