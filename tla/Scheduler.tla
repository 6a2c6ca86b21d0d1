----------------------------- MODULE Scheduler ------------------------------
(***************************************************************************)
(* Scheduler.run (src/scr/core/scheduler.py): the main thread repeatedly   *)
(* scans a snapshot of the pending tasks, submits the ready ones to a      *)
(* thread pool, waits for the first futures and reaps them; the pool       *)
(* threads run the execute callable, which may assign Task.state itself    *)
(* (CommandRunner.run and TerminalManager.execute do).  The dependency     *)
(* graph is chosen in Init, so one run covers every graph in Graphs.       *)
(***************************************************************************)
EXTENDS Naturals, FiniteSets

CONSTANTS Task, Graphs,
          MaxWorkers,
          MaxRetries,   \* Task.max_retries of every task
          Returns,      \* how execute may end: a TaskState, "object", "raise"
          Writes        \* Writes[g]: what execute may assign to Task.state while
                        \* the tasks of graph g run

Final == {"SUCCESS", "FAILED", "TIMEOUT", "SKIPPED", "CANCELLED"}
TaskState == {"QUEUED", "RUNNING"} \cup Final
Unmet == {"FAILED", "TIMEOUT", "SKIPPED", "CANCELLED"}
Retriable == {"FAILED", "TIMEOUT"}

ASSUME SchedulerAssumption ==
  /\ IsFiniteSet(Task)
  /\ Graphs \subseteq [Task -> SUBSET Task]
  /\ MaxWorkers \in Nat \ {0}
  /\ MaxRetries \in [Task -> Nat]
  /\ Returns \subseteq Final \cup {"object", "raise"}
  /\ Writes \in [Graphs -> SUBSET (Final \cup {"RUNNING"})]

VARIABLES dep,       \* dep[t]: Task.dependencies
          state,     \* state[t]: Task.state, shared by all threads
          pc,        \* where the main thread is
          todo,      \* what is left of tuple(pending)
          done,      \* the futures wait() returned and not yet reaped
          pending, futures, retries,
          work,      \* work[t]: t's latest work item in the pool
          result,    \* result[t]: how that work item ended
          lost,      \* submitted, but never stored in futures
          ctrlC,     \* how many Ctrl-C the main thread has met
          started,   \* task.started events published
          ended      \* task.finished and task.skipped events published

bookVars == <<pending, futures, lost, retries, started, ended>>
mainVars == <<pc, todo, done, ctrlC, bookVars>>
poolVars == <<work, result>>
vars == <<dep, state, mainVars, poolVars>>

Work == {"none", "queued", "running", "returned", "cancelled"}
Stopped == {"returned", "blocked", "interrupted"}
PC == {"loop", "scan", "reap", "cancelling", "draining"} \cup Stopped

TypeOK ==
  /\ dep \in [Task -> SUBSET Task]
  /\ state \in [Task -> TaskState]
  /\ pc \in PC
  /\ todo \subseteq Task /\ done \subseteq Task
  /\ pending \subseteq Task /\ futures \subseteq Task /\ lost \subseteq Task
  /\ ctrlC \in 0..3
  /\ retries \in [Task -> Nat] /\ started \in [Task -> Nat] /\ ended \in [Task -> Nat]
  /\ work \in [Task -> Work]
  /\ result \in [Task -> Returns \cup {"none"}]

Init ==
  /\ dep \in Graphs
  /\ state = [t \in Task |-> "QUEUED"]
  /\ pc = "loop" /\ todo = {} /\ done = {}
  /\ pending = Task /\ futures = {} /\ lost = {} /\ ctrlC = 0
  /\ retries = [t \in Task |-> 0]
  /\ work = [t \in Task |-> "none"] /\ result = [t \in Task |-> "none"]
  /\ started = [t \in Task |-> 0] /\ ended = [t \in Task |-> 0]

-----------------------------------------------------------------------------
(* The main thread. *)

EnterScan ==
  /\ pc = "loop" /\ pending \cup futures # {}
  /\ pc' = "scan" /\ todo' = pending
  /\ UNCHANGED <<dep, state, done, ctrlC, bookVars, poolVars>>

Leave ==
  /\ pc = "loop" /\ pending \cup futures = {}
  /\ pc' = "returned"
  /\ UNCHANGED <<dep, state, todo, done, ctrlC, bookVars, poolVars>>

(* Definitions named Fault... are plausible bugs that no action uses: each *)
(* property of the runs is broken by one of them put in the place of the   *)
(* definition that follows it.                                             *)
FaultDoomedNotCancelled(t) == \E d \in dep[t] : state[d] \in Unmet \ {"CANCELLED"}
FaultDoomedEarly(t) == \E d \in dep[t] : state[d] # "SUCCESS"
Doomed(t) == \E d \in dep[t] : state[d] \in Unmet
Ready(t) == (\A d \in dep[t] : state[d] = "SUCCESS") /\ Cardinality(futures) < MaxWorkers

Visit(t) == pc = "scan" /\ t \in todo /\ todo' = todo \ {t}

Skip(t) ==
  /\ Visit(t) /\ Doomed(t)
  /\ state' = [state EXCEPT ![t] = "SKIPPED"]
  /\ pending' = pending \ {t}
  /\ ended' = [ended EXCEPT ![t] = @ + 1]
  /\ UNCHANGED <<dep, pc, done, ctrlC, futures, lost, retries, started, poolVars>>

(* The thread pool takes t: what a submission does before futures[...] = t. *)
Hand(t) ==
  /\ Visit(t) /\ ~Doomed(t) /\ Ready(t)
  /\ state' = [state EXCEPT ![t] = "RUNNING"]
  /\ started' = [started EXCEPT ![t] = @ + 1]
  /\ pending' = pending \ {t}
  /\ work' = [work EXCEPT ![t] = "queued"]
  /\ result' = [result EXCEPT ![t] = "none"]

Submit(t) ==
  /\ Hand(t) /\ futures' = futures \cup {t}
  /\ UNCHANGED <<dep, pc, done, ctrlC, lost, retries, ended>>

PassOver(t) ==
  /\ Visit(t) /\ ~Doomed(t) /\ ~Ready(t)
  /\ UNCHANGED <<dep, state, pc, done, ctrlC, bookVars, poolVars>>

FaultNothingRuns ==
  /\ pc = "scan" /\ todo = {} /\ futures = {} /\ pc' = "loop"
  /\ UNCHANGED <<dep, state, todo, done, ctrlC, bookVars, poolVars>>

(* No future is left after a scan: an error if anything is still pending.  *)
NothingRuns ==
  /\ pc = "scan" /\ todo = {} /\ futures = {}
  /\ pc' = IF pending # {} THEN "blocked" ELSE "loop"
  /\ UNCHANGED <<dep, state, todo, done, ctrlC, bookVars, poolVars>>

(* wait(..., FIRST_COMPLETED) returns every future that is done by then.   *)
Wait ==
  /\ pc = "scan" /\ todo = {}
  /\ done' = {t \in futures : work[t] = "returned"} /\ done' # {}
  /\ pc' = "reap"
  /\ UNCHANGED <<dep, state, todo, ctrlC, bookVars, poolVars>>

Outcome(t) ==
  IF result[t] = "raise" THEN "FAILED"
  ELSE IF result[t] \in TaskState THEN result[t]
  ELSE IF state[t] = "RUNNING" THEN "SUCCESS" ELSE state[t]

FaultAgainOnceMore(t) == Outcome(t) \in Retriable /\ retries[t] <= MaxRetries[t]
Again(t) == Outcome(t) \in Retriable /\ retries[t] < MaxRetries[t]

Pop(t) ==
  /\ pc = "reap" /\ t \in done
  /\ done' = done \ {t} /\ futures' = futures \ {t}
  /\ pc' = IF done' = {} THEN "loop" ELSE "reap"

Retry(t) ==
  /\ Pop(t) /\ Again(t)
  /\ retries' = [retries EXCEPT ![t] = @ + 1]
  /\ state' = [state EXCEPT ![t] = "QUEUED"]
  /\ pending' = pending \cup {t}
  /\ UNCHANGED <<dep, todo, ctrlC, lost, started, ended, poolVars>>

Finish(t) ==
  /\ Pop(t) /\ ~Again(t)
  /\ state' = [state EXCEPT ![t] = Outcome(t)]
  /\ ended' = [ended EXCEPT ![t] = @ + 1]
  /\ UNCHANGED <<dep, todo, ctrlC, pending, lost, retries, started, poolVars>>

(* Ctrl-C reaches the main thread anywhere inside the try block.           *)
Interrupt ==
  /\ pc \in {"loop", "scan", "reap"}
  /\ pc' = "cancelling" /\ ctrlC' = ctrlC + 1
  /\ UNCHANGED <<dep, state, todo, done, bookVars, poolVars>>

(* Ctrl-C inside pool.submit, after the item was queued: the future is     *)
(* never stored, so nobody will cancel it.                                 *)
InterruptSubmit(t) ==
  /\ Hand(t) /\ lost' = {t}
  /\ pc' = "cancelling" /\ ctrlC' = ctrlC + 1
  /\ UNCHANGED <<dep, done, futures, retries, ended>>

Queued(S) == {t \in S : work[t] = "queued"}
CancelSome(S) == work' = [t \in Task |-> IF t \in S THEN "cancelled" ELSE work[t]]

FaultCancelFutures ==
  /\ pc = "cancelling" /\ pc' = "draining"
  /\ UNCHANGED <<dep, state, todo, done, ctrlC, bookVars, poolVars>>

CancelFutures ==
  /\ pc = "cancelling" /\ CancelSome(Queued(futures))
  /\ pc' = "draining"
  /\ UNCHANGED <<dep, state, todo, done, ctrlC, bookVars, result>>

(* A second Ctrl-C leaves the handler before it has cancelled them all.    *)
InterruptHandler ==
  /\ pc = "cancelling" /\ \E S \in SUBSET Queued(futures) : CancelSome(S)
  /\ pc' = "draining" /\ ctrlC' = ctrlC + 1
  /\ UNCHANGED <<dep, state, todo, done, bookVars, result>>

(* Leaving the with block joins the threads of the pool.                   *)
Busy == {t \in Task : work[t] \in {"queued", "running"}}

Drain ==
  /\ pc = "draining" /\ Busy = {}
  /\ pc' = "interrupted"
  /\ UNCHANGED <<dep, state, todo, done, ctrlC, bookVars, poolVars>>

(* A further Ctrl-C ends the join: run() raises and the threads work on.   *)
(* (The join of a run that returns or is blocked finds an idle pool.)      *)
InterruptJoin ==
  /\ pc = "draining"
  /\ pc' = "interrupted" /\ ctrlC' = ctrlC + 1
  /\ UNCHANGED <<dep, state, todo, done, bookVars, poolVars>>

-----------------------------------------------------------------------------
(* The threads of the pool. *)

Begin(t) ==
  /\ work[t] = "queued"
  /\ Cardinality({u \in Task : work[u] = "running"}) < MaxWorkers
  /\ work' = [work EXCEPT ![t] = "running"]
  /\ UNCHANGED <<dep, state, mainVars, result>>

Assign(t) ==
  /\ work[t] = "running"
  /\ \E s \in Writes[dep] : state' = [state EXCEPT ![t] = s]
  /\ UNCHANGED <<dep, mainVars, poolVars>>

Return(t) ==
  /\ work[t] = "running"
  /\ work' = [work EXCEPT ![t] = "returned"]
  /\ \E r \in Returns : result' = [result EXCEPT ![t] = r]
  /\ UNCHANGED <<dep, state, mainVars>>

-----------------------------------------------------------------------------
Main == \/ EnterScan \/ Leave \/ NothingRuns \/ Wait \/ CancelFutures \/ Drain
        \/ \E t \in Task : Skip(t) \/ Submit(t) \/ PassOver(t) \/ Retry(t) \/ Finish(t)

CtrlC == Interrupt \/ InterruptHandler \/ InterruptJoin \/ \E t \in Task : InterruptSubmit(t)

Pool(t) == Begin(t) \/ Assign(t) \/ Return(t)

(* run() has returned or raised and the pool is idle: nothing is left to do. *)
Over == pc \in Stopped /\ Busy = {} /\ UNCHANGED vars

Next == Main \/ CtrlC \/ (\E t \in Task : Pool(t)) \/ Over

Spec == Init /\ [][Next]_vars

(* The main thread is scheduled, a queued work item gets a thread, and     *)
(* execute ends: every command the program runs has a timeout.             *)
FairSpec == Spec /\ WF_vars(Main) /\ \A t \in Task : WF_vars(Begin(t)) /\ WF_vars(Return(t))

-----------------------------------------------------------------------------
(* When run() returns, every task has ended exactly once, in a final state, *)
(* after one attempt more than it was retried (or none, if it was skipped), *)
(* and none was left FAILED or TIMEOUT with a retry still allowed unless it *)
(* was never started.                                                       *)
CleanReturn == pc = "returned" => \A t \in Task :
  /\ state[t] \in Final /\ ended[t] = 1
  /\ started[t] \in {0, retries[t] + 1} /\ started[t] <= MaxRetries[t] + 1
  /\ started[t] = 0 => state[t] = "SKIPPED"
  /\ state[t] \in Retriable => retries[t] = MaxRetries[t]

(* Work items in flight never exceed max_workers, cancelled run or not.     *)
PoolBound == Cardinality(Busy) <= MaxWorkers

(* A task that was ever started rests on dependencies whose callable has    *)
(* returned, that were reported finished once and that stay SUCCESS.        *)
DependencyOrder == \A t \in Task : started[t] > 0 => \A d \in dep[t] :
  work[d] = "returned" /\ ended[d] = 1 /\ state[d] = "SUCCESS"

(* One Ctrl-C is enough: after it no queued item is left to begin, save the *)
(* one it caught inside pool.submit, and run() ends with an idle pool.  A   *)
(* task that outlives run() was abandoned by a second Ctrl-C, and was never *)
(* reported finished or skipped.                                            *)
IdleUnlessForced ==
  /\ pc \in {"draining"} \cup Stopped /\ ctrlC < 2 => Queued(Task) \subseteq lost
  /\ pc \in Stopped /\ Busy # {} => ctrlC >= 2
  /\ pc \in Stopped => \A t \in Busy : ended[t] = 0

(* S cannot make progress on its own: every member waits for a member.      *)
Knot(S) == S # {} /\ \A t \in S : dep[t] \cap S # {}

(* "dependency cycle or blocked graph" is raised only when waiting tasks    *)
(* wait for each other, or when one of them was passed over before the same *)
(* scan skipped what it depends on.                                         *)
BlockedIsStuck == pc = "blocked" =>
  \/ \E S \in SUBSET pending : Knot(S)
  \/ \E t \in pending : \E d \in dep[t] : d \notin pending /\ state[d] = "SKIPPED"

(* run() ends: by a return, the SchedulerError or the KeyboardInterrupt.    *)
Termination == <>(pc \in Stopped)

(* The abstract scheduler this one implements when execute leaves           *)
(* Task.state alone: a task in futures is running whatever its work item    *)
(* does, and a verdict is out once the task is in neither set.              *)
Phase(t) == IF t \in futures \cup lost THEN "running" ELSE IF t \in pending THEN "waiting"
            ELSE IF state[t] = "SUCCESS" THEN "ok" ELSE "bad"

JG == INSTANCE JobGraph WITH Job <- Task, Slots <- MaxWorkers, Budget <- MaxRetries,
        graph <- dep, status <- [t \in Task |-> Phase(t)], tries <- retries

(* Scheduler.run is a dependency-aware scheduler with bounded retry.        *)
ImplementsJobGraph == JG!JobSpec
=============================================================================
