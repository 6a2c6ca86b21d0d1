-------------------------- MODULE SchedulerProofs ---------------------------
(***************************************************************************)
(* The promises of the abstract scheduler, for every set of jobs, every    *)
(* graph on it, every number of slots and every retry budget; Scheduler.run *)
(* for every number of tasks, graph, pool size and retry bound; and that    *)
(* Scheduler.run implements the abstract scheduler.                        *)
(***************************************************************************)
EXTENDS Scheduler, JobGraph, FiniteSetTheorems, TLAPS

(* Types are preserved by every step of the abstract scheduler. *)
THEOREM JobTypes == JobSpec => []JobTypeOK
<1>1. JobInit => JobTypeOK
  BY DEF JobInit, JobTypeOK, Status
<1>2. JobTypeOK /\ [JobNext]_jvars => JobTypeOK'
  BY DEF JobTypeOK, JobNext, jvars, Launch, GiveUp, Conclude, TryAgain, Move, Status
<1>3. QED
  BY <1>1, <1>2, PTL DEF JobSpec

(* A job runs or has succeeded only on top of dependencies that succeeded: *)
(* ok is never taken back, so the fact is inductive as it stands.          *)
THEOREM JobsOrdered == JobSpec => []Ordered
<1>1. JobInit => Ordered
  BY DEF JobInit, Ordered
<1>2. JobTypeOK /\ Ordered /\ [JobNext]_jvars => Ordered'
  <2> SUFFICES ASSUME JobTypeOK, Ordered, [JobNext]_jvars PROVE Ordered'
    OBVIOUS
  <2>1. CASE UNCHANGED jvars
    BY <2>1 DEF jvars, Ordered
  <2>2. ASSUME NEW j \in Job, Launch(j) PROVE Ordered'
    BY <2>2 DEF JobTypeOK, Ordered, Launch, Move
  <2>3. ASSUME NEW j \in Job, GiveUp(j) PROVE Ordered'
    BY <2>3 DEF JobTypeOK, Ordered, GiveUp, Move
  <2>4. ASSUME NEW j \in Job, Conclude(j) PROVE Ordered'
    BY <2>4 DEF JobTypeOK, Ordered, Conclude, Move
  <2>5. ASSUME NEW j \in Job, TryAgain(j) PROVE Ordered'
    BY <2>5 DEF JobTypeOK, Ordered, TryAgain, Move
  <2>6. QED
    BY <2>1, <2>2, <2>3, <2>4, <2>5 DEF JobNext
<1>3. QED
  BY <1>1, <1>2, JobTypes, PTL DEF JobSpec

(* A set of jobs that wait for one another never starts: the first of them *)
(* to start would need a member of the set to have succeeded before it.    *)
THEOREM KnotsStay == JobSpec => []KnotsNeverStart
<1>1. JobInit => KnotsNeverStart
  BY DEF JobInit, KnotsNeverStart
<1>2. JobTypeOK /\ KnotsNeverStart /\ [JobNext]_jvars => KnotsNeverStart'
  <2> SUFFICES ASSUME JobTypeOK, KnotsNeverStart, [JobNext]_jvars,
                      NEW S \in SUBSET Job, Entangled(S)', NEW k \in S
               PROVE  (status[k] \in {"waiting", "bad"})'
    BY DEF KnotsNeverStart
  <2>1. graph' = graph
    BY DEF JobNext, jvars, Launch, GiveUp, Conclude, TryAgain, Move
  <2>2. Entangled(S)
    BY <2>1 DEF Entangled
  <2>3. \A j \in S : status[j] \in {"waiting", "bad"}
    BY <2>2 DEF KnotsNeverStart
  <2>4. CASE UNCHANGED jvars
    BY <2>3, <2>4 DEF jvars
  <2>5. ASSUME NEW j \in Job, Launch(j) PROVE status'[k] \in {"waiting", "bad"}
    <3>1. PICK d \in graph[j] \cup S : j \in S => d \in graph[j] \cap S
      BY <2>2 DEF Entangled
    <3>2. j \notin S
      BY <2>3, <2>5, <3>1 DEF Launch
    <3>3. QED
      BY <2>3, <2>5, <3>2 DEF Launch, Move, JobTypeOK
  <2>6. ASSUME NEW j \in Job, GiveUp(j) \/ Conclude(j) \/ TryAgain(j)
        PROVE  status'[k] \in {"waiting", "bad"}
    BY <2>3, <2>6 DEF GiveUp, Conclude, TryAgain, Move, JobTypeOK
  <2>7. QED
    BY <2>4, <2>5, <2>6 DEF JobNext
<1>3. QED
  BY <1>1, <1>2, JobTypes, PTL DEF JobSpec

-----------------------------------------------------------------------------
(* Where tasks depend on each other, execute leaves Task.state alone       *)
(* (which is what orchestrator.run_services submits).                      *)
Isolated == \A g \in Graphs : Writes[g] = {} \/ \A t \in Task : g[t] = {}

(* The sets the main thread keeps: pending, futures and what a Ctrl-C kept *)
(* out of futures are disjoint, the snapshot is never ahead of pending, and *)
(* only the at most MaxWorkers tasks handed to the pool occupy it.          *)
InPool == futures \cup lost

Sets ==
  /\ dep \in Graphs
  /\ pending \cap InPool = {} /\ todo \subseteq pending /\ done \subseteq futures
  /\ futures \cap lost = {} /\ Busy \subseteq InPool
  /\ Cardinality(InPool) <= MaxWorkers
  /\ \A t \in pending \cup InPool : ended[t] = 0
  /\ \A t \in done : work[t] = "returned"
  /\ pc \in {"returned", "blocked"} => futures = {}
  /\ pc = "returned" => pending = {}
  /\ pc \notin {"cancelling", "draining", "interrupted"} => lost = {} /\ ctrlC = 0
  /\ pc = "cancelling" => ctrlC = 1
  /\ pc = "draining" => ctrlC \in {1, 2}
  /\ pc \in {"draining", "interrupted"} /\ ctrlC < 2 => \A t \in Task : work[t] = "queued" => t \in lost
  /\ pc = "interrupted" /\ ctrlC < 2 => Busy = {}

(* What each task has been through, by the set it is in.                   *)
Waiting(t) == /\ state[t] = "QUEUED" /\ ended[t] = 0 /\ started[t] = retries[t]
              /\ work[t] \in {"none", "returned"}
InFlight(t) == /\ state[t] # "QUEUED" /\ ended[t] = 0 /\ started[t] = retries[t] + 1
               /\ Writes[dep] = {} => state[t] = "RUNNING"
Concluded(t) == /\ state[t] \in Final /\ ended[t] = 1 /\ work[t] \in {"none", "returned"}
                /\ started[t] > 0 => started[t] = retries[t] + 1 /\ work[t] = "returned"
                /\ started[t] = 0 => state[t] = "SKIPPED"
                /\ state[t] \in Retriable => retries[t] = MaxRetries[t]

Accounts == \A t \in Task :
  /\ retries[t] <= MaxRetries[t]
  /\ t \in pending => Waiting(t)
  /\ t \in InPool => InFlight(t)
  /\ t \notin pending \cup InPool => Concluded(t)

(* A started task only has dependencies that are over and SUCCESS.         *)
Rested == \A t \in Task : started[t] > 0 =>
  \A d \in dep[t] : d \notin pending \cup InPool /\ state[d] = "SUCCESS" /\ started[d] > 0

Story == Accounts /\ Rested

-----------------------------------------------------------------------------
LEMMA InitSets == Init => TypeOK /\ Sets
<1> SUFFICES ASSUME Init PROVE TypeOK /\ Sets
  OBVIOUS
<1>1. TypeOK
  BY SchedulerAssumption DEF Init, TypeOK, TaskState, PC, Work
<1>2. Busy = {}
  BY DEF Init, Busy
<1>3. InPool = {} /\ Cardinality(InPool) <= MaxWorkers
  BY FS_EmptySet, SchedulerAssumption DEF Init, InPool
<1>4. QED
  BY <1>1, <1>2, <1>3 DEF Init, Sets, Stopped

(* What Task.state becomes when a future is reaped is a TaskState.          *)
LEMMA OutcomeType == TypeOK => \A t \in Task : Outcome(t) \in TaskState
BY SchedulerAssumption DEF TypeOK, Outcome, TaskState, Final

LEMMA StepTypes == TypeOK /\ Sets /\ [Next]_vars => TypeOK'
<1> SUFFICES ASSUME TypeOK, Sets, [Next]_vars PROVE TypeOK'
  OBVIOUS
<1> USE DEF TypeOK, PC, Stopped, Work
<1>1. CASE UNCHANGED vars
  BY <1>1 DEF vars, mainVars, bookVars, poolVars
<1>2. CASE EnterScan \/ Leave \/ NothingRuns \/ Wait \/ Drain
  BY <1>2 DEF EnterScan, Leave, NothingRuns, Wait, Drain, bookVars, poolVars
<1>3. ASSUME NEW t \in Task, Skip(t) \/ Submit(t) \/ PassOver(t) PROVE TypeOK'
  BY <1>3 DEF Skip, Submit, Hand, PassOver, Visit, bookVars, poolVars, TaskState, Final
<1>8. ASSUME NEW t \in Task, InterruptSubmit(t) PROVE TypeOK'
  BY <1>8 DEF InterruptSubmit, Hand, Visit, TaskState, Final, Sets
<1>9. CASE Interrupt \/ CancelFutures \/ InterruptHandler \/ InterruptJoin
  BY <1>9 DEF Interrupt, CancelFutures, InterruptHandler, InterruptJoin, CancelSome, Queued, Sets,
              bookVars, poolVars
<1>4. ASSUME NEW t \in Task, Retry(t) \/ Finish(t) PROVE TypeOK'
  <2>1. Outcome(t) \in TaskState
    BY OutcomeType
  <2>2. QED
    BY <1>4, <2>1 DEF Retry, Finish, Pop, poolVars, TaskState
<1>5. ASSUME NEW t \in Task, Begin(t) \/ Return(t) PROVE TypeOK'
  BY <1>5 DEF Begin, Return, mainVars, bookVars
<1>6. ASSUME NEW t \in Task, Assign(t) PROVE TypeOK'
  BY <1>6, SchedulerAssumption DEF Assign, mainVars, bookVars, poolVars, TaskState, Sets
<1>7. QED
  BY <1>1, <1>2, <1>3, <1>4, <1>5, <1>6, <1>8, <1>9 DEF Next, Main, CtrlC, Pool, Over

(* Adding to and taking from a set of tasks changes its size by one at most. *)
LEMMA FuturesCard ==
  ASSUME NEW F \in SUBSET Task, NEW t \in Task
  PROVE  /\ IsFiniteSet(F) /\ Cardinality(F) \in Nat
         /\ t \notin F => Cardinality(F \cup {t}) = Cardinality(F) + 1
         /\ Cardinality(F \ {t}) <= Cardinality(F) /\ Cardinality(F \ {t}) \in Nat
<1>1. IsFiniteSet(F)
  BY FS_Subset, SchedulerAssumption
<1>2. Cardinality(F) \in Nat
  BY <1>1, FS_CardinalityType
<1>3. t \notin F => Cardinality(F \cup {t}) = Cardinality(F) + 1
  BY <1>1, FS_AddElement
<1>4. F \ {t} \subseteq F
  OBVIOUS
<1>5. IsFiniteSet(F \ {t}) /\ Cardinality(F \ {t}) <= Cardinality(F)
  BY <1>1, <1>4, FS_Subset
<1>6. QED
  BY <1>1, <1>2, <1>3, <1>5, FS_CardinalityType

(* Handing one more task to a pool that has room keeps it within bounds.    *)
LEMMA RoomForOne ==
  ASSUME TypeOK, Sets, NEW t \in Task, Hand(t)
  PROVE  /\ t \in pending /\ lost = {} /\ t \notin futures
         /\ Cardinality(InPool \cup {t}) <= MaxWorkers
<1>1. t \in pending /\ pc = "scan" /\ lost = {} /\ Cardinality(futures) < MaxWorkers
  BY DEF Hand, Visit, Ready, Sets
<1>2. t \notin futures /\ InPool = futures
  BY <1>1 DEF Sets, InPool
<1>3. Cardinality(futures) \in Nat /\ Cardinality(futures \cup {t}) = Cardinality(futures) + 1
  BY <1>2, FuturesCard DEF TypeOK
<1>4. QED
  BY <1>1, <1>2, <1>3, SchedulerAssumption

LEMMA StepSets == TypeOK /\ Sets /\ [Next]_vars => Sets'
<1> SUFFICES ASSUME TypeOK, Sets, [Next]_vars PROVE Sets'
  OBVIOUS
<1> USE SchedulerAssumption DEF TypeOK, Sets, PC, Stopped, Work, Busy, InPool
<1>1. CASE UNCHANGED vars
  BY <1>1 DEF vars, mainVars, bookVars, poolVars
<1>2. CASE EnterScan \/ Leave \/ NothingRuns \/ Wait \/ Drain
  BY <1>2 DEF EnterScan, Leave, NothingRuns, Wait, Drain, bookVars, poolVars
<1>3. CASE Interrupt \/ CancelFutures \/ InterruptHandler \/ InterruptJoin
  <2>1. CASE Interrupt
    BY <2>1 DEF Interrupt, bookVars, poolVars
  <2>7. CASE InterruptJoin
    <3>1. ~ (ctrlC' < 2) /\ pc' = "interrupted"
      BY <2>7 DEF InterruptJoin
    <3>2. UNCHANGED <<dep, todo, done, bookVars, work>>
      BY <2>7 DEF InterruptJoin, poolVars
    <3>3. QED
      BY <3>1, <3>2 DEF bookVars
  <2>2. ASSUME NEW S \in SUBSET Queued(futures), CancelSome(S) PROVE Busy' \subseteq Busy
    BY <2>2 DEF Queued, CancelSome
  <2>3. ASSUME NEW S \in SUBSET Queued(futures), CancelSome(S), done = done'
        PROVE  \A t \in done' : work'[t] = "returned"
    BY <2>3 DEF Queued, CancelSome
  <2>4. CASE CancelFutures
    <3>1. \A t \in Task : work'[t] = "queued" => t \in lost
      BY <2>4 DEF CancelFutures, CancelSome, Queued
    <3>2. QED
      BY <2>2, <2>3, <2>4, <3>1 DEF CancelFutures, bookVars, Queued
  <2>5. CASE InterruptHandler
    BY <2>2, <2>3, <2>5 DEF InterruptHandler, bookVars
  <2>6. QED
    BY <1>3, <2>1, <2>4, <2>5, <2>7
<1>4. ASSUME NEW t \in Task, Skip(t) \/ PassOver(t) PROVE Sets'
  <2>1. CASE Skip(t)
    BY <2>1 DEF Skip, Visit, poolVars
  <2>2. CASE PassOver(t)
    BY <2>2 DEF PassOver, Visit, bookVars, poolVars
  <2>3. QED
    BY <1>4, <2>1, <2>2
<1>5. ASSUME NEW t \in Task, Submit(t) PROVE Sets'
  <2>1. /\ t \in pending /\ lost = {} /\ t \notin futures
        /\ Cardinality(InPool \cup {t}) <= MaxWorkers
    BY <1>5, RoomForOne DEF Submit
  <2>2. pc = "scan" /\ pc' = "scan" /\ InPool' = InPool \cup {t}
    BY <1>5 DEF Submit, Hand, Visit
  <2>3. pending' \cap InPool' = {} /\ todo' \subseteq pending' /\ done' \subseteq futures'
    BY <1>5, <2>1, <2>2 DEF Submit, Hand, Visit
  <2>4. Busy' \subseteq InPool' /\ \A u \in done' : work'[u] = "returned"
    BY <1>5, <2>1, <2>2 DEF Submit, Hand, Visit
  <2>5. QED
    BY <1>5, <2>1, <2>2, <2>3, <2>4 DEF Submit, Hand, Visit
<1>6. ASSUME NEW t \in Task, InterruptSubmit(t) PROVE Sets'
  <2>1. /\ t \in pending /\ lost = {} /\ t \notin futures
        /\ Cardinality(InPool \cup {t}) <= MaxWorkers
    BY <1>6, RoomForOne DEF InterruptSubmit
  <2>2. pc = "scan" /\ pc' = "cancelling" /\ InPool' = InPool \cup {t}
    BY <1>6, <2>1 DEF InterruptSubmit, Hand, Visit
  <2>3. pending' \cap InPool' = {} /\ todo' \subseteq pending' /\ done' \subseteq futures'
    BY <1>6, <2>1, <2>2 DEF InterruptSubmit, Hand, Visit
  <2>4. Busy' \subseteq InPool' /\ \A u \in done' : work'[u] = "returned"
    BY <1>6, <2>1, <2>2 DEF InterruptSubmit, Hand, Visit
  <2>5. QED
    BY <1>6, <2>1, <2>2, <2>3, <2>4 DEF InterruptSubmit, Hand, Visit
<1>7. ASSUME NEW t \in Task, Retry(t) \/ Finish(t) PROVE Sets'
  <2>1. Cardinality(InPool') <= MaxWorkers
    <3>1. InPool' = InPool \ {t} /\ InPool \in SUBSET Task
      BY <1>7 DEF Retry, Finish, Pop
    <3>2. /\ Cardinality(InPool) \in Nat /\ Cardinality(InPool') \in Nat
          /\ Cardinality(InPool') <= Cardinality(InPool)
      BY <3>1, FuturesCard
    <3>3. QED
      BY <3>2
  <2>2. QED
    BY <1>7, <2>1 DEF Retry, Finish, Pop, poolVars
<1>8. ASSUME NEW t \in Task, Begin(t) \/ Return(t) PROVE Sets'
  <2>1. Busy' \subseteq Busy /\ \A u \in done : work'[u] = "returned"
    BY <1>8 DEF Begin, Return
  <2>2. \A u \in Task : work'[u] = "queued" => work[u] = "queued"
    BY <1>8 DEF Begin, Return
  <2>3. UNCHANGED <<dep, pc, todo, done, ctrlC, pending, futures, lost, ended>>
    BY <1>8 DEF Begin, Return, mainVars, bookVars
  <2>4. Busy = {} => Busy' = {}
    BY <2>1
  <2>5. QED
    BY <2>1, <2>2, <2>3, <2>4
<1>9. ASSUME NEW t \in Task, Assign(t) PROVE Sets'
  BY <1>9 DEF Assign, mainVars, bookVars, poolVars
<1>10. QED
  BY <1>1, <1>2, <1>3, <1>4, <1>5, <1>6, <1>7, <1>8, <1>9 DEF Next, Main, CtrlC, Pool, Over

(* Every variable keeps its type, and the sets the main thread keeps stay  *)
(* consistent with the pool.                                               *)
THEOREM Typing == Spec => [](TypeOK /\ Sets)
BY InitSets, StepTypes, StepSets, PTL DEF Spec

(* No more than max_workers work items are ever queued or running.         *)
THEOREM PoolIsBounded == Spec => []PoolBound
<1>1. TypeOK /\ Sets => PoolBound
  <2> SUFFICES ASSUME TypeOK, Sets PROVE PoolBound
    OBVIOUS
  <2>1. IsFiniteSet(InPool) /\ Busy \subseteq InPool
    BY FS_Subset, SchedulerAssumption DEF TypeOK, Sets, InPool
  <2>2. Cardinality(Busy) <= Cardinality(InPool)
    BY <2>1, FS_Subset
  <2>3. Cardinality(Busy) \in Nat /\ Cardinality(InPool) \in Nat
    BY <2>1, FS_Subset, FS_CardinalityType
  <2>4. QED
    BY <2>2, <2>3, SchedulerAssumption DEF Sets, PoolBound
<1>2. QED
  BY <1>1, Typing, PTL

(* Whatever is interrupted, run() ends with work left in its pool only      *)
(* after a second Ctrl-C, and never reported that work as ended.            *)
THEOREM RunEndsIdle == Spec => []IdleUnlessForced
<1>1. TypeOK /\ Sets => IdleUnlessForced
  BY DEF TypeOK, Sets, IdleUnlessForced, Busy, InPool, Stopped, Queued
<1>2. QED
  BY <1>1, Typing, PTL

-----------------------------------------------------------------------------
(* The step cases of Story: a step that leaves the main thread's books and  *)
(* Task.state alone, then one lemma per action that moves a task.           *)
LEMMA StepStory ==
  ASSUME Isolated, TypeOK, Sets, Story, [Next]_vars
  PROVE  Story'
<1> USE DEF Story
<1>0. \A t \in Task : dep[t] # {} => Writes[dep] = {}
  BY DEF Isolated, Sets
<1>a. \A t \in Task : /\ retries[t] \in Nat /\ MaxRetries[t] \in Nat
                      /\ retries[t] <= MaxRetries[t]
  BY SchedulerAssumption DEF TypeOK, Accounts
<1>1. ASSUME UNCHANGED <<dep, state, bookVars>>, UNCHANGED work
      PROVE  Story'
  BY <1>1 DEF Accounts, Waiting, InFlight, Concluded, Rested, InPool, bookVars
<1>2. ASSUME UNCHANGED <<dep, state, bookVars>>,
             \A t \in Task : t \notin InPool => work'[t] = work[t]
      PROVE  Story'
  BY <1>2 DEF Accounts, Waiting, InFlight, Concluded, Rested, InPool, bookVars
<1>3. CASE UNCHANGED vars
  BY <1>1, <1>3 DEF vars, mainVars, poolVars
<1>4. CASE EnterScan \/ Leave \/ NothingRuns \/ Wait \/ Drain \/ Interrupt \/ InterruptJoin
  BY <1>1, <1>4 DEF EnterScan, Leave, NothingRuns, Wait, Drain, Interrupt, InterruptJoin, poolVars
<1>5. CASE CancelFutures \/ InterruptHandler
  BY <1>2, <1>5 DEF CancelFutures, InterruptHandler, CancelSome, Queued, TypeOK, InPool
<1>6. ASSUME NEW t \in Task, PassOver(t) PROVE Story'
  BY <1>1, <1>6 DEF PassOver, Visit, poolVars
<1>7. ASSUME NEW t \in Task, Begin(t) \/ Return(t) PROVE Story'
  BY <1>2, <1>7 DEF Begin, Return, mainVars, TypeOK, Sets, Busy
<1>8. ASSUME NEW t \in Task, Assign(t) PROVE Story'
  <2>1. t \in InPool /\ Writes[dep] # {}
    BY <1>8 DEF Assign, Sets, Busy
  <2>2. Accounts'
    BY <1>8, <2>1, SchedulerAssumption
    DEF Assign, mainVars, bookVars, poolVars, Accounts, Waiting, InFlight, Concluded, TypeOK, Final,
        Sets, InPool
  <2>3. Rested'
    BY <1>0, <1>8, <2>1 DEF Assign, mainVars, bookVars, Rested, InPool
  <2>4. QED
    BY <2>2, <2>3
<1>9. ASSUME NEW t \in Task, Skip(t) PROVE Story'
  <2>1. t \in pending /\ Waiting(t)
    BY <1>9 DEF Skip, Visit, Sets, Accounts
  <2>2. PICK d \in dep[t] : state[d] \in Unmet
    BY <1>9 DEF Skip, Doomed
  <2>3. started[t] = 0
    BY <2>1, <2>2 DEF Rested, TypeOK, Unmet
  <2>4. work[t] \in {"none", "returned"}
    BY <2>1 DEF Waiting
  <2>5. Accounts'
    BY <1>9, <2>1, <2>3, <2>4
    DEF Skip, Visit, poolVars, Accounts, Waiting, InFlight, Concluded, TypeOK, Final, Retriable, Sets,
        InPool
  <2>6. Rested'
    BY <1>9, <2>1, <2>3 DEF Skip, Visit, Rested, TypeOK, InPool
  <2>7. QED
    BY <2>5, <2>6
<1>10. ASSUME NEW t \in Task, Submit(t) \/ InterruptSubmit(t) PROVE Story'
  <2>0. Hand(t) /\ InPool' = InPool \cup {t} /\ UNCHANGED <<dep, retries, ended>>
    BY <1>10, RoomForOne DEF Submit, InterruptSubmit, InPool
  <2> HIDE <1>10
  <2>1. t \in pending /\ t \notin InPool /\ Waiting(t)
    BY <2>0 DEF Hand, Visit, Sets, Accounts
  <2>2. \A d \in dep[t] : d # t /\ d \notin pending \cup InPool /\ state[d] = "SUCCESS"
    <3> SUFFICES ASSUME NEW d \in dep[t]
                 PROVE  d # t /\ d \notin pending \cup InPool /\ state[d] = "SUCCESS"
      OBVIOUS
    <3>1. Writes[dep] = {} /\ d \in Task /\ state[d] = "SUCCESS"
      BY <1>0, <2>0 DEF Hand, Ready, TypeOK
    <3>2. QED
      BY <2>1, <3>1 DEF Accounts, Waiting, InFlight
  <2>3. \A d \in dep[t] : started[d] > 0
    BY <2>2 DEF Accounts, Concluded, TypeOK
  <2>4. Accounts'
    BY <2>0, <2>1 DEF Hand, Visit, Accounts, Waiting, InFlight, Concluded, TypeOK
  <2>5. Rested'
    BY <2>0, <2>1, <2>2, <2>3 DEF Hand, Visit, Rested, TypeOK
  <2>6. QED
    BY <2>4, <2>5
<1>11. ASSUME NEW t \in Task, Retry(t) PROVE Story'
  <2>1. t \in futures /\ InFlight(t) /\ work[t] = "returned" /\ retries[t] < MaxRetries[t]
    BY <1>11 DEF Retry, Pop, Again, Sets, Accounts, InPool
  <2>2. \A u \in Task : retries'[u] <= MaxRetries[u]
    BY <1>a, <1>11, <2>1 DEF Retry, TypeOK
  <2>3. Waiting(t)'
    BY <1>11, <2>1 DEF Retry, poolVars, Waiting, InFlight, TypeOK
  <2>4. Accounts'
    BY <1>11, <2>1, <2>2, <2>3
    DEF Retry, Pop, poolVars, Accounts, Waiting, InFlight, Concluded, TypeOK, Sets, InPool
  <2>5. Rested'
    BY <1>11, <2>1 DEF Retry, Pop, Rested, TypeOK, InPool
  <2>6. QED
    BY <2>4, <2>5
<1>12. ASSUME NEW t \in Task, Finish(t) PROVE Story'
  <2>1. t \in futures /\ InFlight(t) /\ work[t] = "returned"
    BY <1>12 DEF Finish, Pop, Sets, Accounts, InPool
  <2>2. Outcome(t) \in Final
    BY <2>1, SchedulerAssumption DEF Outcome, InFlight, TypeOK, TaskState, Final
  <2>3. Outcome(t) \in Retriable => retries[t] = MaxRetries[t]
    BY <1>a, <1>12 DEF Finish, Again
  <2>4. Accounts'
    BY <1>12, <2>1, <2>2, <2>3
    DEF Finish, Pop, poolVars, Accounts, Waiting, InFlight, Concluded, TypeOK, Sets, InPool
  <2>5. Rested'
    BY <1>12, <2>1 DEF Finish, Pop, Rested, TypeOK, InPool
  <2>6. QED
    BY <2>4, <2>5
<1>13. QED
  BY <1>3, <1>4, <1>5, <1>6, <1>7, <1>8, <1>9, <1>10, <1>11, <1>12
  DEF Next, Main, CtrlC, Pool, Over

LEMMA InitStory == Init => Story
BY SchedulerAssumption
DEF Init, Story, Accounts, Waiting, InFlight, Concluded, Rested, InPool

(* The strengthening the next three theorems share.                        *)
LEMMA Books == ASSUME Isolated PROVE Spec => [](TypeOK /\ Sets /\ Story)
<1>1. TypeOK /\ Sets /\ Story /\ [Next]_vars => Story'
  BY StepStory
<1>2. QED
  BY <1>1, InitStory, Typing, PTL DEF Spec

(* run() returns only when every task is accounted for: ended once, in a    *)
(* final state, after exactly one attempt more than its retries.            *)
THEOREM ReturnIsClean == ASSUME Isolated PROVE Spec => []CleanReturn
<1>1. TypeOK /\ Sets /\ Story => CleanReturn
  <2> SUFFICES ASSUME TypeOK, Sets, Story, pc = "returned", NEW t \in Task
               PROVE  /\ Concluded(t) /\ started[t] \in {0, retries[t] + 1}
                      /\ started[t] <= MaxRetries[t] + 1
    BY DEF CleanReturn, Concluded
  <2>1. Concluded(t) /\ retries[t] <= MaxRetries[t]
    BY DEF Sets, Story, Accounts, InPool
  <2>2. retries[t] \in Nat /\ started[t] \in Nat /\ MaxRetries[t] \in Nat
    BY SchedulerAssumption DEF TypeOK
  <2>3. QED
    BY <2>1, <2>2 DEF Concluded
<1>2. QED
  BY <1>1, Books, PTL

(* Dependencies define the order of execution.                              *)
THEOREM DependenciesOrder == ASSUME Isolated PROVE Spec => []DependencyOrder
<1>1. TypeOK /\ Story => DependencyOrder
  BY DEF TypeOK, Story, Rested, Accounts, Concluded, DependencyOrder
<1>2. QED
  BY <1>1, Books, PTL

(* While nothing runs, what a scan has passed over waits for a task that    *)
(* is pending too, or that the scan skipped after it.                       *)
PassedOver == pc \in {"scan", "blocked"} /\ futures = {} =>
  \A t \in pending \ todo : \E d \in dep[t] :
    d \in pending \/ state[d] = "SKIPPED"

AllVisited == pc = "blocked" => todo = {} /\ pending # {}

LEMMA PassedOverStep ==
  ASSUME TypeOK, Sets, Story, PassedOver, AllVisited, [Next]_vars
  PROVE  PassedOver' /\ AllVisited'
<1> USE DEF PassedOver, AllVisited
<1>1. ASSUME UNCHANGED <<dep, state, pc, todo, pending, futures>> PROVE PassedOver' /\ AllVisited'
  BY <1>1
<1>2. CASE UNCHANGED vars
  BY <1>1, <1>2 DEF vars, mainVars, bookVars
<1>3. CASE \/ EnterScan \/ Leave \/ NothingRuns \/ Wait \/ CancelFutures \/ Drain
           \/ Interrupt \/ InterruptHandler \/ InterruptJoin
  BY <1>3
  DEF EnterScan, Leave, NothingRuns, Wait, CancelFutures, Drain, Interrupt, InterruptHandler,
      InterruptJoin, bookVars
<1>4. ASSUME NEW t \in Task, Skip(t) PROVE PassedOver' /\ AllVisited'
  BY <1>4 DEF Skip, Visit, TypeOK
<1>5. ASSUME NEW t \in Task, Submit(t) PROVE PassedOver' /\ AllVisited'
  BY <1>5 DEF Submit, Hand, Visit
<1>11. ASSUME NEW t \in Task, InterruptSubmit(t) PROVE PassedOver' /\ AllVisited'
  BY <1>11 DEF InterruptSubmit
<1>6. ASSUME NEW t \in Task, PassOver(t) PROVE PassedOver' /\ AllVisited'
  <2>1. CASE futures = {}
    <3>1. Cardinality(futures) < MaxWorkers
      BY <2>1, FS_EmptySet, SchedulerAssumption
    <3>2. PICK d \in dep[t] : state[d] # "SUCCESS" /\ state[d] \notin Unmet
      BY <1>6, <3>1 DEF PassOver, Ready, Doomed
    <3>3. d \in pending
      BY <1>6, <2>1, <3>2
      DEF PassOver, Visit, Sets, InPool, TypeOK, Story, Accounts, Concluded, Final, Unmet
    <3>4. QED
      BY <1>6, <3>3 DEF PassOver, Visit, bookVars
  <2>2. CASE futures # {}
    BY <1>6, <2>2 DEF PassOver, Visit, bookVars
  <2>3. QED
    BY <2>1, <2>2
<1>7. ASSUME NEW t \in Task, Retry(t) \/ Finish(t) PROVE PassedOver' /\ AllVisited'
  BY <1>7 DEF Retry, Finish, Pop
<1>8. ASSUME NEW t \in Task, Begin(t) \/ Return(t) PROVE PassedOver' /\ AllVisited'
  BY <1>1, <1>8 DEF Begin, Return, mainVars, bookVars
<1>9. ASSUME NEW t \in Task, Assign(t) PROVE PassedOver' /\ AllVisited'
  BY <1>9 DEF Assign, mainVars, bookVars, Sets, Busy, InPool
<1>10. QED
  BY <1>2, <1>3, <1>4, <1>5, <1>6, <1>7, <1>8, <1>9, <1>11 DEF Next, Main, CtrlC, Pool, Over

(* run() raises "dependency cycle or blocked graph" only for waiting tasks  *)
(* that wait for each other, or for one passed over before the scan that    *)
(* skipped what it depends on, in every graph of every size.                *)
THEOREM BlockedForCause == ASSUME Isolated PROVE Spec => []BlockedIsStuck
<1>1. Init => PassedOver /\ AllVisited
  BY DEF Init, PassedOver, AllVisited
<1>2. TypeOK /\ Sets /\ Story /\ PassedOver /\ AllVisited /\ [Next]_vars => PassedOver' /\ AllVisited'
  BY PassedOverStep
<1>3. TypeOK /\ Sets /\ PassedOver /\ AllVisited => BlockedIsStuck
  <2> SUFFICES ASSUME TypeOK, Sets, PassedOver, AllVisited, pc = "blocked",
                      \A t \in pending : \A d \in dep[t] : d \in pending \/ state[d] # "SKIPPED"
               PROVE  Knot(pending)
    BY DEF BlockedIsStuck
  <2>1. futures = {} /\ todo = {} /\ pending # {}
    BY DEF Sets, AllVisited
  <2>2. QED
    BY <2>1 DEF PassedOver, Knot
<1>4. QED
  BY <1>1, <1>2, <1>3, Books, PTL DEF Spec

-----------------------------------------------------------------------------
(* Refinement: one step of the scheduler is one step of the abstract job    *)
(* graph, or none.                                                          *)
LEMMA RefinementInit == Init => JG!JobInit
BY SchedulerAssumption DEF Init, JG!JobInit, Phase

LEMMA RefinementStep ==
  ASSUME Isolated, TypeOK, Sets, Story, [Next]_vars
  PROVE  [JG!JobNext]_(JG!jvars)
<1> DEFINE phase == [t \in Task |-> Phase(t)]
<1>1. \A d \in Task : /\ state[d] = "SUCCESS" /\ Writes[dep] = {} => Phase(d) = "ok"
                      /\ state[d] \in Unmet /\ Writes[dep] = {} => Phase(d) = "bad"
  BY DEF Phase, Story, Accounts, Waiting, InFlight, Unmet, InPool
<1>2. \A t \in Task : dep[t] # {} => Writes[dep] = {}
  BY DEF Isolated, Sets
<1>3. JG!Running = InPool
  BY DEF JG!Running, Phase, TypeOK, InPool
<1>4. ASSUME UNCHANGED <<dep, bookVars>>,
             \A t \in Task : t \notin InPool => state'[t] = state[t]
      PROVE  UNCHANGED JG!jvars
  BY <1>4 DEF JG!jvars, Phase, bookVars, InPool
<1>5. CASE UNCHANGED vars
  BY <1>4, <1>5 DEF vars, mainVars, poolVars
<1>6. CASE \/ EnterScan \/ Leave \/ NothingRuns \/ Wait \/ CancelFutures \/ Drain
           \/ Interrupt \/ InterruptHandler \/ InterruptJoin
  BY <1>4, <1>6
  DEF EnterScan, Leave, NothingRuns, Wait, CancelFutures, Drain, Interrupt, InterruptHandler,
      InterruptJoin
<1>7. ASSUME NEW t \in Task, PassOver(t) \/ Begin(t) \/ Return(t) PROVE UNCHANGED JG!jvars
  BY <1>4, <1>7 DEF PassOver, Visit, Begin, Return, mainVars
<1>8. ASSUME NEW t \in Task, Assign(t) PROVE UNCHANGED JG!jvars
  BY <1>4, <1>8 DEF Assign, mainVars, Sets, Busy, TypeOK
<1>9. ASSUME NEW t \in Task, Skip(t) PROVE JG!GiveUp(t)
  <2>1. t \in pending /\ t \notin InPool
    BY <1>9 DEF Skip, Visit, Sets
  <2>2. \E d \in dep[t] : phase[d] = "bad"
    BY <1>1, <1>2, <1>9 DEF Skip, Doomed, TypeOK
  <2>3. phase' = [phase EXCEPT ![t] = "bad"]
    BY <1>9, <2>1 DEF Skip, Phase, TypeOK, InPool
  <2>4. QED
    BY <1>9, <2>1, <2>2, <2>3 DEF Skip, JG!GiveUp, JG!Move, Phase, InPool
<1>10. ASSUME NEW t \in Task, Submit(t) \/ InterruptSubmit(t) PROVE JG!Launch(t)
  <2>0. /\ Hand(t) /\ UNCHANGED <<dep, retries>>
        /\ futures' \cup lost' = InPool \cup {t} /\ lost = {}
    BY <1>10, RoomForOne DEF Submit, InterruptSubmit, InPool
  <2> HIDE <1>10
  <2>1. t \in pending /\ t \notin InPool
    BY <2>0 DEF Hand, Visit, Sets
  <2>2. \A d \in dep[t] : phase[d] = "ok"
    BY <1>1, <1>2, <2>0 DEF Hand, Ready, TypeOK
  <2>3. phase' = [phase EXCEPT ![t] = "running"]
    BY <2>0, <2>1 DEF Hand, Phase, TypeOK, InPool
  <2>4. JG!Cardinality(JG!Running) < MaxWorkers
    <3>1. JG!Cardinality(futures) = Cardinality(futures)
      BY Zenon DEF JG!Cardinality, Cardinality
    <3>2. JG!Running = futures
      BY <1>3, <2>0 DEF InPool
    <3>3. QED
      BY <2>0, <3>1, <3>2 DEF Hand, Ready
  <2>5. QED
    BY <2>0, <2>1, <2>2, <2>3, <2>4 DEF JG!Launch, JG!Move, Phase, InPool
<1>11. ASSUME NEW t \in Task, Retry(t) PROVE JG!TryAgain(t)
  <2>1. t \in futures /\ t \notin pending
    BY <1>11 DEF Retry, Pop, Sets, InPool
  <2>2. phase' = [phase EXCEPT ![t] = "waiting"]
    BY <1>11, <2>1 DEF Retry, Pop, Phase, TypeOK, Sets, InPool
  <2>3. QED
    BY <1>11, <2>1, <2>2 DEF Retry, Again, JG!TryAgain, JG!Move, Phase
<1>12. ASSUME NEW t \in Task, Finish(t) PROVE JG!Conclude(t)
  <2>1. t \in futures /\ t \notin pending
    BY <1>12 DEF Finish, Pop, Sets, InPool
  <2>2. \E v \in {"ok", "bad"} : phase' = [phase EXCEPT ![t] = v]
    <3>1. phase' = [phase EXCEPT ![t] = Phase(t)']
      <4>1. \A u \in Task \ {t} : Phase(u)' = Phase(u)
        BY <1>12, <2>1 DEF Finish, Pop, Phase, TypeOK
      <4>2. QED
        BY <4>1
    <3>2. Phase(t)' \in {"ok", "bad"}
      BY <1>12, <2>1 DEF Finish, Pop, Phase, Sets, InPool
    <3>3. QED
      BY <3>1, <3>2
  <2>3. QED
    BY <1>12, <2>1, <2>2 DEF Finish, JG!Conclude, JG!Move, Phase
<1>13. QED
  BY <1>5, <1>6, <1>7, <1>8, <1>9, <1>10, <1>11, <1>12
  DEF Next, Main, CtrlC, Pool, Over, JG!JobNext

(* Scheduler.run implements the abstract dependency-aware scheduler.        *)
THEOREM Refinement == ASSUME Isolated PROVE Spec => ImplementsJobGraph
<1>1. TypeOK /\ Sets /\ Story /\ [Next]_vars => [JG!JobNext]_(JG!jvars)
  BY RefinementStep
<1>2. QED
  BY <1>1, RefinementInit, Books, PTL DEF Spec, ImplementsJobGraph, JG!JobSpec
=============================================================================
