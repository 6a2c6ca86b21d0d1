----------------------------- MODULE ScanProofs ----------------------------
(***************************************************************************)
(* What Scan promises for any host, any findings and any number of workers. *)
(* Fresh and Dispatched tie the workers to the step of the scan: nothing    *)
(* has started before the dispatch, and only tasks ever start.              *)
(***************************************************************************)
EXTENDS Scan, FiniteSetTheorems, NaturalsInduction, WellFoundedInduction, TLAPS

Fresh == step \in Early => \A d \in Detected : worker[d] = "queued" /\ outcome[d] = "none"

Dispatched == \A d \in Detected : worker[d] # "queued" => d \in Tasks

(* Where main() is tells what scan.json says, how many Ctrl-C there were    *)
(* and whether a worker can still run.                                      *)
Recorded ==
  /\ step \notin {"leaving", "ended"} => record = "RUNNING" /\ exit = "none"
  /\ step = "leaving" =>
       <<record, exit>> \in {<<"SUCCESS", "0">>, <<"PARTIAL", "1">>, <<"FAILED", "1">>, <<"CANCELLED", "130">>}

Signalled ==
  /\ step \in Early \cup {"services", "failed", "done"} => ctrlC = 0
  /\ step = "stopping" => ctrlC = 1
  /\ step = "cancelled" => ctrlC \in {1, 2}
  /\ step = "leaving" => ctrlC \in {0, 1, 2}
  /\ step = "ended" => ctrlC \in {0, 1, 2, 3}

Quiescent ==
  /\ step = "done" => \A d \in Tasks : worker[d] = "over"
  /\ step \in {"failed", "done"} => Running = {}
  /\ step \in {"cancelled", "leaving"} /\ Running # {} => ctrlC = 2
  /\ step = "leaving" /\ Running # {} => record = "CANCELLED"

Types ==
  /\ step \in Steps /\ ctrlC \in Nat
  /\ record \in {"RUNNING", "SUCCESS", "PARTIAL", "FAILED", "CANCELLED"}
  /\ exit \in {"none", "0", "1", "130", "traceback"}
  /\ open \in {ExtractPorts(out) : out \in Outputs} \cup {{}}
  /\ printed \in {r.rows : r \in Reports} \cup {{}} /\ detected = Classified(printed)
  /\ detected \in Hosts \cup {{}} /\ known \subseteq Name
  /\ facts \subseteq (DOMAIN Finds) \X Detected
  /\ manifest \in [Detected -> SUBSET Name] /\ found \in [Detected -> SUBSET Name]
  /\ worker \in [Detected -> {"queued", "running", "saved", "over"}]
  /\ outcome \in [Detected -> Outcome]
  /\ \A d \in Detected : outcome[d] # "none" => worker[d] = "over"

IInv == Types /\ Fresh /\ Dispatched

-----------------------------------------------------------------------------
(* A detected service has a module whose findings are names, and only       *)
(* detected services are tasks.                                             *)
LEMMA DetectedServices ==
  ASSUME Types, NEW d \in detected
  PROVE  d \in Detected /\ d.module \in DOMAIN Finds /\ Finds[d.module] \subseteq Name
<1>1. detected \in Hosts
  BY DEF Types
<1>2. d \in Detected /\ d.module \in DOMAIN Finds
  BY <1>1, ScanAssumption DEF Detected
<1>3. QED
  BY <1>2 DEF Name

LEMMA TasksAreDetected ==
  ASSUME Types
  PROVE  Tasks \subseteq detected /\ Tasks \subseteq Detected
<1>1. Tasks \subseteq detected
  BY DEF Tasks, Modules
<1>2. QED
  BY <1>1, DetectedServices

(* What the main thread does after the dispatch leaves the services alone.  *)
Ends == Fails \/ Finish \/ Record \/ Leave \/ Escapes \/ Interrupt \/ Stop \/ InterruptJoin \/ InterruptMain

LEMMA EndStep ==
  ASSUME Types, Ends
  PROVE  /\ UNCHANGED <<Logs, Context, Services>> /\ step' \in Steps \ Early
         /\ ctrlC' \in Nat
         /\ record' \in {"RUNNING", "SUCCESS", "PARTIAL", "FAILED", "CANCELLED"}
         /\ exit' \in {"none", "0", "1", "130", "traceback"}
<1> USE DEF Types, Steps, Early
<1>1. CASE Fails \/ Finish \/ Leave \/ Stop
  BY <1>1 DEF Fails, Finish, Leave, Stop, GoTo
<1>2. CASE Record
  BY <1>2 DEF Record, Verdict, Write
<1>3. CASE Escapes \/ InterruptMain
  BY <1>3 DEF Escapes, InterruptMain, Abort
<1>4. CASE Interrupt \/ InterruptJoin
  BY <1>4 DEF Interrupt, InterruptJoin
<1>5. QED
  BY <1>1, <1>2, <1>3, <1>4 DEF Ends

(* A step of a worker leaves the main thread alone.                         *)
Works(d) == Start(d) \/ Skip(d) \/ Discover(d) \/ SaveResult(d) \/ WorkerFails(d) \/ Merge(d)

LEMMA NoWorkEarly == ASSUME IInv, step \in Early, NEW d \in detected PROVE ~ Works(d)
<1>1. worker[d] = "queued"
  BY DetectedServices DEF IInv, Fresh
<1>2. QED
  BY <1>1 DEF Works, Early, Start, Skip, Discover, SaveResult, WorkerFails, Merge

LEMMA WorkStep ==
  ASSUME IInv, NEW d \in detected, Works(d)
  PROVE  /\ UNCHANGED <<Main, Logs, detected, manifest>> /\ Tasks' = Tasks
         /\ d \in Detected /\ d \in Tasks /\ worker[d] # "over" /\ worker'[d] # "queued"
         /\ \A e \in Detected : e # d => worker'[e] = worker[e] /\ outcome'[e] = outcome[e]
<1>1. UNCHANGED <<Main, Logs, detected, manifest>>
  BY DEF Works, Start, Skip, Discover, SaveResult, WorkerFails, Merge, Context
<1>2. Tasks' = Tasks
  BY <1>1 DEF Tasks, Main
<1>3. d \in Detected /\ worker[d] # "over"
  BY DetectedServices DEF IInv, Works, Start, Skip, Discover, SaveResult, WorkerFails, Merge
<1>4. d \in Tasks
  BY <1>3 DEF IInv, Dispatched, Works, Start, Skip, Discover, SaveResult, WorkerFails, Merge
<1>5. /\ worker'[d] # "queued"
      /\ \A e \in Detected : e # d => worker'[e] = worker[e] /\ outcome'[e] = outcome[e]
  BY <1>3 DEF IInv, Types, Works, Start, Skip, Discover, SaveResult, WorkerFails, Merge
<1>6. QED
  BY <1>1, <1>2, <1>3, <1>4, <1>5

(* Once a worker is over it stays over, and only a worker that starts joins *)
(* those that run.                                                          *)
LEMMA WorkRuns ==
  ASSUME IInv, NEW d \in detected, Works(d)
  PROVE  \/ Running' \subseteq Running
         \/ /\ step = "services" /\ Running' = Running \cup {d}
            /\ Cardinality(Running) < MaxWorkers
<1>1. Tasks' = Tasks /\ d \in Tasks /\ d \in Detected /\ Tasks \subseteq Detected
  BY WorkStep, TasksAreDetected DEF IInv
<1>2. CASE Start(d)
  <2>1. worker' = [worker EXCEPT ![d] = "running"]
    BY <1>2 DEF Start
  <2>2. Running' = Running \cup {d}
    BY <1>1, <2>1 DEF Running, IInv, Types
  <2>3. QED
    BY <1>2, <2>2 DEF Start
<1>3. CASE Skip(d) \/ Discover(d) \/ SaveResult(d) \/ WorkerFails(d) \/ Merge(d)
  BY <1>1, <1>3 DEF Skip, SaveResult, WorkerFails, Merge, Discover, Running, IInv, Types
<1>4. QED
  BY <1>2, <1>3 DEF Works

(* The tasks change only when the scan leaves its first steps.              *)
LEMMA SameTasks ==
  ASSUME IInv, Next, step \notin Early
  PROVE  Tasks' = Tasks /\ detected' = detected
<1>1. CASE Ends
  BY <1>1, EndStep DEF IInv, Context, Tasks
<1>2. ASSUME NEW d \in detected, Works(d) PROVE Tasks' = Tasks /\ detected' = detected
  BY <1>2, WorkStep
<1>3. QED
  BY <1>1, <1>2 DEF Next, Ends, Works, ScanPorts, Identify, Dispatch, Early

-----------------------------------------------------------------------------
(* The types that do not count anything, with Fresh and Dispatched, are     *)
(* kept by every step.                                                      *)
LEMMA Inductive == IInv /\ [Next]_vars => IInv'
<1> SUFFICES ASSUME IInv, [Next]_vars PROVE IInv'
  OBVIOUS
<1> USE DEF IInv, Services, Logs, Context, Main
<1>1. CASE ScanPorts
  BY <1>1 DEF ScanPorts, Types, Fresh, Dispatched, Early, Steps
<1>2. CASE Identify
  <2>1. PICK r \in Reports :
          printed' = r.rows /\ detected' = Classified(r.rows) /\ known' = Identity(r.said)
    BY <1>2 DEF Identify, Answers
  <2>2. detected' \in Hosts /\ known' \subseteq Name
    BY <2>1 DEF Hosts, Identities, Name
  <2>3. QED
    BY <1>2, <2>1, <2>2 DEF Identify, Types, Fresh, Dispatched, Early, Steps
<1>3. CASE Dispatch
  BY <1>3 DEF Dispatch, Types, Fresh, Dispatched, Early, Steps
<1>4. ASSUME NEW d \in detected, Works(d) PROVE IInv'
  <2>1. d \in Detected /\ d.module \in DOMAIN Finds /\ Finds[d.module] \subseteq Name
    BY DetectedServices
  <2>2. step' = step /\ detected' = detected /\ Tasks' = Tasks /\ d \in Tasks
    BY <1>4, WorkStep
  <2>3. step \notin Early
    BY <1>4, NoWorkEarly
  <2>4. Types'
    <3>1. CASE Start(d)
      BY <3>1, <2>1 DEF Start, Types
    <3>2. CASE Skip(d)
      BY <3>2, <2>1 DEF Skip, Types, Outcome
    <3>3. CASE Discover(d)
      BY <3>3, <2>1 DEF Discover, Types
    <3>4. CASE SaveResult(d)
      BY <3>4, <2>1 DEF SaveResult, Types
    <3>5. CASE WorkerFails(d)
      BY <3>5, <2>1 DEF WorkerFails, Types, Outcome
    <3>6. CASE Merge(d)
      BY <3>6, <2>1 DEF Merge, Types, Outcome
    <3>7. QED
      BY <1>4, <3>1, <3>2, <3>3, <3>4, <3>5, <3>6 DEF Works
  <2>5. \A e \in Detected : e # d => worker'[e] = worker[e]
    BY <1>4, WorkStep
  <2>6. QED
    BY <2>2, <2>3, <2>4, <2>5 DEF Fresh, Dispatched
<1>5. CASE Ends
  <2>1. /\ UNCHANGED <<Logs, Context, Services>> /\ step' \in Steps \ Early
        /\ ctrlC' \in Nat
        /\ record' \in {"RUNNING", "SUCCESS", "PARTIAL", "FAILED", "CANCELLED"}
        /\ exit' \in {"none", "0", "1", "130", "traceback"}
    BY <1>5, EndStep
  <2>2. Types'
    BY <2>1 DEF Types
  <2>3. QED
    BY <2>1, <2>2 DEF Fresh, Dispatched, Tasks
<1>6. CASE UNCHANGED vars
  BY <1>6 DEF vars, Types, Fresh, Dispatched, Tasks
<1>7. QED
  BY <1>1, <1>2, <1>3, <1>4, <1>5, <1>6 DEF Next, Works, Ends

LEMMA Initially == Init => IInv
<1>1. Classified({}) = {}
  BY DEF Classified
<1>2. QED
  BY <1>1 DEF Init, IInv, Types, Fresh, Dispatched, Outcome, Early, Steps, Name

LEMMA Invariance == Spec => []IInv
  BY Initially, Inductive, PTL DEF Spec

-----------------------------------------------------------------------------
Fits == IsFiniteSet(Running) /\ Cardinality(Running) =< MaxWorkers

(* A step starts one task or none.                                          *)
LEMMA NothingEarly ==
  ASSUME IInv, Next, step \in Early
  PROVE  Running' = {} /\ UNCHANGED <<worker, outcome>>
<1>1. UNCHANGED <<worker, outcome>>
  <2>1. CASE Ends
    BY <2>1, EndStep DEF IInv, Services
  <2>2. QED
    BY <2>1, NoWorkEarly DEF Next, Ends, Works, ScanPorts, Identify, Dispatch, Services
<1>2. Tasks' \subseteq Detected
  <2>1. detected' \in Hosts \cup {{}}
    BY Inductive DEF IInv, Types
  <2>2. Tasks' \subseteq detected'
    BY DEF Tasks, Modules
  <2>3. QED
    BY <2>1, <2>2 DEF Detected
<1>3. QED
  BY <1>1, <1>2 DEF IInv, Fresh, Running

LEMMA RunningGrowsByOne ==
  ASSUME IInv, Next
  PROVE  \/ Running' \subseteq Running
         \/ Cardinality(Running) < MaxWorkers /\ \E d \in Detected : Running' = Running \cup {d}
<1>1. CASE step \in Early
  BY <1>1, NothingEarly
<1>2. ASSUME NEW d \in detected, Works(d)
      PROVE  \/ Running' \subseteq Running
             \/ Cardinality(Running) < MaxWorkers /\ \E e \in Detected : Running' = Running \cup {e}
  BY <1>2, WorkRuns, WorkStep
<1>3. CASE Ends /\ step \notin Early
  <2>1. Tasks' = Tasks
    BY <1>3, SameTasks
  <2>2. worker' = worker
    BY <1>3, EndStep DEF IInv, Services
  <2>3. QED
    BY <2>1, <2>2 DEF Running
<1>4. QED
  BY <1>1, <1>2, <1>3 DEF Next, Ends, Works, ScanPorts, Identify, Dispatch, Early

LEMMA PoolFits == Spec => []Fits
<1>1. Init => Fits
  <2> SUFFICES ASSUME Init PROVE Fits
    OBVIOUS
  <2>1. Running = {}
    BY DEF Init, Running, Tasks, Early
  <2>2. QED
    BY <2>1, FS_EmptySet, ScanAssumption DEF Fits
<1>2. IInv /\ Fits /\ [Next]_vars => Fits'
  <2> SUFFICES ASSUME IInv, Fits, [Next]_vars PROVE Fits'
    OBVIOUS
  <2>1. CASE Running' \subseteq Running
    <3>1. IsFiniteSet(Running') /\ Cardinality(Running') =< Cardinality(Running)
      BY <2>1, FS_Subset DEF Fits
    <3>2. Cardinality(Running) \in Nat /\ Cardinality(Running') \in Nat
      BY <3>1, FS_CardinalityType DEF Fits
    <3>3. QED
      BY <3>1, <3>2, ScanAssumption DEF Fits
  <2>2. ASSUME Cardinality(Running) < MaxWorkers, NEW d \in Detected, Running' = Running \cup {d}
        PROVE  Fits'
    <3>1. /\ IsFiniteSet(Running')
          /\ Cardinality(Running') \in {Cardinality(Running), Cardinality(Running) + 1}
      BY <2>2, FS_AddElement DEF Fits
    <3>2. Cardinality(Running) \in Nat
      BY FS_CardinalityType DEF Fits
    <3>3. QED
      BY <2>2, <3>1, <3>2, ScanAssumption DEF Fits
  <2>3. CASE UNCHANGED vars
    BY <2>3 DEF vars, Main, Context, Services, Fits, Running, Tasks
  <2>4. QED
    BY <2>1, <2>2, <2>3, RunningGrowsByOne
<1>3. QED
  BY <1>1, <1>2, Invariance, PTL DEF Spec

(* What a worker that succeeded found is never lost from the shared         *)
(* context, however the workers and their merges interleave.                *)
THEOREM NothingForgotten == Spec => []DiscoveriesKept
<1>1. Init => DiscoveriesKept
  BY DEF Init, DiscoveriesKept
<1>2. IInv /\ DiscoveriesKept /\ [Next]_vars => DiscoveriesKept'
  <2> SUFFICES ASSUME IInv, DiscoveriesKept, [Next]_vars PROVE DiscoveriesKept'
    OBVIOUS
  <2>1. CASE step \in Early /\ Next
    <3>1. \A d \in Detected : outcome'[d] = "none"
      BY <2>1, NothingEarly DEF IInv, Fresh
    <3>2. QED
      BY <3>1 DEF DiscoveriesKept
  <2>2. CASE step \notin Early /\ Next
    <3>1. Tasks' = Tasks /\ Tasks \subseteq Detected
      BY <2>2, SameTasks, TasksAreDetected DEF IInv
    <3>2. ASSUME NEW x \in detected, Merge(x) PROVE DiscoveriesKept'
      <4>1. x \in Tasks /\ x \in Detected
        BY <3>2, DetectedServices DEF Merge, IInv, Dispatched
      <4>2. ASSUME NEW d \in Detected, outcome'[d] = "SUCCESS"
            PROVE  found'[d] \subseteq known'
        BY <3>2, <4>1, <4>2 DEF Merge, DiscoveriesKept, IInv, Types
      <4>3. ASSUME NEW d \in Detected, outcome'[d] = "SUCCESS"
            PROVE  \E e \in Tasks' : <<d.module, e>> \in facts' /\ e.module = d.module /\ worker'[e] = "over"
        <5>1. CASE d.module = x.module
          BY <3>1, <3>2, <4>1, <5>1 DEF Merge, IInv, Types
        <5>2. CASE d.module # x.module
          <6>1. outcome[d] = "SUCCESS"
            BY <3>2, <4>3, <5>2 DEF Merge, IInv, Types
          <6>2. PICK e \in Tasks : <<d.module, e>> \in facts /\ e.module = d.module /\ worker[e] = "over"
            BY <6>1 DEF DiscoveriesKept
          <6>3. <<d.module, e>> \in facts' /\ worker'[e] = "over"
            BY <3>1, <3>2, <5>2, <6>2 DEF Merge, IInv, Types
          <6>4. QED
            BY <3>1, <6>2, <6>3
        <5>3. QED
          BY <5>1, <5>2
      <4>4. QED
        BY <4>2, <4>3 DEF DiscoveriesKept
    <3>3. ASSUME NEW x \in detected, Start(x) \/ Skip(x) \/ Discover(x) \/ SaveResult(x) \/ WorkerFails(x)
          PROVE  DiscoveriesKept'
      <4>1. known' = known /\ facts' = facts
        BY <3>3 DEF Start, Skip, Discover, SaveResult, WorkerFails, Context
      <4>2. ASSUME NEW d \in Detected
            PROVE  /\ outcome'[d] = "SUCCESS" => outcome[d] = "SUCCESS" /\ found'[d] = found[d]
                   /\ worker[d] = "over" => worker'[d] = "over"
        BY <3>3, DetectedServices DEF Start, Skip, Discover, SaveResult, WorkerFails, IInv, Types
      <4>3. QED
        BY <3>1, <4>1, <4>2 DEF DiscoveriesKept
    <3>4. CASE UNCHANGED <<known, facts, worker, found, outcome>>
      BY <3>1, <3>4 DEF DiscoveriesKept
    <3>5. QED
      <4>1. CASE Ends
        BY <3>4, <4>1, EndStep DEF IInv, Context, Services
      <4>2. QED
        BY <2>2, <3>2, <3>3, <4>1 DEF Next, Ends, ScanPorts, Identify, Dispatch, Early
  <2>3. CASE UNCHANGED vars
    BY <2>3 DEF vars, Main, Context, Services, DiscoveriesKept, Tasks
  <2>4. QED
    BY <2>1, <2>2, <2>3
<1>3. QED
  BY <1>1, <1>2, Invariance, PTL DEF Spec

-----------------------------------------------------------------------------
Honest == Recorded /\ Signalled /\ Quiescent /\ RecordHonest

(* A worker's step: none once all are over, and none starts after Ctrl-C.   *)
LEMMA HonestWork ==
  ASSUME IInv, Honest, NEW d \in detected, Works(d)
  PROVE  Honest'
<1>1. /\ UNCHANGED Main /\ Tasks' = Tasks /\ d \in Tasks /\ d \in Detected
      /\ worker[d] # "over" /\ \A e \in Detected : e # d => worker'[e] = worker[e]
  BY WorkStep
<1>2. step # "services" => Running' \subseteq Running
  BY WorkRuns
<1>3. step # "done" /\ record \notin {"SUCCESS", "PARTIAL"}
  BY <1>1 DEF Honest, Quiescent, RecordHonest
<1>4. (Recorded /\ Signalled)'
  BY <1>1 DEF Main, Honest, Recorded, Signalled
<1>5. Quiescent'
  BY <1>1, <1>2, <1>3 DEF Main, Honest, Quiescent
<1>6. RecordHonest'
  BY <1>1, <1>2, <1>3 DEF Main, Honest, RecordHonest
<1>7. QED
  BY <1>4, <1>5, <1>6 DEF Honest

LEMMA HonestEnd ==
  ASSUME IInv, Honest, Ends
  PROVE  Honest'
<1> USE DEF Honest, Recorded, Signalled, Quiescent, RecordHonest, Steps, Early
<1>1. UNCHANGED <<Logs, Context, Services>>
  BY EndStep DEF IInv
<1>2. Running' = Running /\ (step \notin Early => Tasks' = Tasks)
  <2>1. CASE step \in Early
    <3>1. Tasks = {} /\ Running = {}
      BY <2>1 DEF Tasks, Running
    <3>2. Running' = {}
      BY <2>1, NothingEarly DEF Next, Ends
    <3>3. QED
      BY <2>1, <3>1, <3>2
  <2>2. CASE step \notin Early
    <3>1. Tasks' = Tasks
      BY <2>2, SameTasks DEF Next, Ends
    <3>2. QED
      BY <1>1, <2>2, <3>1 DEF Running, Services
  <2>3. QED
    BY <2>1, <2>2
<1>3. worker' = worker /\ outcome' = outcome
  BY <1>1 DEF Services
<1>4. CASE Fails
  BY <1>2, <1>3, <1>4 DEF Fails, Raises, GoTo, Running, Tasks
<1>5. CASE Finish
  <2>1. Running = {}
    BY <1>5 DEF Finish, Running
  <2>2. QED
    BY <1>2, <1>3, <1>5, <2>1 DEF Finish, GoTo
<1>6. CASE Stop \/ Leave
  BY <1>2, <1>3, <1>6 DEF Stop, Leave, GoTo
<1>7. CASE Record
  <2>1. Tasks' = Tasks
    BY <1>2, <1>7 DEF Record
  <2>2. CASE step = "done" /\ Verdict
    BY <1>2, <1>3, <2>1, <2>2 DEF Verdict, Write
  <2>3. CASE step = "failed" /\ Write("FAILED", "1")
    BY <1>2, <1>3, <2>1, <2>3 DEF Write
  <2>4. CASE step = "cancelled" /\ Write("CANCELLED", "130")
    BY <1>2, <1>3, <2>1, <2>4 DEF Write
  <2>5. QED
    BY <1>7, <2>2, <2>3, <2>4 DEF Record
<1>8. CASE Escapes
  BY <1>2, <1>3, <1>8 DEF Escapes, Raises, Abort, IInv, Types, Running, Tasks
<1>9. CASE Interrupt
  BY <1>2, <1>3, <1>9 DEF Interrupt, Running, Tasks
<1>10. CASE InterruptJoin
  BY <1>2, <1>3, <1>10 DEF InterruptJoin
<1>11. CASE InterruptMain
  BY <1>2, <1>3, <1>11 DEF InterruptMain, Abort
<1>12. QED
  BY <1>4, <1>5, <1>6, <1>7, <1>8, <1>9, <1>10, <1>11 DEF Ends

LEMMA HonestAlways == Spec => []Honest
<1>1. Init => Honest
  BY DEF Init, Honest, Recorded, Signalled, Quiescent, RecordHonest
<1>2. IInv /\ Honest /\ [Next]_vars => Honest'
  <2> SUFFICES ASSUME IInv, Honest, [Next]_vars PROVE Honest'
    OBVIOUS
  <2>1. CASE ScanPorts \/ Identify \/ Dispatch
    BY <2>1 DEF ScanPorts, Identify, Dispatch, Honest, Recorded, Signalled, Quiescent, RecordHonest, Early
  <2>2. ASSUME NEW d \in detected, Works(d) PROVE Honest'
    BY <2>2, HonestWork
  <2>3. CASE Ends
    BY <2>3, HonestEnd
  <2>4. CASE UNCHANGED vars
    BY <2>4 DEF vars, Main, Context, Services, Honest, Recorded, Signalled, Quiescent, RecordHonest,
                Running, Tasks
  <2>5. QED
    BY <2>1, <2>2, <2>3, <2>4 DEF Next, Ends, Works
<1>3. QED
  BY <1>1, <1>2, Invariance, PTL DEF Spec

(* Every variable keeps its type, and no more workers run than the pool has *)
(* threads, for any host and any findings.                                  *)
THEOREM Typing == Spec => []TypeOK
<1>1. IInv /\ Signalled => ctrlC \in 0..3
  BY DEF IInv, Types, Signalled, Steps, Early
<1>2. IInv /\ Fits /\ Honest => TypeOK
  BY <1>1 DEF IInv, Types, Fits, Honest, TypeOK
<1>3. QED
  BY <1>2, Invariance, PoolFits, HonestAlways, PTL

(* scan.json is written after the last worker, says SUCCESS only for a scan *)
(* whose services all succeeded, and a worker outlives the scan only after  *)
(* a second Ctrl-C, on every host, with any number of workers.              *)
THEOREM RecordIsHonest == Spec => []RecordHonest
<1>1. Honest => RecordHonest
  BY DEF Honest
<1>2. QED
  BY <1>1, HonestAlways, PTL

-----------------------------------------------------------------------------
(* The classifier: which module a row of nmap gets.                         *)

Ldap == {"ldap", "ldaps", "ssl/ldap"}
Vague == {"unknown", "tcpwrapped", "rtsp"}

(* A name belongs to one module, and no module is called unknown.           *)
LEMMA OneSpeaker ==
  ASSUME NEW m \in DOMAIN Spoken, NEW k \in DOMAIN Spoken, NEW name \in Spoken[m], name \in Spoken[k]
  PROVE  m = k
  BY SMTT(30) DEF Spoken

LEMMA NoNameForNothing ==
  /\ {"unknown", "unimplemented"} \cap DOMAIN Spoken = {}
  /\ \A m \in DOMAIN Spoken : Vague \cap Spoken[m] = {}
  BY SMTT(30) DEF Spoken, Vague

LEMMA ModuleBySpeech ==
  ASSUME NEW row, ~ ByProduct(row), NEW m \in DOMAIN Spoken, Service(row) \in Spoken[m]
  PROVE  Module(row) = m
<1>1. \A k \in DOMAIN Spoken : Service(row) \in Spoken[k] => k = m
  BY OneSpeaker
<1>2. QED
  BY <1>1 DEF Module

LEMMA SpeechByModule ==
  ASSUME NEW row, Module(row) \in DOMAIN Spoken
  PROVE  ~ ByProduct(row) /\ Service(row) \in Spoken[Module(row)]
  BY NoNameForNothing DEF Module

LEMMA LdapRows ==
  ASSUME NEW row
  PROVE  Module(row) = "ldap" <=> ~ ByProduct(row) /\ row.service \in Ldap
<1>1. "ldap" \in DOMAIN Spoken /\ Spoken["ldap"] = Ldap
  BY DEF Spoken, Ldap
<1>2. Service(row) \in Ldap <=> row.service \in Ldap
  BY DEF Service, Renamed, Ldap
<1>3. QED
  BY <1>1, <1>2, ModuleBySpeech, SpeechByModule

LEMMA WebRows ==
  ASSUME NEW row, ~ ByProduct(row), row.service \in {"http", "ssl/http"} \cup Vague
  PROVE  /\ Module(row) \in {"http", "https"} <=> row.service \notin Vague \/ ScriptHttp(row)
         /\ Module(row) \in {"http", "https"} => Module(row) \in Implemented
<1>1. /\ {"http", "https"} \subseteq DOMAIN Spoken
      /\ "http" \in Spoken["http"] /\ "ssl/http" \in Spoken["https"]
  BY DEF Spoken
<1>2. CASE row.service \notin Vague \/ ScriptHttp(row)
  <2>1. Service(row) \in {"http", "ssl/http"}
    BY <1>2 DEF Service, Renamed, Vague
  <2>2. row.service \notin Vague \/ ScriptHttp(row)
    BY <1>2
  <2>3. QED
    BY <1>1, <2>1, <2>2, ModuleBySpeech DEF Implemented
<1>3. CASE row.service \in Vague /\ ~ ScriptHttp(row)
  <2>1. Service(row) \in Vague
    BY <1>3 DEF Service, Renamed
  <2>2. Module(row) \notin DOMAIN Spoken
    BY <2>1, NoNameForNothing, SpeechByModule
  <2>3. QED
    BY <1>1, <1>3, <2>2 DEF Implemented
<1>4. QED
  BY <1>2, <1>3

-----------------------------------------------------------------------------
(* The choice among LDAP services.                                          *)

LEMMA Minimum == ASSUME NEW T, T \subseteq Nat, T # {} PROVE \E x \in T : \A y \in T : x =< y
<1> DEFINE R == {ss \in Nat \X Nat : ss[1] < ss[2]}
<1>1. IsWellFoundedOn(R, Nat)
  BY NatLessThanWellFounded DEF OpToRel
<1>2. \A x, y \in Nat : y < x => <<y, x>> \in R
  OBVIOUS
<1> HIDE DEF R
<1>3. PICK x \in T : \A y \in T : ~ (<<y, x>> \in R)
  BY <1>1, WFMin
<1>4. ASSUME NEW y \in T PROVE x =< y
  <2>1. x \in Nat /\ y \in Nat /\ ~ (<<y, x>> \in R)
    BY <1>3
  <2>2. ~ (y < x)
    BY <1>2, <2>1
  <2>3. QED
    BY <2>1, <2>2
<1>5. QED
  BY <1>4

LEMMA RankType == ASSUME NEW d PROVE Rank(d) \in 0..2
  BY DEF Rank

LEMMA SoonestExists ==
  ASSUME NEW S, S # {}, \A d \in S : d.port \in Nat
  PROVE  \E b \in S : \A e \in S : Sooner(b, e)
<1> DEFINE Ranks == {Rank(d) : d \in S}
<1>1. Ranks \subseteq Nat /\ Ranks # {}
  BY RankType
<1>2. PICK a \in S : \A e \in S : Rank(a) =< Rank(e)
  <2>1. PICK m \in Ranks : \A y \in Ranks : m =< y
    BY <1>1, Minimum
  <2>2. QED
    BY <2>1
<1> DEFINE Ports == {d.port : d \in {e \in S : Rank(e) = Rank(a)}}
<1>3. Ports \subseteq Nat /\ Ports # {}
  OBVIOUS
<1>4. PICK b \in S : Rank(b) = Rank(a) /\ \A e \in S : Rank(e) = Rank(a) => b.port =< e.port
  <2>1. PICK m \in Ports : \A y \in Ports : m =< y
    BY <1>3, Minimum
  <2>2. QED
    BY <2>1
<1>5. ASSUME NEW e \in S PROVE Sooner(b, e)
  <2>1. Rank(a) =< Rank(e) /\ Rank(a) \in Nat /\ Rank(e) \in Nat
    BY <1>2, RankType
  <2>2. QED
    BY <1>4, <2>1 DEF Sooner
<1>6. QED
  BY <1>4, <1>5

(* One service is chosen; it is secure only when all are.                   *)
LEMMA OneLdap ==
  ASSUME NEW ds, \A d \in ds : d.port \in Nat /\ \A e \in ds : d.port = e.port => d = e,
         \E d \in ds : d.module = "ldap"
  PROVE  \E d \in ds : /\ d.module = "ldap" /\ LdapChoice(ds) = {d}
                       /\ Secure(d) => \A e \in ds : e.module = "ldap" => Secure(e)
<1> DEFINE ldap == {d \in ds : d.module = "ldap"}
           plain == {d \in ldap : ~Secure(d)}
           from == IF plain # {} THEN plain ELSE ldap
           best == {d \in from : \A e \in from : Sooner(d, e)}
<1>1. from # {} /\ from \subseteq ldap
  OBVIOUS
<1>2. PICK b \in from : \A e \in from : Sooner(b, e)
  <2>1. \A d \in from : d.port \in Nat
    BY <1>1
  <2> HIDE DEF from
  <2>2. QED
    BY <1>1, <2>1, SoonestExists
<1>3. ASSUME NEW d \in best PROVE d = b
  <2>1. d \in from /\ Sooner(d, b) /\ Sooner(b, d)
    BY <1>2, <1>3
  <2>2. /\ Rank(d) \in Nat /\ Rank(b) \in Nat /\ d.port \in Nat /\ b.port \in Nat
    BY <1>1, <1>2, <2>1, RankType
  <2>3. d.port = b.port
    BY <2>1, <2>2 DEF Sooner
  <2>4. QED
    BY <1>1, <1>2, <2>1, <2>3
<1>4. best = {b}
  BY <1>2, <1>3
<1>5. LdapChoice(ds) = {d \in ldap : d.port = b.port}
  BY <1>4 DEF LdapChoice
<1>6. LdapChoice(ds) = {b}
  BY <1>1, <1>2, <1>5
<1>7. Secure(b) => \A e \in ds : e.module = "ldap" => Secure(e)
  BY <1>2
<1>8. QED
  BY <1>1, <1>2, <1>6, <1>7

-----------------------------------------------------------------------------
(* Nmap reports nothing before it is asked, and only on open ports.         *)
Asked ==
  /\ step \in {"ports", "nmap"} => printed = {}
  /\ \A row \in printed : <<row.transport, row.port>> \in open

LEMMA AskedAlways == Spec => []Asked
<1>1. Init => Asked
  BY DEF Init, Asked
<1>2. IInv /\ Asked /\ [Next]_vars => Asked'
  <2> SUFFICES ASSUME IInv, Asked, [Next]_vars PROVE Asked'
    OBVIOUS
  <2>1. CASE ScanPorts
    BY <2>1 DEF ScanPorts, Asked
  <2>2. CASE Identify
    BY <2>2 DEF Identify, Answers, Asked
  <2>3. CASE UNCHANGED Logs /\ (step' = step \/ step' \notin {"ports", "nmap"})
    BY <2>3 DEF Logs, Asked
  <2>4. CASE Ends
    BY <2>3, <2>4, EndStep DEF IInv, Logs, Early
  <2>5. ASSUME NEW d \in detected, Works(d) PROVE Asked'
    BY <2>3, <2>5, WorkStep DEF Main
  <2>6. QED
    BY <2>1, <2>2, <2>3, <2>4, <2>5 DEF Next, Ends, Works, Dispatch, Main, vars
<1>3. QED
  BY <1>1, <1>2, Invariance, PTL DEF Spec

(* What the rows of one host say of the services: one for each port.        *)
LEMMA RowsOfOneHost ==
  ASSUME Types
  PROVE  /\ OfOneHost(printed) /\ detected = {Classify(row) : row \in printed}
         /\ \A d \in detected : d.port \in Nat /\ \A e \in detected : d.port = e.port => d = e
<1>1. OfOneHost(printed)
  BY ScanAssumption DEF Types, OfOneHost
<1>2. detected = {Classify(row) : row \in printed}
  BY DEF Types, Classified
<1>3. \A row \in printed : Classify(row).port = row.port
  BY DEF Classify
<1>4. \A d \in detected : d.port \in Nat
  BY ScanAssumption DEF Types
<1>5. ASSUME NEW d \in detected, NEW e \in detected, d.port = e.port PROVE d = e
  <2>1. PICK x \in printed : d = Classify(x)
    BY <1>2
  <2>2. PICK y \in printed : e = Classify(y)
    BY <1>2
  <2>3. x = y
    BY <1>1, <1>3, <1>5, <2>1, <2>2 DEF OfOneHost
  <2>4. QED
    BY <2>1, <2>2, <2>3
<1>6. QED
  BY <1>1, <1>2, <1>4, <1>5

(* Every service that has a module gets one worker, the right one, and none *)
(* for the evidence of a neighbour, on every host and for every report.     *)
THEOREM ServicesAreServed == Spec => []ServicesServed
<1>1. IInv /\ Honest /\ Asked => ServicesServed
  <2> SUFFICES ASSUME IInv, Honest, Asked,
                      step \in {"services", "stopping"} \/ record \in {"SUCCESS", "PARTIAL"}
               PROVE  ServicesServed
    BY DEF ServicesServed
  <2> DEFINE plain == {r \in printed : ~ ByProduct(r)}
             ldap == {r \in plain : r.service \in {"ldap", "ldaps", "ssl/ldap"}}
             tls(r) == r.port \in {636, 3269} \/ (r.service # "ldap" /\ r.sure)
             foreign(r) == r.prints # {} /\ \A p \in r.prints : p[2] # r.port
             vague == {r \in plain : r.service \in {"unknown", "tcpwrapped", "rtsp"}}
             web == {d.port : d \in {e \in Tasks : e.module \in {"http", "https"}}}
  <2>1. Tasks = Modules(detected)
    BY DEF Tasks, Honest, Recorded, Early
  <2>2. /\ OfOneHost(printed) /\ detected = {Classify(row) : row \in printed}
        /\ \A d \in detected : d.port \in Nat /\ \A e \in detected : d.port = e.port => d = e
    BY RowsOfOneHost DEF IInv
  <2>3. \A row \in printed : /\ Classify(row) \in detected
                             /\ Classify(row).port = row.port /\ Classify(row).module = Module(row)
    BY <2>2 DEF Classify
  <2>4. Tasks \subseteq detected
    BY <2>1 DEF Modules
  <2>5. \A d \in Tasks, e \in Tasks : d.port = e.port => d = e
    BY <2>2, <2>4
  <2>6. ASSUME NEW d \in Tasks PROVE <<"tcp", d.port>> \in open
    <3>1. PICK row \in printed : d = Classify(row)
      BY <2>2, <2>4
    <3>2. <<row.transport, row.port>> \in open /\ row.transport = "tcp" /\ d.port = row.port
      BY <2>2, <2>3, <3>1 DEF Asked, OfOneHost
    <3>3. QED
      BY <3>2
  <2>7. ASSUME ldap # {}
        PROVE  \E r \in ldap, d \in Tasks :
                 /\ {e \in Tasks : e.module = "ldap"} = {d} /\ d.port = r.port
                 /\ Secure(d) = tls(r) /\ (Secure(d) => \A s \in ldap : tls(s))
    <3>1. ASSUME NEW r \in ldap PROVE Secure(Classify(r)) = tls(r)
      <4>1. r.transport = "tcp" /\ r.sure \in BOOLEAN
        BY <2>2 DEF OfOneHost
      <4>2. Service(r) = r.service
        BY DEF Service, Renamed
      <4>3. QED
        BY <4>1, <4>2 DEF Secure, Classify
    <3>2. ASSUME NEW r \in printed PROVE Module(r) = "ldap" <=> r \in ldap
      BY LdapRows DEF Ldap
    <3>3. \E d \in detected : d.module = "ldap"
      BY <2>3, <2>7, <3>2
    <3>4. PICK d \in detected : /\ d.module = "ldap" /\ LdapChoice(detected) = {d}
                                /\ Secure(d) => \A e \in detected : e.module = "ldap" => Secure(e)
      <4>1. \A d \in detected : d.port \in Nat /\ \A e \in detected : d.port = e.port => d = e
        BY <2>2
      <4>2. QED
        BY <3>3, <4>1, OneLdap
    <3>5. "ldap" \in Implemented
      BY DEF Implemented, Spoken
    <3>6. d \in Tasks /\ {e \in Tasks : e.module = "ldap"} = {d}
      <4>1. d \in Modules(detected)
        BY <3>4, <3>5 DEF Modules
      <4>2. ASSUME NEW e \in Modules(detected), e.module = "ldap" PROVE e = d
        BY <3>4, <4>2 DEF Modules
      <4>3. QED
        BY <2>1, <3>4, <4>1, <4>2
    <3>7. PICK r \in printed : d = Classify(r)
      BY <2>2
    <3>8. r \in ldap /\ d.port = r.port
      <4>1. Module(r) = "ldap" /\ d.port = r.port
        BY <2>3, <3>4, <3>7
      <4>2. QED
        BY <3>2, <4>1
    <3>9. Secure(d) = tls(r)
      BY <3>1, <3>7, <3>8
    <3>10. ASSUME Secure(d), NEW s \in ldap PROVE tls(s)
      <4>1. Classify(s) \in detected /\ Classify(s).module = "ldap"
        BY <2>3, <3>2
      <4>2. Secure(Classify(s))
        BY <3>4, <3>10, <4>1
      <4> HIDE DEF ldap, tls
      <4>3. QED
        BY <3>1, <3>10, <4>2
    <3> HIDE DEF ldap, tls
    <3>11. QED
      BY <3>6, <3>8, <3>9, <3>10
  <2>8. ASSUME NEW r \in plain, r.service \in {"http", "ssl/http"} \cup Vague
        PROVE  r.port \in web <=> r.service \notin Vague \/ ScriptHttp(r)
    <3>1. ASSUME NEW d \in Tasks, d.port = r.port PROVE d = Classify(r)
      BY <2>2, <2>3, <2>4, <3>1
    <3>2. r.port \in web <=> Classify(r) \in Tasks /\ Module(r) \in {"http", "https"}
      BY <2>3, <3>1
    <3>3. Module(r) \in {"http", "https"} => Classify(r) \in Tasks
      BY <2>1, <2>3, <2>8, WebRows DEF Modules
    <3>4. QED
      BY <2>8, <3>2, <3>3, WebRows
  <2>9. ASSUME NEW r \in vague PROVE ScriptHttp(r) <=> r.http /\ ~ foreign(r)
    <3>1. r.transport = "tcp" /\ r.prints \subseteq {"tcp"} \X Nat
      BY <2>2 DEF OfOneHost
    <3>2. <<r.transport, r.port>> \in r.prints <=> \E p \in r.prints : p[2] = r.port
      BY <3>1
    <3>3. QED
      BY <3>2 DEF ScriptHttp
  <2>10. ASSUME NEW r \in plain, r.service \in {"http", "ssl/http"} PROVE r.port \in web
    <3>1. r.service \notin Vague
      BY <2>10 DEF Vague
    <3>2. QED
      BY <2>8, <2>10, <3>1
  <2>11. ASSUME NEW r \in vague PROVE r.port \in web <=> r.http /\ ~ foreign(r)
    <3>1. r \in plain /\ r.service \in Vague
      BY DEF Vague
    <3> HIDE DEF web, foreign, plain, vague
    <3>2. QED
      BY <2>8, <2>9, <3>1
  <2> HIDE DEF web, foreign, ldap, tls, vague
  <2>12. QED
    BY <2>5, <2>6, <2>7, <2>10, <2>11 DEF ServicesServed, web, foreign, ldap, tls, vague
<1>2. QED
  BY <1>1, Invariance, HonestAlways, AskedAlways, PTL
=============================================================================
