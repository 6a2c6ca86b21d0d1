----------------------- MODULE ResourceTraversalProofs ----------------------
(* ResourceTraversal for every finite namespace and every limit.           *)
EXTENDS Enumeration, FiniteSetTheorems, TLAPS

(* The queue holds accepted resources that were never probed, each once.   *)
Line ==
  /\ \A i \in 1..Len(queue) : /\ queue[i] \in accepted
                              /\ work[queue[i]] = "none" /\ enumerated[queue[i]] = 0
  /\ \A i, j \in 1..Len(queue) : queue[i] = queue[j] => i = j

(* The pool runs accepted resources only, and those reaped are over.       *)
Running == {r \in Res : work[r] = "running"}
Pooled ==
  /\ futures \subseteq accepted /\ done \subseteq futures
  /\ Running \subseteq futures /\ Cardinality(futures) <= MaxWorkers
  /\ \A r \in done : work[r] # "running"
  /\ pc = "fill" => done = {}

Counted ==
  /\ Cardinality(accepted) <= MaxTasks
  /\ fileCount = Cardinality(OfKind("file")) /\ fileCount <= MaxFiles
  /\ directoryCount = Cardinality(OfKind("directory")) /\ directoryCount <= MaxDirectories

(* What is on offer is a root, or a child of a listed, accepted resource.  *)
Offered ==
  /\ from = NoRes => offers \subseteq Roots
  /\ from # NoRes => /\ from \in accepted
                     /\ offers # {} => work[from] = "listed" /\ offers \subseteq kids[from]

Unprobed == \A r \in Res : r \notin accepted => work[r] = "none"

Inv == TypeOK /\ Line /\ Pooled /\ Counted /\ Offered /\ Unprobed /\ ProbedOnce /\ DiscoveryTree

-----------------------------------------------------------------------------
LEMMA Finite == ASSUME NEW S \in SUBSET Res, NEW r \in Res
                PROVE  /\ IsFiniteSet(S) /\ Cardinality(S) \in Nat
                       /\ Cardinality(S \cup {r}) = Cardinality(S) + IF r \in S THEN 0 ELSE 1
                       /\ \A T \in SUBSET S : Cardinality(T) <= Cardinality(S) /\ Cardinality(T) \in Nat
<1>1. IsFiniteSet(S) /\ Cardinality(S) \in Nat
  BY FS_Subset, FS_CardinalityType, TraversalAssumption
<1>2. r \in S => S \cup {r} = S
  OBVIOUS
<1>3. \A T \in SUBSET S : Cardinality(T) <= Cardinality(S) /\ Cardinality(T) \in Nat
  BY <1>1, FS_Subset, FS_CardinalityType
<1>4. QED
  BY <1>1, <1>2, <1>3, FS_AddElement

LEMMA InitInv == Init => Inv
<1> SUFFICES ASSUME Init PROVE Inv
  OBVIOUS
<1> USE TraversalAssumption DEF Init
<1>1. TypeOK
  BY DEF TypeOK, Status, Work
<1>2. Cardinality(accepted) = 0 /\ Cardinality(futures) = 0
  BY FS_EmptySet
<1>3. OfKind("file") = {} /\ OfKind("directory") = {} /\ Running = {}
  BY DEF OfKind, Running
<1>4. Line /\ Offered /\ Unprobed /\ ProbedOnce /\ DiscoveryTree
  BY DEF Line, Offered, Unprobed, ProbedOnce, DiscoveryTree
<1>5. Pooled
  BY <1>2, <1>3 DEF Pooled
<1>6. Counted
  <2>1. Cardinality(OfKind("file")) = 0 /\ Cardinality(OfKind("directory")) = 0
    BY <1>3, FS_EmptySet
  <2>2. 0 <= MaxTasks /\ 0 <= MaxFiles /\ 0 <= MaxDirectories
    OBVIOUS
  <2>3. QED
    BY <1>2, <2>1, <2>2 DEF Counted
<1>7. QED
  BY <1>1, <1>4, <1>5, <1>6 DEF Inv

LEMMA AcceptInv == ASSUME Inv, NEW c \in Res, Accept(c) PROVE Inv'
<1> USE TraversalAssumption DEF Inv, Accept, Offer, Acceptable
<1>1. OfferDepth \in Nat /\ OfferDepth <= MaxDepth
  BY DEF TypeOK, OfferDepth
<1>2. TypeOK'
  BY SMTT(30), <1>1 DEF TypeOK, Status
<1>3. Line'
  <2>1. /\ queue \in Seq(Res) /\ Len(queue') = Len(queue) + 1
        /\ \A i \in 1..Len(queue) : queue'[i] = queue[i]
        /\ queue'[Len(queue) + 1] = c
    BY DEF TypeOK
  <2>2. work[c] = "none" /\ enumerated[c] = 0
    BY DEF TypeOK, Unprobed, ProbedOnce
  <2>3. QED
    BY SMTT(30), <2>1, <2>2 DEF Line
<1>4. Pooled'
  BY DEF Pooled, Running
<1>5. Counted'
  <2>1. Cardinality(accepted') = Cardinality(accepted) + 1 /\ Cardinality(accepted) \in Nat
    BY Finite DEF TypeOK
  <2>2. ASSUME NEW k \in {"file", "directory"}
        PROVE  /\ Cardinality(OfKind(k)) \in Nat
               /\ Cardinality(OfKind(k)') = Cardinality(OfKind(k)) + IF Kind[c] = k THEN 1 ELSE 0
    <3>1. OfKind(k) \in SUBSET Res /\ c \notin OfKind(k)
      BY DEF TypeOK, OfKind
    <3>2. OfKind(k)' = IF Kind[c] = k THEN OfKind(k) \cup {c} ELSE OfKind(k)
      BY DEF OfKind
    <3>3. /\ Cardinality(OfKind(k)) \in Nat
          /\ Cardinality(OfKind(k) \cup {c}) = Cardinality(OfKind(k)) + 1
      BY <3>1, Finite
    <3>4. QED
      BY <3>2, <3>3
  <2>3. /\ fileCount' = Cardinality(OfKind("file")') /\ fileCount' <= MaxFiles
        /\ fileCount \in Nat
    BY <2>2 DEF Counted, TypeOK
  <2>4. /\ directoryCount' = Cardinality(OfKind("directory")') /\ directoryCount' <= MaxDirectories
        /\ directoryCount \in Nat
    BY SMTT(30), <2>2 DEF Counted, TypeOK
  <2>5. QED
    BY <2>1, <2>3, <2>4 DEF Counted
<1>6. Offered' /\ Unprobed' /\ ProbedOnce'
  BY DEF TypeOK, Offered, Unprobed, ProbedOnce
<1>7. DiscoveryTree'
  <2>1. /\ depth'[c] = OfferDepth /\ parent'[c] = from
        /\ \A r \in accepted : depth'[r] = depth[r] /\ parent'[r] = parent[r] /\ r # c
    BY DEF TypeOK
  <2>2. from = NoRes => c \in Roots /\ OfferDepth = 0
    BY DEF Offered, OfferDepth
  <2>3. from # NoRes => /\ from \in accepted /\ work[from] = "listed" /\ c \in kids[from]
                        /\ OfferDepth = depth[from] + 1
    BY DEF Offered, OfferDepth
  <2>4. QED
    BY SMTT(30), <1>1, <2>1, <2>2, <2>3 DEF TypeOK, DiscoveryTree
<1>8. QED
  BY <1>2, <1>3, <1>4, <1>5, <1>6, <1>7

LEMMA SubmitInv == ASSUME Inv, Submit PROVE Inv'
<1> DEFINE r == Head(queue)
<1> USE TraversalAssumption DEF Inv, Submit, offerVars
<1>1. /\ queue \in Seq(Res) /\ Len(queue) \in Nat \ {0} /\ r = queue[1] /\ r \in Res
      /\ Len(queue') = Len(queue) - 1
      /\ \A i \in 1..Len(queue') : queue'[i] = queue[i + 1]
  BY DEF TypeOK
<1>2. r \in accepted /\ work[r] = "none" /\ enumerated[r] = 0
  BY <1>1 DEF Line
<1>3. TypeOK'
  BY SMTT(30), <1>1 DEF TypeOK, Status, Work
<1>4. Line'
  <2>1. \A i \in 1..Len(queue') : queue'[i] # r /\ queue'[i] \in Res
    BY <1>1, <1>2 DEF Line, TypeOK
  <2>2. QED
    BY SMTT(30), <1>1, <2>1 DEF Line, TypeOK
<1>5. Pooled'
  <2>1. Cardinality(futures') <= MaxWorkers
    <3>1. /\ futures' = futures \cup {r} /\ futures \in SUBSET Res
          /\ Cardinality(futures) < MaxWorkers
      BY DEF TypeOK
    <3>2. /\ Cardinality(futures) \in Nat
          /\ Cardinality(futures \cup {r}) = Cardinality(futures) + IF r \in futures THEN 0 ELSE 1
      BY <1>1, <3>1, Finite
    <3>3. QED
      BY <3>1, <3>2
  <2>2. QED
    BY <1>1, <1>2, <2>1 DEF Pooled, Running, TypeOK
<1>6. Counted' /\ Unprobed'
  BY <1>1, <1>2 DEF Counted, OfKind, Unprobed, TypeOK
<1>7. Offered' /\ ProbedOnce' /\ DiscoveryTree'
  BY SMTT(30), <1>1, <1>2 DEF Offered, ProbedOnce, DiscoveryTree, TypeOK
<1>8. QED
  BY <1>3, <1>4, <1>5, <1>6, <1>7

LEMMA ReapInv == ASSUME Inv, NEW r \in Res, Reap(r) PROVE Inv'
<1> USE TraversalAssumption DEF Inv, Reap, Pop, offerVars
<1>1. Verdict(r) \in Status
  BY DEF Verdict, Status, TypeOK
<1>2. TypeOK'
  BY <1>1 DEF TypeOK, Listing
<1>3. Line' /\ Counted' /\ Unprobed'
  BY DEF Line, Counted, OfKind, Unprobed
<1>4. Pooled'
  <2>1. Cardinality(futures') <= Cardinality(futures) /\ Cardinality(futures') \in Nat
        /\ Cardinality(futures) \in Nat
    BY Finite DEF TypeOK
  <2>2. QED
    BY <2>1 DEF Pooled, Running, TypeOK
<1>5. Offered' /\ ProbedOnce' /\ DiscoveryTree'
  BY DEF Offered, Listing, Pooled, ProbedOnce, DiscoveryTree, TypeOK
<1>6. QED
  BY <1>2, <1>3, <1>4, <1>5

LEMMA EnumerateInv == ASSUME Inv, NEW r \in Res, Enumerate(r) PROVE Inv'
<1> USE TraversalAssumption DEF Inv, Enumerate, offerVars
<1>1. TypeOK'
  BY DEF TypeOK, Status, Work
<1>2. Line' /\ Pooled'
  BY SMTT(30) DEF TypeOK, Line, Pooled, Running
<1>3. Counted' /\ Offered' /\ Unprobed'
  BY SMTT(30) DEF TypeOK, Counted, OfKind, Offered, Unprobed, Pooled, Running
<1>4. ProbedOnce' /\ DiscoveryTree'
  BY DEF TypeOK, ProbedOnce, DiscoveryTree
<1>5. QED
  BY <1>1, <1>2, <1>3, <1>4

LEMMA OtherInv ==
  ASSUME Inv, \/ OffersMade \/ Wait \/ Return \/ UNCHANGED vars
              \/ \E c \in Res : Reject(c)
  PROVE  Inv'
<1> USE TraversalAssumption DEF Inv, OffersMade, Wait, Return, Reject, Offer, offerVars, vars
<1>1. TypeOK'
  BY ZenonT(30) DEF TypeOK, Status
<1>2. Line' /\ Counted' /\ Unprobed'
  BY DEF Line, Counted, OfKind, Unprobed
<1>3. Pooled'
  BY DEF Pooled, Running, TypeOK
<1>4. Offered' /\ ProbedOnce' /\ DiscoveryTree'
  BY DEF Offered, ProbedOnce, DiscoveryTree
<1>5. QED
  BY <1>1, <1>2, <1>3, <1>4

LEMMA StepInv == Inv /\ [Next]_vars => Inv'
BY AcceptInv, SubmitInv, ReapInv, EnumerateInv, OtherInv DEF Next, Main, Over

LEMMA Always == Spec => []Inv
BY InitInv, StepInv, PTL DEF Spec

-----------------------------------------------------------------------------
(* Every variable keeps its type. *)
THEOREM Typing == Spec => []TypeOK
<1>1. Inv => TypeOK
  BY DEF Inv
<1>2. QED
  BY <1>1, Always, PTL

(* The task, file, directory and pool limits hold in every reachable state. *)
THEOREM Limits == Spec => []LimitsHold
<1>1. Inv => LimitsHold
  <2> SUFFICES ASSUME Inv PROVE LimitsHold
    OBVIOUS
  <2>1. Running \in SUBSET futures
    BY DEF Inv, Pooled
  <2>2. /\ Cardinality(Running) <= Cardinality(futures)
        /\ Cardinality(Running) \in Nat /\ Cardinality(futures) \in Nat
    <3>1. CASE futures = {}
      BY <3>1, <2>1, FS_EmptySet
    <3>2. CASE futures # {}
      BY <3>2, <2>1, Finite DEF Inv, TypeOK
    <3>3. QED
      BY <3>1, <3>2
  <2>3. Cardinality(Running) <= MaxWorkers
    BY <2>2, TraversalAssumption DEF Inv, Pooled
  <2>4. QED
    BY <2>3 DEF Inv, Counted, LimitsHold, Running
<1>2. QED
  BY <1>1, Always, PTL

(* Recorded parents and depths form a bounded tree of listed resources,     *)
(* whatever cycles the namespace has.                                       *)
THEOREM Tree == Spec => []DiscoveryTree
<1>1. Inv => DiscoveryTree
  BY DEF Inv
<1>2. QED
  BY <1>1, Always, PTL

(* No resource is probed twice.                                             *)
THEOREM NoSecondProbe == Spec => []ProbedOnce
<1>1. Inv => ProbedOnce
  BY DEF Inv
<1>2. QED
  BY <1>1, Always, PTL
-----------------------------------------------------------------------------
(* What becomes of an accepted resource: it waits in the queue, is probed   *)
(* once, and has the status of its probe when it is reaped.                 *)
Settled ==
  /\ pc # "offer" => offers = {}
  /\ pc = "returned" => queue = <<>> /\ futures = {}
  /\ \A r \in futures : work[r] # "none"
  /\ \A r \in accepted :
       /\ work[r] = "none" => status[r] = "QUEUED" /\ \E i \in 1..Len(queue) : queue[i] = r
       /\ work[r] # "none" => enumerated[r] = 1
       /\ status[r] = "RUNNING" => r \in futures
       /\ work[r] = "running" => status[r] = "RUNNING"
       /\ work[r] = "listed" => status[r] \in {"RUNNING", "SUCCESS"}
       /\ work[r] = "raised" => status[r] \in {"RUNNING", "FAILED"}
       /\ work[r] = "denied" => status[r] \in {"INACCESSIBLE", "FAILED"}

(* Why a child need not be accepted, and that every child of a resource     *)
(* that was reaped is accepted, excused or still to be offered.             *)
Excused(r, c) ==
  \/ c \in accepted \cup Blocked \/ depth[r] = MaxDepth
  \/ Cardinality(accepted) = MaxTasks
  \/ Kind[c] = "file" /\ fileCount = MaxFiles
  \/ Kind[c] = "directory" /\ directoryCount = MaxDirectories

Followed == \A r \in accepted : \A c \in kids[r] :
  work[r] = "listed" /\ r \notin futures => Excused(r, c) \/ (from = r /\ c \in offers)

LEMMA SettledStep ==
  ASSUME Inv, Settled, [Next]_vars
  PROVE  Settled'
<1> USE DEF Inv, TypeOK
<1>1. ASSUME NEW c \in Res, Accept(c) PROVE Settled'
  <2>1. c \notin accepted /\ work[c] = "none"
    BY <1>1 DEF Accept, Acceptable, Unprobed
  <2>2. /\ Len(queue') = Len(queue) + 1 /\ queue'[Len(queue) + 1] = c
        /\ \A i \in 1..Len(queue) : queue'[i] = queue[i]
    BY <1>1 DEF Accept
  <2>3. status'[c] = "QUEUED" /\ \A r \in accepted : status'[r] = status[r]
    BY <1>1, <2>1 DEF Accept
  <2>4. \A r \in accepted' : work[r] = "none" => \E i \in 1..Len(queue') : queue'[i] = r
    <3>1. ASSUME NEW r \in accepted, work[r] = "none"
          PROVE  \E i \in 1..Len(queue') : queue'[i] = r
      <4>1. PICK i \in 1..Len(queue) : queue[i] = r
        BY <3>1 DEF Settled
      <4>2. i \in 1..Len(queue') /\ queue'[i] = r
        BY <2>2, <4>1
      <4>3. QED
        BY <4>2
    <3>2. Len(queue) + 1 \in 1..Len(queue') /\ queue'[Len(queue) + 1] = c
      BY <2>2
    <3>3. QED
      BY <1>1, <3>1, <3>2 DEF Accept
  <2>5. QED
    BY ZenonT(30), <1>1, <2>1, <2>3, <2>4 DEF Accept, Offer, Settled
<1>2. ASSUME NEW c \in Res, Reject(c) PROVE Settled'
  <2>1. \A r \in accepted : status'[r] = status[r]
    BY <1>2 DEF Reject
  <2>2. /\ pc = "offer" /\ pc' = "offer" /\ queue' = queue /\ work' = work
        /\ futures' = futures /\ accepted' = accepted /\ enumerated' = enumerated
    BY <1>2 DEF Reject, Offer, offerVars
  <2>3. QED
    BY <2>1, <2>2 DEF Settled
<1>3. CASE Submit
  <2> DEFINE h == Head(queue)
  <2>1. h = queue[1] /\ h \in accepted /\ h \in Res /\ enumerated[h] = 0
    BY <1>3 DEF Submit, Line
  <2>2. /\ work'[h] = "running" /\ status'[h] = "RUNNING" /\ enumerated'[h] = 1 /\ h \in futures'
        /\ \A r \in accepted \ {h} : /\ work'[r] = work[r] /\ status'[r] = status[r]
                                    /\ enumerated'[r] = enumerated[r]
                                    /\ r \in futures => r \in futures'
    BY <1>3, <2>1 DEF Submit
  <2>3. ASSUME NEW r \in accepted \ {h}, work[r] = "none"
        PROVE  \E i \in 1..Len(queue') : queue'[i] = r
    <3>1. PICK i \in 1..Len(queue) : queue[i] = r
      BY <2>3 DEF Settled
    <3>2. i # 1
      BY <2>1, <2>3, <3>1
    <3>3. i - 1 \in 1..Len(queue') /\ queue'[i - 1] = queue[i]
      BY <1>3, <3>1, <3>2 DEF Submit
    <3>4. QED
      BY <3>1, <3>3
  <2>4. QED
    BY <1>3, <2>2, <2>3 DEF Submit, offerVars, Settled
<1>4. ASSUME NEW r \in Res, Reap(r) PROVE Settled'
  <2>1. r \in accepted /\ work[r] \notin {"none", "running"} /\ status'[r] = Verdict(r)
    <3>1. r \in done /\ r \in accepted /\ work[r] # "running"
      BY <1>4 DEF Reap, Pop, Pooled
    <3>2. work[r] # "none"
      BY <1>4 DEF Reap, Pop, Pooled, Settled
    <3>3. QED
      BY <1>4, <3>1, <3>2 DEF Reap
  <2>2. QED
    BY <1>4, <2>1 DEF Reap, Pop, Verdict, offerVars, Settled, Work
<1>5. ASSUME NEW r \in Res, Enumerate(r) PROVE Settled'
  <2>1. r \in accepted /\ r \in futures /\ work[r] = "running" /\ status[r] = "RUNNING"
    BY <1>5 DEF Enumerate, Pooled, Running, Settled
  <2>2. QED
    BY <1>5, <2>1 DEF Enumerate, offerVars, Settled
<1>6. CASE OffersMade \/ Wait \/ Return \/ UNCHANGED vars
  <2>1. CASE OffersMade
    BY <2>1 DEF OffersMade, offerVars, Settled
  <2>2. CASE Wait
    BY <2>2 DEF Wait, offerVars, Settled
  <2>3. CASE Return
    BY <2>3 DEF Return, offerVars, Settled
  <2>4. CASE UNCHANGED vars
    BY <2>4 DEF vars, offerVars, Settled
  <2>5. QED
    BY <1>6, <2>1, <2>2, <2>3, <2>4
<1>7. QED
  BY <1>1, <1>2, <1>3, <1>4, <1>5, <1>6 DEF Next, Main, Over

LEMMA FollowedStep ==
  ASSUME Inv, Settled, Followed, [Next]_vars
  PROVE  Followed'
<1> USE DEF Inv, TypeOK
<1>1. ASSUME NEW c \in Res, Accept(c) PROVE Followed'
  <2>1. /\ c \notin accepted /\ accepted' = accepted \cup {c} /\ work[c] = "none"
        /\ \A r \in accepted : depth'[r] = depth[r]
    BY <1>1 DEF Accept, Acceptable, Unprobed
  <2>2. ASSUME NEW r \in accepted, NEW d \in kids[r], Excused(r, d)
        PROVE  Excused(r, d)'
    <3>1. Cardinality(accepted) # MaxTasks /\ d \in Res /\ depth'[r] = depth[r]
      BY <1>1, <2>1, TraversalAssumption DEF Accept, Acceptable
    <3>2. Kind[d] = "file" /\ fileCount = MaxFiles => fileCount' = fileCount
      BY <1>1, TraversalAssumption DEF Accept, Acceptable
    <3>3. Kind[d] = "directory" /\ directoryCount = MaxDirectories => directoryCount' = directoryCount
      BY <1>1, TraversalAssumption DEF Accept, Acceptable
    <3>4. QED
      BY <2>1, <2>2, <3>1, <3>2, <3>3 DEF Excused
  <2>3. QED
    BY <1>1, <2>1, <2>2 DEF Accept, Offer, Followed, Excused
<1>2. ASSUME NEW c \in Res, Reject(c) PROVE Followed'
  <2>1. ASSUME NEW r \in accepted, from = r PROVE Excused(r, c)
    <3>1. r # NoRes /\ OfferDepth = depth[r] + 1 /\ depth[r] <= MaxDepth
      BY <2>1, TraversalAssumption DEF OfferDepth, DiscoveryTree
    <3>2. /\ {fileCount, directoryCount, depth[r], Cardinality(accepted)} \subseteq Nat
          /\ {MaxDepth, MaxTasks, MaxFiles, MaxDirectories} \subseteq Nat
          /\ Cardinality(accepted) <= MaxTasks /\ fileCount <= MaxFiles
          /\ directoryCount <= MaxDirectories
      <4>1. accepted \in SUBSET Res /\ r \in Res /\ depth[r] \in Nat
        BY <2>1
      <4>2. Cardinality(accepted) \in Nat
        BY <4>1, Finite
      <4>3. QED
        BY <4>1, <4>2, TraversalAssumption DEF Counted
    <3>3. \/ c \in accepted \cup Blocked \/ ~(OfferDepth <= MaxDepth)
          \/ ~(Cardinality(accepted) < MaxTasks)
          \/ Kind[c] = "file" /\ ~(fileCount < MaxFiles)
          \/ Kind[c] = "directory" /\ ~(directoryCount < MaxDirectories)
      BY <1>2 DEF Reject, Acceptable
    <3>4. QED
      BY <3>1, <3>2, <3>3 DEF Excused
  <2>2. QED
    BY <1>2, <2>1 DEF Reject, Offer, offerVars, Followed, Excused
<1>3. CASE Submit
  <2>1. queue[1] = Head(queue) /\ work'[Head(queue)] = "running"
        /\ \A r \in accepted : r # Head(queue) => work'[r] = work[r]
    BY <1>3 DEF Submit, Line
  <2>2. QED
    BY <1>3, <2>1 DEF Submit, offerVars, Followed, Excused
<1>4. ASSUME NEW r \in Res, Reap(r) PROVE Followed'
  BY <1>4 DEF Reap, Pop, Listing, Settled, offerVars, Followed, Excused
<1>5. ASSUME NEW r \in Res, Enumerate(r) PROVE Followed'
  <2>1. r \in futures
    BY <1>5 DEF Enumerate, Pooled, Running
  <2>2. QED
    BY <1>5, <2>1 DEF Enumerate, offerVars, Followed, Excused
<1>6. CASE OffersMade \/ Wait \/ Return \/ UNCHANGED vars
  BY <1>6 DEF OffersMade, Wait, Return, vars, offerVars, Followed, Excused
<1>7. QED
  BY <1>1, <1>2, <1>3, <1>4, <1>5, <1>6 DEF Next, Main, Over

LEMMA AlwaysSettled == Spec => []Settled
<1>1. Init => Settled
  BY DEF Init, Settled
<1>2. QED
  BY <1>1, Always, SettledStep, PTL DEF Spec

(* When traverse() returns, nothing that the limits let through was missed, *)
(* for every finite namespace, whatever fails and in whatever order.        *)
THEOREM NothingMissed == Spec => []Complete
<1>1. Init => Followed
  BY DEF Init, Followed
<1>2. Inv /\ Settled /\ Followed => Complete
  <2> SUFFICES ASSUME Inv, Settled, Followed, pc = "returned", NEW r \in accepted
               PROVE  /\ enumerated[r] = 1
                      /\ status[r] \in CASE work[r] = "listed" -> {"SUCCESS"} [] work[r] = "raised" -> {"FAILED"}
                                          [] OTHER -> {"INACCESSIBLE", "FAILED"}
                      /\ work[r] = "listed" => \A c \in kids[r] : Excused(r, c)
    BY DEF Complete, Excused
  <2>1. queue = <<>> /\ futures = {} /\ offers = {}
    BY DEF Settled
  <2>2. work[r] \notin {"none", "running"} /\ work[r] \in Work /\ status[r] # "RUNNING"
    BY <2>1 DEF Settled, Inv, TypeOK
  <2>3. QED
    BY <2>1, <2>2 DEF Settled, Followed, Work
<1>3. QED
  BY <1>1, <1>2, Always, AlwaysSettled, FollowedStep, PTL DEF Spec

-----------------------------------------------------------------------------
(* The modules traverse as ResourceTraversal allows: whatever a probe of    *)
(* SMB, FTP or LDAP does is one of its enumerations.                        *)
THEOREM Traverses == EnumSpec => Spec
<1>1. EnumInit => Init
  BY DEF EnumInit
<1>2. [EnumNext]_enumVars => [Next]_vars
  BY DEF EnumNext, Rest, Probe, Next, enumVars
<1>3. QED
  BY <1>1, <1>2, PTL DEF EnumSpec, Spec

(* What was asked, and that only containers that answered list anything.    *)
Asked ==
  /\ service \in {"smb", "ftp", "ldap"}
  /\ \A r \in Res : kids[r] = {} \/ Container(r)
  /\ answer \in [Res -> Answer \cup {NoAnswer}]
  /\ \A r \in Res : answer[r] \in Answers(r) \cup {NoAnswer}
  /\ \A r \in Res : work[r] = "listed" /\ Container(r) => answer[r].ok

LEMMA AskedInit == EnumInit => Asked
BY EnumerationAssumption DEF EnumInit, Asked, Init, NoAnswer

LEMMA AskedStep ==
  ASSUME Asked, TypeOK, [EnumNext]_enumVars
  PROVE  Asked'
<1>1. ASSUME NEW r \in Res, Probe(r) PROVE Asked'
  <2>1. PICK a \in IF NeedsCommand(r) THEN Answers(r) ELSE {NoAnswer} :
          \/ /\ Fate(work'[r], status'[r]) = FateOf(r, a)
             /\ answer' = [answer EXCEPT ![r] = a]
          \/ /\ work'[r] = "raised"
             /\ answer' = [answer EXCEPT ![r] = IF a.file THEN a ELSE NoAnswer]
    BY <1>1 DEF Probe
  <2>0. a \in Answers(r) \cup {NoAnswer} /\ a \in Answer \cup {NoAnswer} /\ a.ok \in BOOLEAN
    <3>1. a \in Answers(r) \cup {NoAnswer}
      BY <2>1
    <3>2. a \in Answer \cup {NoAnswer}
      BY <3>1 DEF Answers
    <3>3. a.ok \in BOOLEAN
      <4>1. CASE a \in Answer
        BY <4>1, Zenon DEF Answer
      <4>2. CASE a = NoAnswer
        BY <4>2, Zenon DEF NoAnswer
      <4>3. QED
        BY <3>2, <4>1, <4>2
    <3>4. QED
      BY <3>1, <3>2, <3>3
  <2>2. /\ kids' = kids /\ service' = service
        /\ \A t \in Res \ {r} : work'[t] = work[t] /\ answer'[t] = answer[t]
    BY <1>1, <2>1 DEF Probe, Enumerate, TypeOK, Asked
  <2>3. answer'[r] \in Answers(r) \cup {NoAnswer}
        /\ answer' \in [Res -> Answer \cup {NoAnswer}]
    BY <2>0, <2>1 DEF Asked
  <2>4. work'[r] = "listed" /\ Container(r) => answer'[r].ok
    <3> SUFFICES ASSUME work'[r] = "listed", Container(r) PROVE a.ok /\ answer'[r] = a
      BY DEF Fate
    <3>1. Fate(work'[r], status'[r]) = FateOf(r, a) /\ answer'[r] = a
      BY <2>1 DEF Asked
    <3>2. FateOf(r, a).work = "listed"
      BY <3>1 DEF Fate
    <3>3. NeedsCommand(r) /\ (service = "smb" => Kind[r] # "file")
      BY DEF NeedsCommand, Container
    <3>4. QED
      BY <2>0, <3>1, <3>2, <3>3 DEF FateOf, SmbFate, FtpFate, LdapFate, Fate, Asked
  <2>5. \A t \in Res : Answers(t)' = Answers(t) /\ Container(t)' = Container(t)
    BY <2>2 DEF Answers, Container
  <2>6. QED
    BY <2>2, <2>3, <2>4, <2>5 DEF Asked
<1>2. CASE Rest \/ UNCHANGED enumVars
  <2>1. kids' = kids /\ service' = service /\ answer' = answer
    BY <1>2 DEF Rest, Main, OffersMade, Submit, Wait, Return, Accept, Reject, Reap, Offer, Pop, Over,
                vars, enumVars
  <2>2. \A t \in Res : work'[t] = "listed" => work[t] = "listed"
    BY <1>2 DEF Rest, Main, OffersMade, Submit, Wait, Return, Accept, Reject, Reap, Offer, Pop, Over,
                vars, enumVars, TypeOK
  <2>3. QED
    BY <2>1, <2>2 DEF Asked, Answers, Container
<1>3. QED
  BY <1>1, <1>2 DEF EnumNext

(* The records of access never claim more than the commands brought, for    *)
(* every namespace, limit and answer.                                       *)
THEOREM Records == EnumSpec => []RecordTrue
<1>1. Asked /\ DiscoveryTree /\ TypeOK => RecordTrue
  <2> SUFFICES ASSUME Asked, DiscoveryTree, TypeOK, NEW r \in accepted
               PROVE  LET a == answer[r]
                          up == IF parent[r] = NoRes THEN NoAnswer ELSE answer[parent[r]]
                      IN /\ Record(r).list = "YES" => (a.ok /\ a.text = "plain") \/ (service = "ldap" /\ up.ok)
                         /\ Record(r).read = "YES" => a.ok \/ (service = "ldap" /\ up.ok)
                         /\ Record(r).auth = "TRUE" => "refused" \in {a.text, up.text}
                         /\ parent[r] # NoRes => up.ok
                         /\ ~ProbeBlocked(r)
    BY DEF RecordTrue
  <2> DEFINE a == answer[r]
             up == IF parent[r] = NoRes THEN NoAnswer ELSE answer[parent[r]]
  <2>1. r \in Res /\ a \in Answers(r) \cup {NoAnswer}
    BY DEF Asked, TypeOK
  <2>2. parent[r] # NoRes => up.ok
    <3> SUFFICES ASSUME parent[r] # NoRes PROVE answer[parent[r]].ok
      OBVIOUS
    <3>1. parent[r] \in accepted /\ work[parent[r]] = "listed" /\ r \in kids[parent[r]]
      BY DEF DiscoveryTree
    <3>2. parent[r] \in Res /\ Container(parent[r])
      BY <3>1 DEF Asked, TypeOK
    <3>3. QED
      BY <3>1, <3>2 DEF Asked
  <2>3. /\ Fresh(r).list = "YES" => service = "ldap" /\ up.ok
        /\ Fresh(r).read = "YES" => service = "ldap" /\ up.ok
        /\ Fresh(r).read # "NO"
        /\ Fresh(r).auth = "TRUE" => service # "ldap" /\ up.text = "refused"
    BY <2>2 DEF Fresh, RootRecord, SmbChild, FtpChild, LdapChild, SmbAccess, FtpAccess, Refused, Access,
                Asked
  <2> DEFINE Claims(rec) ==
        /\ rec.list = "YES" => (a.ok /\ a.text = "plain") \/ (service = "ldap" /\ up.ok)
        /\ rec.read = "YES" => a.ok \/ (service = "ldap" /\ up.ok)
        /\ rec.auth = "TRUE" => "refused" \in {a.text, up.text}
  <2>4. Claims(Fresh(r))
    BY <2>3
  <2>5. /\ a # NoAnswer => a.text \in {"plain", "refused", "missing"}
        /\ a # NoAnswer /\ a.text = "missing" => service = "smb"
        /\ a.file => a.ok
    <3>1. CASE a = NoAnswer
      BY <3>1 DEF NoAnswer
    <3>2. CASE a # NoAnswer
      <4>1. a \in Answer /\ (a.file => a.ok) /\ (a.text = "missing" => service = "smb")
        BY <2>1, <3>2 DEF Answers
      <4>2. a.text \in {"plain", "refused", "missing"}
        BY <4>1, Zenon DEF Answer
      <4>3. QED
        BY <4>1, <4>2
    <3>3. QED
      BY <3>1, <3>2
  <2>6. a # NoAnswer => Claims(SmbAccess(a)) /\ Claims(SmbFile(a, Fresh(r)))
    BY <2>4, <2>5 DEF SmbAccess, SmbFile, Refused, Access
  <2>7. a # NoAnswer /\ service = "ftp" => Claims(FtpAccess(a)) /\ Claims(FtpFile(a, Fresh(r)))
    BY <2>4, <2>5 DEF FtpAccess, FtpFile, Refused, Access
  <2>8. a # NoAnswer /\ service = "ldap" => Claims(LdapAccess(a, Fresh(r)))
    BY <2>4, <2>5 DEF LdapAccess, Refused, Access
  <2>9. Claims(Record(r))
    BY <2>4, <2>6, <2>7, <2>8 DEF Record, Asked
  <2>10. ~ProbeBlocked(r)
    BY <2>3 DEF ProbeBlocked
  <2>11. QED
    BY <2>2, <2>9, <2>10
<1>2. Asked /\ TypeOK /\ [EnumNext]_enumVars => Asked'
  BY AskedStep
<1>3. QED
  BY <1>1, <1>2, AskedInit, Traverses, Typing, Tree, PTL DEF EnumSpec
-----------------------------------------------------------------------------
(* A probe over has the work and the status its answer calls for.           *)
Judged == \A r \in accepted :
  LET a == answer[r] IN
  /\ work[r] = "listed" => a.ok \/ ~NeedsCommand(r) \/ (service = "smb" /\ Kind[r] = "file")
  /\ work[r] = "denied" =>
       /\ status[r] = "INACCESSIBLE" => a.text = "refused" \/ (service = "ftp" /\ ~a.ok)
       /\ status[r] = "FAILED" => ~a.ok /\ a.text # "refused"

LEMMA JudgedStep ==
  ASSUME Inv, Settled, Asked, Judged, [EnumNext]_enumVars
  PROVE  Judged'
<1> USE DEF Inv, TypeOK
<1>1. ASSUME NEW r \in Res, Probe(r) PROVE Judged'
  <2>1. PICK a \in IF NeedsCommand(r) THEN Answers(r) ELSE {NoAnswer} :
          \/ /\ Fate(work'[r], status'[r]) = FateOf(r, a)
             /\ answer' = [answer EXCEPT ![r] = a]
          \/ work'[r] = "raised"
    BY <1>1 DEF Probe
  <2>2. /\ service' = service /\ accepted' = accepted
        /\ \A t \in accepted \ {r} : work'[t] = work[t] /\ status'[t] = status[t] /\ answer'[t] = answer[t]
        /\ \A t \in Res : NeedsCommand(t)' = NeedsCommand(t)
    BY <1>1 DEF Probe, Enumerate, offerVars, Asked, NeedsCommand, Container
  <2>3. CASE work'[r] # "raised"
    <3>1. answer'[r] = a /\ Fate(work'[r], status'[r]) = FateOf(r, a)
      BY <2>1, <2>3 DEF Asked
    <3>2. work'[r] = FateOf(r, a).work /\ status'[r] = FateOf(r, a).status
      BY <3>1 DEF Fate
    <3>3. NeedsCommand(r) => a.text \in {"plain", "refused", "missing"} /\ a.ok \in BOOLEAN
      <4> SUFFICES ASSUME NeedsCommand(r) PROVE a.text \in {"plain", "refused", "missing"} /\ a.ok \in BOOLEAN
        OBVIOUS
      <4>1. a \in Answer
        BY <2>1 DEF Answers
      <4>2. QED
        BY <4>1, Zenon DEF Answer
    <3>4. /\ work'[r] = "listed" => a.ok \/ ~NeedsCommand(r) \/ (service = "smb" /\ Kind[r] = "file")
          /\ work'[r] = "denied" =>
               /\ status'[r] = "INACCESSIBLE" => a.text = "refused" \/ (service = "ftp" /\ ~a.ok)
               /\ status'[r] = "FAILED" => ~a.ok /\ a.text # "refused"
      BY <3>2, <3>3 DEF FateOf, SmbFate, FtpFate, LdapFate, Fate, SmbAccess, Refused, Access, Asked
    <3>5. QED
      BY ZenonT(30), <2>2, <3>1, <3>4 DEF Judged
  <2>4. QED
    BY <2>2, <2>3 DEF Judged
<1>2. CASE Rest
  <2>1. answer' = answer /\ service' = service /\ \A t \in Res : NeedsCommand(t)' = NeedsCommand(t)
    BY <1>2 DEF Rest, NeedsCommand, Container
  <2>2. ASSUME NEW t \in accepted', work'[t] \in {"listed", "denied"}
        PROVE  t \in accepted /\ work'[t] = work[t] /\ (work[t] = "denied" => status'[t] = status[t])
    <3>1. ASSUME NEW c \in Res, Accept(c) PROVE t \in accepted /\ work'[t] = work[t] /\ status'[t] = status[t]
      BY <2>2, <3>1 DEF Accept, Acceptable, Unprobed
    <3>2. ASSUME NEW c \in Res, Reject(c) PROVE t \in accepted /\ work'[t] = work[t] /\ status'[t] = status[t]
      BY <3>2 DEF Reject, offerVars
    <3>3. CASE Submit
      BY <2>2, <3>3 DEF Submit, Line, offerVars
    <3>4. ASSUME NEW c \in Res, Reap(c)
          PROVE  t \in accepted /\ work'[t] = work[t] /\ (work[t] = "denied" => status'[t] = status[t])
      BY ZenonT(30), <3>4 DEF Reap, offerVars, Verdict, Settled
    <3>5. CASE OffersMade \/ Wait \/ Return \/ Over
      BY <3>5 DEF OffersMade, Wait, Return, Over, vars, offerVars
    <3>6. QED
      BY <1>2, <3>1, <3>2, <3>3, <3>4, <3>5 DEF Rest, Main
  <2>3. QED
    BY <2>1, <2>2 DEF Judged
<1>3. CASE UNCHANGED enumVars
  BY <1>3 DEF enumVars, vars, offerVars, Judged, NeedsCommand, Container
<1>4. QED
  BY <1>1, <1>2, <1>3 DEF EnumNext

(* The verdicts of the SMB, FTP and LDAP modules fit the commands they ran, *)
(* for every namespace, limit and answer.                                   *)
THEOREM Verdicts == EnumSpec => []VerdictTrue
<1>1. EnumInit => Judged
  BY DEF EnumInit, Init, Judged
<1>2. Inv /\ Settled /\ Asked /\ Judged => VerdictTrue
  <2> SUFFICES ASSUME Inv, Settled, Asked, Judged, pc = "returned" PROVE VerdictTrue
    BY DEF VerdictTrue
  <2>1. ASSUME NEW r \in accepted
        PROVE  LET a == answer[r] IN
               /\ status[r] = "SUCCESS" => a.ok \/ ~NeedsCommand(r) \/ (service = "smb" /\ Kind[r] = "file")
               /\ status[r] = "INACCESSIBLE" => a.text = "refused" \/ (service = "ftp" /\ ~a.ok)
               /\ status[r] = "FAILED" => work[r] = "raised" \/ (~a.ok /\ a.text # "refused")
    <3>1. work[r] \in Work
      BY DEF Inv, TypeOK
    <3>2. QED
      BY <3>1 DEF Work, Settled, Judged
  <2>2. ASSUME service = "ldap"
        PROVE  DirectoryRead <=> /\ \E r \in accepted : answer[r].ok /\ answer[r].text = "plain"
                                 /\ \A r \in accepted : answer[r].text # "refused"
    <3>1. ASSUME NEW r \in accepted
          PROVE  /\ Record(r).auth = "TRUE" <=> answer[r].text = "refused"
                 /\ answer[r].ok /\ answer[r].text = "plain" => Record(r).read = "YES"
                 /\ Record(r).read = "YES" /\ answer[r].text # "refused" =>
                      \E t \in accepted : answer[t].ok /\ answer[t].text \in {"plain", "refused"}
      <4>1. Fresh(r) \in {LdapChild, RootRecord} /\ Fresh(r).auth = "FALSE"
            /\ (Fresh(r).read = "YES" => parent[r] # NoRes)
        BY <2>2 DEF Fresh, LdapChild, RootRecord, Access
      <4>2. Record(r) = IF answer[r] = NoAnswer THEN Fresh(r) ELSE LdapAccess(answer[r], Fresh(r))
        BY <2>2 DEF Record
      <4>3. ASSUME NEW t \in accepted, answer[t].ok
            PROVE  answer[t] # NoAnswer /\ answer[t].text \in {"plain", "refused"}
        <5>1. answer[t] # NoAnswer
          BY <4>3 DEF NoAnswer
        <5>2. answer[t] \in Answers(t)
          BY <5>1 DEF Asked, Inv, TypeOK
        <5>3. answer[t] \in Answer /\ answer[t].text # "missing"
          BY <2>2, <5>2 DEF Answers
        <5>4. answer[t].text \in {"plain", "refused", "missing"}
          BY <5>3, Zenon DEF Answer
        <5>5. QED
          BY <5>1, <5>3, <5>4
      <4>4. parent[r] # NoRes => parent[r] \in accepted /\ answer[parent[r]].ok
        <5> SUFFICES ASSUME parent[r] # NoRes PROVE parent[r] \in accepted /\ answer[parent[r]].ok
          OBVIOUS
        <5>1. parent[r] \in accepted /\ work[parent[r]] = "listed" /\ r \in kids[parent[r]]
          BY DEF Inv, DiscoveryTree
        <5>2. QED
          BY <5>1 DEF Asked, Inv, TypeOK
      <4>5. NoAnswer.text = "none"
        BY DEF NoAnswer
      <4>6. LdapAccess(answer[r], Fresh(r)) =
              IF answer[r].text = "refused" THEN Access("NO", "NO", "TRUE")
              ELSE IF answer[r].ok THEN Access("YES", "YES", "FALSE") ELSE Fresh(r)
        BY DEF LdapAccess, Refused
      <4>7. Record(r).auth = "TRUE" <=> answer[r].text = "refused"
        BY <4>1, <4>2, <4>5, <4>6 DEF Access
      <4>8. answer[r].ok /\ answer[r].text = "plain" => Record(r).read = "YES"
        BY <4>2, <4>3, <4>6 DEF Access
      <4>9. Record(r).read = "YES" /\ answer[r].text # "refused" =>
              \E t \in accepted : answer[t].ok /\ answer[t].text \in {"plain", "refused"}
        BY <4>1, <4>2, <4>3, <4>4, <4>6
      <4>10. QED
        BY <4>7, <4>8, <4>9
    <3>2. QED
      BY <3>1 DEF DirectoryRead
  <2>3. QED
    BY <2>1, <2>2 DEF VerdictTrue
<1>3. Inv /\ Settled /\ Asked /\ Judged /\ [EnumNext]_enumVars => Judged'
  BY JudgedStep
<1>4. Asked /\ Inv /\ [EnumNext]_enumVars => Asked'
  BY AskedStep DEF Inv
<1>5. QED
  BY <1>1, <1>2, <1>3, <1>4, AskedInit, Traverses, Always, AlwaysSettled, PTL DEF EnumSpec
=============================================================================
