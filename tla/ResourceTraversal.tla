-------------------------- MODULE ResourceTraversal -------------------------
(***************************************************************************)
(* ResourceTraversal (src/scr/engine/traversal.py): one thread offers       *)
(* resources and reaps futures, a pool enumerates accepted resources.       *)
(* The namespace that enumeration reveals is chosen in Init; a resource is  *)
(* its resource_id, so an id listed by two parents is offered twice.        *)
(***************************************************************************)
EXTENDS Naturals, Sequences, FiniteSets

CONSTANTS Res, Roots, Namespaces,
          Kind,       \* Kind[r]: "file", "directory" or "other"
          Blocked,    \* resources that are probe_blocked when offered
          MaxDepth, MaxTasks, MaxFiles, MaxDirectories, MaxWorkers,
          NoRes       \* no parent

ASSUME TraversalAssumption ==
  /\ IsFiniteSet(Res) /\ Roots \subseteq Res /\ Blocked \subseteq Res /\ NoRes \notin Res
  /\ Namespaces \subseteq [Res -> SUBSET Res]
  /\ Kind \in [Res -> {"file", "directory", "other"}]
  /\ {MaxDepth, MaxTasks, MaxFiles, MaxDirectories, MaxWorkers} \subseteq Nat \ {0}

VARIABLES kids,        \* kids[r]: what enumerating r would list
          accepted,    \* _accepted and _visited, which always agree
          fileCount, directoryCount,
          parent, depth, status,
          queue, futures, done,
          work,        \* work[r]: the pool's work item for r
          offers,      \* resources the main thread has yet to offer
          from,        \* the parent it offers them for
          enumerated,  \* how often the callback was called on r
          pc

offerVars == <<accepted, fileCount, directoryCount, parent, depth>>
vars == <<kids, offerVars, status, queue, futures, done, work, offers, from, enumerated, pc>>

Status == {"DISCOVERED", "QUEUED", "RUNNING", "SUCCESS", "FAILED", "INACCESSIBLE", "SKIPPED"}
Work == {"none", "running", "listed", "denied", "raised"}

TypeOK ==
  /\ kids \in [Res -> SUBSET Res]
  /\ accepted \subseteq Res /\ futures \subseteq Res /\ done \subseteq Res /\ offers \subseteq Res
  /\ fileCount \in Nat /\ directoryCount \in Nat
  /\ parent \in [Res -> Res \cup {NoRes}] /\ from \in Res \cup {NoRes}
  /\ depth \in [Res -> Nat] /\ enumerated \in [Res -> Nat]
  /\ status \in [Res -> Status] /\ work \in [Res -> Work]
  /\ queue \in Seq(Res)
  /\ pc \in {"offer", "fill", "reap", "returned"}

Init ==
  /\ kids \in Namespaces
  /\ accepted = {} /\ fileCount = 0 /\ directoryCount = 0
  /\ parent = [r \in Res |-> NoRes] /\ depth = [r \in Res |-> 0]
  /\ status = [r \in Res |-> "DISCOVERED"] /\ work = [r \in Res |-> "none"]
  /\ queue = <<>> /\ futures = {} /\ done = {}
  /\ offers \in SUBSET Roots /\ from = NoRes
  /\ enumerated = [r \in Res |-> 0]
  /\ pc = "offer"

-----------------------------------------------------------------------------
OfferDepth == IF from = NoRes THEN 0 ELSE depth[from] + 1

(* Definitions named Fault... are plausible bugs that no action uses.       *)
FaultAcceptableTwice(c) ==
  OfferDepth <= MaxDepth /\ c \notin Blocked /\ Cardinality(accepted) < MaxTasks

Acceptable(c) ==
  /\ OfferDepth <= MaxDepth /\ c \notin Blocked
  /\ c \notin accepted /\ Cardinality(accepted) < MaxTasks
  /\ Kind[c] = "file" => fileCount < MaxFiles
  /\ Kind[c] = "directory" => directoryCount < MaxDirectories

Offer(c) == pc = "offer" /\ c \in offers /\ offers' = offers \ {c}

(* offer() takes the lock around all of it; only the main thread calls it.  *)
Accept(c) ==
  /\ Offer(c) /\ Acceptable(c)
  /\ accepted' = accepted \cup {c}
  /\ fileCount' = fileCount + (IF Kind[c] = "file" THEN 1 ELSE 0)
  /\ directoryCount' = directoryCount + (IF Kind[c] = "directory" THEN 1 ELSE 0)
  /\ parent' = [parent EXCEPT ![c] = from]
  /\ depth' = [depth EXCEPT ![c] = OfferDepth]
  /\ status' = [status EXCEPT ![c] = "QUEUED"]
  /\ queue' = Append(queue, c)
  /\ UNCHANGED <<kids, futures, done, work, from, enumerated, pc>>

(* A rejected duplicate is another object: the accepted one is not touched. *)
Reject(c) ==
  /\ Offer(c) /\ ~Acceptable(c)
  /\ status' = [status EXCEPT ![c] = IF c \in accepted THEN @ ELSE "SKIPPED"]
  /\ UNCHANGED <<kids, offerVars, queue, futures, done, work, from, enumerated, pc>>

OffersMade ==
  /\ pc = "offer" /\ offers = {}
  /\ pc' = IF done = {} THEN "fill" ELSE "reap"
  /\ UNCHANGED <<kids, offerVars, status, queue, futures, done, work, offers, from, enumerated>>

(* The pool has max_workers threads, so a submitted item runs at once.      *)
Submit ==
  /\ pc = "fill" /\ queue # <<>> /\ Cardinality(futures) < MaxWorkers
  /\ LET r == Head(queue) IN
       /\ status' = [status EXCEPT ![r] = "RUNNING"]
       /\ work' = [work EXCEPT ![r] = "running"]
       /\ enumerated' = [enumerated EXCEPT ![r] = @ + 1]
       /\ futures' = futures \cup {r}
  /\ queue' = Tail(queue)
  /\ UNCHANGED <<kids, offerVars, done, offers, from, pc>>

Wait ==
  /\ pc = "fill" /\ (queue = <<>> \/ Cardinality(futures) >= MaxWorkers)
  /\ done' = {r \in futures : work[r] # "running"} /\ done' # {}
  /\ pc' = "reap"
  /\ UNCHANGED <<kids, offerVars, status, queue, futures, work, offers, from, enumerated>>

Return ==
  /\ pc = "fill" /\ queue = <<>> /\ futures = {}
  /\ pc' = "returned"
  /\ UNCHANGED <<kids, offerVars, status, queue, futures, done, work, offers, from, enumerated>>

FaultVerdict(r) == IF status[r] = "RUNNING" THEN "SUCCESS" ELSE status[r]
Verdict(r) == IF work[r] = "raised" THEN "FAILED"
              ELSE IF status[r] = "RUNNING" THEN "SUCCESS" ELSE status[r]

(* A callback that raises, or is denied, lists nothing.                     *)
Listing(r) == IF work[r] = "listed" THEN kids[r] ELSE {}

FaultPop(r) == pc = "reap" /\ r \in done /\ done' = done \ {r} /\ UNCHANGED futures
Pop(r) == pc = "reap" /\ r \in done /\ done' = done \ {r} /\ futures' = futures \ {r}

Reap(r) ==
  /\ Pop(r)
  /\ status' = [status EXCEPT ![r] = Verdict(r)]
  /\ offers' = Listing(r) /\ from' = r
  /\ pc' = "offer"
  /\ UNCHANGED <<kids, offerVars, queue, work, enumerated>>

(* enumerate_resource in a pool thread: it lists the resource and may set   *)
(* the status itself, or marks it failed or inaccessible, or raises.        *)
Enumerate(r) ==
  /\ work[r] = "running"
  /\ \E w \in {"listed", "denied", "raised"} :
       /\ work' = [work EXCEPT ![r] = w]
       /\ \E s \in CASE w = "listed" -> {"RUNNING", "SUCCESS"} [] w = "raised" -> {status[r]}
                     [] OTHER -> {"INACCESSIBLE", "FAILED"} :
            status' = [status EXCEPT ![r] = s]
  /\ UNCHANGED <<kids, offerVars, queue, futures, done, offers, from, enumerated, pc>>

-----------------------------------------------------------------------------
Main == \/ OffersMade \/ Submit \/ Wait \/ Return
        \/ \E r \in Res : Accept(r) \/ Reject(r) \/ Reap(r)

Over == pc = "returned" /\ UNCHANGED vars

Next == Main \/ (\E r \in Res : Enumerate(r)) \/ Over

Spec == Init /\ [][Next]_vars

-----------------------------------------------------------------------------
OfKind(k) == {r \in accepted : Kind[r] = k}

(* The limits hold for what was accepted, and the counters offer() checks   *)
(* them with never drift from it.                                           *)
LimitsHold ==
  /\ Cardinality(accepted) <= MaxTasks
  /\ fileCount = Cardinality(OfKind("file")) /\ fileCount <= MaxFiles
  /\ directoryCount = Cardinality(OfKind("directory")) /\ directoryCount <= MaxDirectories
  /\ Cardinality({r \in Res : work[r] = "running"}) <= MaxWorkers

(* Accepted resources form a tree of bounded depth: the recorded parent is  *)
(* an accepted resource whose enumeration listed this one a level above.    *)
DiscoveryTree == \A r \in accepted :
  /\ depth[r] <= MaxDepth
  /\ \/ r \in Roots /\ parent[r] = NoRes /\ depth[r] = 0
     \/ /\ parent[r] \in accepted /\ work[parent[r]] = "listed"
        /\ r \in kids[parent[r]] /\ depth[r] = depth[parent[r]] + 1

(* No resource is probed twice, however often it is listed, and none that   *)
(* was not accepted.                                                        *)
ProbedOnce == \A r \in Res : enumerated[r] <= IF r \in accepted THEN 1 ELSE 0

(* When traverse() returns, every accepted resource was probed and has a    *)
(* verdict that matches its enumeration, and what a listing revealed was    *)
(* accepted unless a limit or a refusal of access excludes it.              *)
Complete == pc = "returned" => \A r \in accepted :
  /\ enumerated[r] = 1
  /\ status[r] \in CASE work[r] = "listed" -> {"SUCCESS"} [] work[r] = "raised" -> {"FAILED"}
                     [] OTHER -> {"INACCESSIBLE", "FAILED"}
  /\ work[r] = "listed" => \A c \in kids[r] :
       \/ c \in accepted \cup Blocked \/ depth[r] = MaxDepth
       \/ Cardinality(accepted) = MaxTasks
       \/ Kind[c] = "file" /\ fileCount = MaxFiles
       \/ Kind[c] = "directory" /\ directoryCount = MaxDirectories

(* traverse() returns, on cyclic namespaces too.                            *)
Termination == <>(pc = "returned")
=============================================================================
