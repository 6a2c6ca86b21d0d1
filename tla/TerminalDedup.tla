--------------------------- MODULE TerminalDedup ----------------------------
(***************************************************************************)
(* TerminalManager.execute (src/scr/core/terminal.py): calls from several   *)
(* threads of one process share the class-level table of active commands,   *)
(* keyed by Task.deduplication_key.  The first call of a key owns it and    *)
(* runs the command, inline commands one at a time; every other call waits  *)
(* for the owner, at most its timeout and 30 s, and copies what it finds.   *)
(* Each call has a task of its own (max_retries is 0 everywhere).  A call   *)
(* that KeyboardInterrupt ends is left out: it ends its process.            *)
(* Definitions named Fault... are plausible bugs that no action uses.       *)
(***************************************************************************)
EXTENDS Naturals, FiniteSets

CONSTANTS Call, Key,
          KeyOf,        \* KeyOf[c]: the deduplication key of c's task
          Inline,       \* the calls run with _inline_lock held (inline_service)
          WaitExpires,  \* event.wait may time out
          None

Ended == {"SUCCESS", "FAILED", "TIMEOUT", "CANCELLED"}

ASSUME DedupAssumption ==
  /\ KeyOf \in [Call -> Key] /\ Inline \subseteq Call
  /\ WaitExpires \in BOOLEAN /\ None \notin Call

VARIABLES pc,
          owner, published,  \* _active[key]: its task, and its state once set
          lock,              \* who holds _inline_lock
          state,             \* Task.state
          ran,               \* calls that ran their command
          output,            \* Task.output_path: "absent", "partial" or "whole"
          seen,              \* the entry a duplicate read: [task, state]
          returned,          \* what execute returned
          expired            \* calls whose wait timed out

table == <<owner, published>>
vars == <<pc, table, lock, state, ran, output, seen, returned, expired>>

TypeOK ==
  /\ pc \in [Call -> {"call", "own", "run", "wrote", "publish", "wait", "look", "decide", "done"}]
  /\ owner \in [Key -> Call \cup {None}]
  /\ published \in [Key -> Ended \cup {"none"}]
  /\ lock \in Inline \cup {None}
  /\ state \in [Call -> Ended \cup {"QUEUED", "RUNNING"}]
  /\ output \in [Call -> {"absent", "partial", "whole"}]
  /\ seen \in [Call -> [task : Call \cup {None}, state : Ended \cup {"none"}]]
  /\ returned \in [Call -> Ended \cup {"none", "QUEUED", "RUNNING", "SKIPPED"}]
  /\ ran \subseteq Call /\ expired \subseteq Call

Init ==
  /\ pc = [c \in Call |-> "call"]
  /\ owner = [k \in Key |-> None] /\ published = [k \in Key |-> "none"]
  /\ lock = None
  /\ state = [c \in Call |-> "QUEUED"] /\ output = [c \in Call |-> "absent"]
  /\ seen = [c \in Call |-> [task |-> None, state |-> "none"]]
  /\ returned = [c \in Call |-> "none"] /\ ran = {} /\ expired = {}

Step(c, a, b) == pc[c] = a /\ pc' = [pc EXCEPT ![c] = b]

-----------------------------------------------------------------------------
FaultOwns(c) == owner[KeyOf[c]] = None \/ published[KeyOf[c]] = "FAILED"
Owns(c) == owner[KeyOf[c]] = None

Claim(c) ==
  /\ Step(c, "call", IF Owns(c) THEN "own" ELSE "wait")
  /\ owner' = IF Owns(c) THEN [owner EXCEPT ![KeyOf[c]] = c] ELSE owner
  /\ UNCHANGED <<published, lock, state, ran, output, seen, returned, expired>>

(* The owner, with the lock if it runs inline.  A command in a terminal of  *)
(* its own leaves the Task.state of this process alone until it has ended.  *)
Start(c) ==
  /\ Step(c, "own", "run")
  /\ IF c \in Inline THEN lock = None /\ lock' = c ELSE UNCHANGED lock
  /\ \E s \in {"RUNNING"} \cup (IF c \in Inline THEN {} ELSE {"QUEUED"}) :
       state' = [state EXCEPT ![c] = s]
  /\ ran' = ran \cup {c}
  /\ UNCHANGED <<table, output, seen, returned, expired>>

Open(c) ==
  /\ pc[c] = "run" /\ output[c] = "absent"
  /\ output' = [output EXCEPT ![c] = "partial"]
  /\ UNCHANGED <<pc, table, lock, state, ran, seen, returned, expired>>

(* run ends; it is FAILED with no output when it could not open the file.  *)
End(c) ==
  /\ Step(c, "run", "wrote")
  /\ \E s \in Ended : /\ output[c] = "absent" => s = "FAILED"
                      /\ state' = [state EXCEPT ![c] = s]
  /\ output' = [output EXCEPT ![c] = IF @ = "partial" THEN "whole" ELSE @]
  /\ UNCHANGED <<table, lock, ran, seen, returned, expired>>

Unlock(c) ==
  /\ Step(c, "wrote", "publish")
  /\ lock' = IF c \in Inline THEN None ELSE lock
  /\ UNCHANGED <<table, state, ran, output, seen, returned, expired>>

FaultPublish(c) ==
  /\ Step(c, "publish", IF state[c] = "FAILED" THEN "own" ELSE "done")
  /\ published' = [published EXCEPT ![KeyOf[c]] = state[c]]
  /\ returned' = [returned EXCEPT ![c] = state[c]]
  /\ UNCHANGED <<owner, lock, state, ran, output, seen, expired>>

(* The finally: the state is stored and the event set under _active_lock.  *)
Publish(c) ==
  /\ Step(c, "publish", "done")
  /\ published' = [published EXCEPT ![KeyOf[c]] = state[c]]
  /\ returned' = [returned EXCEPT ![c] = state[c]]
  /\ UNCHANGED <<owner, lock, state, ran, output, seen, expired>>

-----------------------------------------------------------------------------
(* The duplicates. *)
FaultWake(c) ==
  /\ Step(c, "wait", "look")
  /\ UNCHANGED <<table, lock, state, ran, output, seen, returned, expired>>

Wake(c) ==
  /\ Step(c, "wait", "look") /\ published[KeyOf[c]] # "none"
  /\ UNCHANGED <<table, lock, state, ran, output, seen, returned, expired>>

Expire(c) ==
  /\ WaitExpires /\ Step(c, "wait", "look") /\ published[KeyOf[c]] = "none"
  /\ expired' = expired \cup {c}
  /\ UNCHANGED <<table, lock, state, ran, output, seen, returned>>

Look(c) ==
  /\ Step(c, "look", "decide")
  /\ seen' = [seen EXCEPT ![c] = [task |-> owner[KeyOf[c]], state |-> published[KeyOf[c]]]]
  /\ UNCHANGED <<table, lock, state, ran, output, returned, expired>>

(* state or original.state: the owner's state is read only now. *)
Verdict(c) == IF seen[c].state # "none" THEN seen[c].state ELSE state[seen[c].task]

Copy(c) ==
  /\ Step(c, "decide", "done") /\ output[seen[c].task] # "absent"
  /\ output' = [output EXCEPT ![c] = output[seen[c].task]]
  /\ state' = [state EXCEPT ![c] = Verdict(c)]
  /\ returned' = [returned EXCEPT ![c] = Verdict(c)]
  /\ UNCHANGED <<table, lock, ran, seen, expired>>

NothingToCopy(c) ==
  /\ Step(c, "decide", "done") /\ output[seen[c].task] = "absent"
  /\ returned' = [returned EXCEPT ![c] = "SKIPPED"]
  /\ UNCHANGED <<table, lock, state, ran, output, seen, expired>>

-----------------------------------------------------------------------------
Own(c) == Start(c) \/ Open(c) \/ End(c) \/ Unlock(c) \/ Publish(c)
Duplicate(c) == Wake(c) \/ Look(c) \/ Copy(c) \/ NothingToCopy(c)

Over == (\A c \in Call : pc[c] = "done") /\ UNCHANGED vars

Next == (\E c \in Call : Claim(c) \/ Own(c) \/ Duplicate(c) \/ Expire(c)) \/ Over

Spec == Init /\ [][Next]_vars

(* Threads run, and every command ends (run_pty has a timeout). *)
FairSpec == /\ Spec
            /\ \A c \in Call : /\ WF_vars(Claim(c)) /\ WF_vars(Start(c)) /\ WF_vars(End(c))
                               /\ WF_vars(Unlock(c)) /\ WF_vars(Publish(c))
                               /\ WF_vars(Duplicate(c))

-----------------------------------------------------------------------------
(* Active native commands are deduplicated: of the calls with one key only  *)
(* one ever runs the command, also when another comes after it ended.       *)
OneRunPerKey == \A c, d \in ran : KeyOf[c] = KeyOf[d] => c = d

(* A duplicate that did not give up waiting returns the verdict of the run, *)
(* with its whole output; or SKIPPED, when the run left no output.          *)
DuplicateAgrees == \A c \in Call :
  LET o == owner[KeyOf[c]] IN
  pc[c] = "done" /\ o # c /\ c \notin expired =>
    /\ pc[o] = "done"
    /\ \/ returned[c] = returned[o] /\ output[c] = "whole" /\ output[o] = "whole"
       \/ returned[c] = "SKIPPED" /\ output[o] = "absent"

(* Every call returns: no owner keeps its duplicates waiting for ever, and  *)
(* no inline command keeps the others out.                                  *)
EveryCallReturns == \A c \in Call : <>(pc[c] = "done")
=============================================================================
