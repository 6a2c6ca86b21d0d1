---------------------------- MODULE CommandProofs ---------------------------
(***************************************************************************)
(* How a command is run.  TerminalManager.execute for every number of calls *)
(* and keys (Inv), run_pty for any processes behind the terminal (PtyInv),  *)
(* and _execute_once against its worker, a refinement of RemoteRun          *)
(* (HandInv).                                                               *)
(***************************************************************************)
EXTENDS TerminalDedup, PtyRun, WorkerHandshake, TLAPS

(* TerminalManager.execute (TerminalDedup).                                 *)

Owning == {"own", "run", "wrote", "publish"}

(* Whoever runs a command, or ever did, owns its key.                       *)
Owners == \A c \in Call :
  /\ pc[c] \in Owning => owner[KeyOf[c]] = c
  /\ c \in ran => owner[KeyOf[c]] = c
  /\ pc[c] # "call" => owner[KeyOf[c]] # None
  /\ pc[c] \in {"wait", "look", "decide"} => owner[KeyOf[c]] # c

(* What the table says of a key agrees with where its owner is.             *)
Entry(k) == LET o == owner[k] IN
  IF o = None THEN published[k] = "none"
  ELSE /\ KeyOf[o] = k /\ pc[o] \in Owning \cup {"done"}
       /\ published[k] # "none" => pc[o] = "done" /\ published[k] = returned[o]
       /\ pc[o] = "done" => published[k] # "none"
       /\ pc[o] \in {"wrote", "publish", "done"} =>
            state[o] \in Ended /\ output[o] \in {"absent", "whole"}

Entries == \A k \in Key : Entry(k)

(* A duplicate decides on its owner's entry, a published one if it waited.  *)
Waited(c) ==
  /\ pc[c] \in {"look", "decide"} /\ c \notin expired => published[KeyOf[c]] # "none"
  /\ pc[c] = "decide" => /\ seen[c].task = owner[KeyOf[c]]
                         /\ c \notin expired => seen[c].state = published[KeyOf[c]]

Waits == \A c \in Call : Waited(c)

Inv == TypeOK /\ Owners /\ Entries /\ Waits /\ DuplicateAgrees

-----------------------------------------------------------------------------
LEMMA InitInv == Init => Inv
BY DedupAssumption
   DEF Init, Inv, TypeOK, Owners, Owning, Entries, Entry, Waits, Waited, DuplicateAgrees

LEMMA ClaimInv == ASSUME Inv, NEW c \in Call, Claim(c) PROVE Inv'
<1> USE DedupAssumption DEF Inv, Claim, Step, Owns, table
<1>1. TypeOK'
  BY DEF TypeOK
<1>2. Owners'
  <2>1. ASSUME NEW d \in Call, d # c
        PROVE pc'[d] = pc[d] /\ (owner[KeyOf[d]] # None => owner'[KeyOf[d]] = owner[KeyOf[d]])
    BY <2>1 DEF TypeOK
  <2>2. /\ pc'[c] = "own" => owner'[KeyOf[c]] = c
        /\ pc'[c] = "wait" => owner'[KeyOf[c]] = owner[KeyOf[c]] /\ owner[KeyOf[c]] # None
        /\ pc'[c] \in {"own", "wait"} /\ pc[c] = "call"
    BY DEF TypeOK
  <2>3. pc'[c] = "wait" => owner[KeyOf[c]] # c
    BY ZenonT(30), <2>2 DEF TypeOK, Entries, Entry, Owning
  <2>4. QED
    BY <2>1, <2>2, <2>3 DEF TypeOK, Owners, Owning
<1>3. Entries'
  BY DEF TypeOK, Owners, Owning, Entries, Entry
<1>4. Waits'
  BY DEF TypeOK, Owners, Waits, Waited
<1>5. DuplicateAgrees'
  BY DEF TypeOK, Owners, DuplicateAgrees
<1>6. QED
  BY <1>1, <1>2, <1>3, <1>4, <1>5

LEMMA OwnerEnded == ASSUME Inv, NEW c \in Call, pc[c] = "publish" PROVE state[c] \in Ended
<1>1. owner[KeyOf[c]] = c
  BY DEF Inv, Owners, Owning
<1>2. KeyOf[c] \in Key /\ c # None
  BY DedupAssumption
<1>3. Entry(KeyOf[c])
  BY <1>2 DEF Inv, Entries
<1>4. QED
  BY <1>1, <1>2, <1>3 DEF Entry

LEMMA OwnInv == ASSUME Inv, NEW c \in Call, Own(c) PROVE Inv'
<1> USE DedupAssumption DEF Inv, Own, Start, Open, End, Unlock, Publish, Step, table
<1>1. TypeOK'
  <2>1. pc[c] = "publish" => state[c] \in Ended
    BY OwnerEnded
  <2>2. CASE Start(c)
    <3>1. PICK s \in {"RUNNING", "QUEUED"} : state' = [state EXCEPT ![c] = s]
      BY <2>2
    <3>2. state' \in [Call -> Ended \cup {"QUEUED", "RUNNING"}]
      BY <3>1 DEF TypeOK
    <3>3. QED
      BY <2>2, <3>2 DEF TypeOK
  <2>3. CASE Open(c) \/ End(c) \/ Unlock(c) \/ Publish(c)
    BY <2>1, <2>3 DEF TypeOK, Ended
  <2>4. QED
    BY <2>2, <2>3
<1>2. Owners'
  BY DEF TypeOK, Owners, Owning
<1>3. Entries'
  BY DEF TypeOK, Owners, Owning, Entries, Entry, Ended
<1>4. Waits'
  BY DEF TypeOK, Owners, Owning, Entries, Entry, Waits, Waited, Ended
<1>5. DuplicateAgrees'
  BY DEF TypeOK, Owners, Owning, Entries, Entry, DuplicateAgrees
<1>6. QED
  BY <1>1, <1>2, <1>3, <1>4, <1>5

LEMMA WaitInv == ASSUME Inv, NEW c \in Call, Wake(c) \/ Expire(c) \/ Look(c) PROVE Inv'
<1> USE DedupAssumption DEF Inv, Wake, Expire, Look, Step, table
<1>1. TypeOK'
  <2>1. owner[KeyOf[c]] \in Call \cup {None} /\ published[KeyOf[c]] \in Ended \cup {"none"}
    BY DEF TypeOK
  <2> DEFINE Seen == [task : Call \cup {None}, state : Ended \cup {"none"}]
  <2>2. [task |-> owner[KeyOf[c]], state |-> published[KeyOf[c]]] \in Seen
    BY <2>1
  <2>3. seen \in [Call -> Seen]
    BY DEF TypeOK
  <2>4. seen' \in [Call -> Seen]
    <3> HIDE DEF Seen
    <3>1. QED
      BY <2>2, <2>3
  <2>5. pc' \in [Call -> {"call", "own", "run", "wrote", "publish", "wait", "look", "decide", "done"}]
    BY DEF TypeOK
  <2>6. QED
    BY <2>4, <2>5 DEF TypeOK
<1>2. Owners'
  BY DEF TypeOK, Owners, Owning
<1>3. Entries'
  BY DEF TypeOK, Owners, Owning, Entries, Entry
<1>4. Waits'
  BY DEF TypeOK, Waits, Waited
<1>5. DuplicateAgrees'
  BY DEF TypeOK, Owners, Owning, DuplicateAgrees
<1>6. QED
  BY <1>1, <1>2, <1>3, <1>4, <1>5

LEMMA DecideInv == ASSUME Inv, NEW c \in Call, Copy(c) \/ NothingToCopy(c) PROVE Inv'
<1> DEFINE o == owner[KeyOf[c]]
<1> USE DedupAssumption DEF Inv, Copy, NothingToCopy, Step, table
<1>1. o \in Call /\ o # c /\ seen[c].task = o
  BY DEF TypeOK, Owners, Waits, Waited
<1>2. Verdict(c) \in Ended \cup {"QUEUED", "RUNNING"}
  BY <1>1 DEF Verdict, TypeOK
<1>3. TypeOK'
  BY <1>1, <1>2 DEF TypeOK
<1>4. Owners'
  BY DEF TypeOK, Owners, Owning
<1>5. Entries'
  BY <1>1 DEF TypeOK, Owners, Owning, Entries, Entry
<1>6. Waits'
  BY DEF TypeOK, Waits, Waited
<1>7. c \notin expired =>
        /\ pc[o] = "done" /\ Verdict(c) = returned[o] /\ output[o] \in {"absent", "whole"}
  BY <1>1 DEF Verdict, TypeOK, Waits, Waited, Entries, Entry
<1>8. DuplicateAgrees'
  BY <1>1, <1>7 DEF TypeOK, Owners, Owning, DuplicateAgrees, Entries, Entry
<1>9. QED
  BY <1>3, <1>4, <1>5, <1>6, <1>8

LEMMA StepInv == Inv /\ [Next]_vars => Inv'
<1> SUFFICES ASSUME Inv, [Next]_vars PROVE Inv'
  OBVIOUS
<1>1. CASE UNCHANGED vars
  BY <1>1 DEF vars, table, Inv, TypeOK, Owners, Owning, Entries, Entry, Waits, Waited,
              DuplicateAgrees
<1>2. ASSUME NEW c \in Call, Claim(c) \/ Own(c) \/ Duplicate(c) \/ Expire(c) PROVE Inv'
  BY <1>2, ClaimInv, OwnInv, WaitInv, DecideInv DEF Duplicate
<1>3. QED
  BY <1>1, <1>2 DEF Next, Over

LEMMA Always == Spec => []Inv
<1>1. QED
  BY InitInv, StepInv, PTL DEF Spec

-----------------------------------------------------------------------------
(* The table, the lock and the task states always have their types: in      *)
(* particular a duplicate never looks for a task that is not there.         *)
THEOREM Typing == Spec => []TypeOK
<1>1. Inv => TypeOK
  BY DEF Inv
<1>2. QED
  BY <1>1, Always, PTL

(* However many threads call execute at once, a command runs once.          *)
THEOREM Deduplication == Spec => []OneRunPerKey
<1>1. Inv => OneRunPerKey
  BY DEF Inv, TypeOK, Owners, OneRunPerKey
<1>2. QED
  BY <1>1, Always, PTL

(* A duplicate that waited reports what the run reported.                   *)
THEOREM Agreement == Spec => []DuplicateAgrees
<1>1. Inv => DuplicateAgrees
  BY DEF Inv
<1>2. QED
  BY <1>1, Always, PTL

-----------------------------------------------------------------------------
(* run_pty (PtyRun).  Who can be alive, and what run_pty has begun by then. *)
Family ==
  /\ holding \subseteq alive /\ alive \subseteq forked /\ told \subseteq forked
  /\ at = "start" => alive = {} /\ told = {} /\ ~killed /\ ~eof
  /\ at \in {"intdrain"} \cup Left => "leader" \notin alive

(* Whoever the verdict was meant for is about to end, or ignores SIGTERM.   *)
Signalled ==
  /\ told \cap alive \subseteq doomed \cup stubborn
  /\ killed => alive \cap Group = {}

(* End of file was seen on an empty terminal that nobody holds.             *)
Drained == eof => unread = 0 /\ holding = {}

Judged ==
  /\ status \in {"SUCCESS", "TIMEOUT", "CANCELLED"}
  /\ status = "TIMEOUT" => lapsed
  /\ killed => status # "SUCCESS"
  /\ at = "returned" => eof /\ verdict = ExitVerdict

PtyInv == Family /\ Signalled /\ Drained /\ Judged

LEMMA PtyStarts == PtyInit => PtyInv
BY DEF PtyInit, PtyInv, Family, Signalled, Drained, Judged, Left

(* The signals reach the group and nobody else.                             *)
LEMMA StopInv ==
  ASSUME PtyInv, NEW how \in {"TIMEOUT", "CANCELLED"}, Stop(how), how = "TIMEOUT" => lapsed',
         at # "start", at' \notin {"start", "intdrain"} \cup Left, UNCHANGED <<eof, killed>>,
         status = "TIMEOUT" => lapsed'
  PROVE  PtyInv'
BY DEF PtyInv, Family, Signalled, Drained, Judged, Stop, SigTerm, Left

LEMMA SigKillInv ==
  ASSUME PtyInv, SigKill, at # "start", at' \notin {"start"} \cup Left,
         UNCHANGED <<eof, status, lapsed, told>>, killed' => status # "SUCCESS"
  PROVE  PtyInv'
BY DEF PtyInv, Family, Signalled, Drained, Judged, SigKill, Group, Left

(* A step of run_pty that signals nobody, and neither begins nor ends.      *)
LEMMA StaysInv ==
  ASSUME PtyInv, UNCHANGED <<procVars, eof, status, killed, lapsed, told>>, at # "start",
         at' \in {"intdrain"} \cup Left => "leader" \notin alive, at' \notin {"start", "returned"}
  PROVE  PtyInv'
BY DEF PtyInv, Family, Signalled, Drained, Judged, procVars

LEMMA MainInv == ASSUME PtyInv, Main \/ OnInterrupt \/ Break PROVE PtyInv'
<1> USE DEF Goto, clockVars
<1>1. CASE Popen
  BY <1>1 DEF Popen, PtyInv, Family, Signalled, Drained, Judged, Left
<1>2. CASE Continue \/ IntWait \/ IntReap \/ BreakReap
  <2>1. CASE SigKill /\ IntWait
    BY <2>1, SigKillInv DEF IntWait, PtyInv, Judged, Left
  <2>2. CASE ~SigKill \/ ~IntWait
    BY <1>2, <2>2, StaysInv DEF Continue, IntWait, IntReap, BreakReap, LeaderGone, Left
  <2>3. QED
    BY <2>1, <2>2
<1>3. CASE Return
  BY <1>3 DEF Return, Finished, PtyInv, Family, Signalled, Drained, Judged, Left, procVars,
              ExitVerdict
<1>4. CASE CheckTimeout \/ CheckCancel
  <2>1. CASE status = "SUCCESS" /\ Stop("TIMEOUT") /\ lapsed
    BY <1>4, <2>1, StopInv DEF CheckTimeout, CheckCancel, Left
  <2>2. CASE status = "SUCCESS" /\ Stop("CANCELLED")
    BY <1>4, <2>2, StopInv DEF CheckTimeout, CheckCancel, Left
  <2>3. CASE UNCHANGED <<status, told, procVars>>
    BY <1>4, <2>3, StaysInv DEF CheckTimeout, CheckCancel, Left
  <2>4. QED
    BY <1>4, <2>1, <2>2, <2>3 DEF CheckTimeout, CheckCancel
<1>5. CASE CheckKill
  <2>1. CASE status # "SUCCESS" /\ SigKill
    BY <1>5, <2>1, SigKillInv DEF CheckKill, Left
  <2>2. CASE UNCHANGED <<killed, procVars>>
    BY <1>5, <2>2, StaysInv DEF CheckKill, Left
  <2>3. QED
    BY <1>5, <2>1, <2>2 DEF CheckKill
<1>6. CASE Read
  BY <1>6 DEF Read, PtyInv, Family, Signalled, Drained, Judged, Left
<1>7. CASE IntDrain
  BY <1>7 DEF IntDrain, PtyInv, Family, Signalled, Drained, Judged, Left
<1>8. CASE OnInterrupt
  <2>1. CASE Stop("CANCELLED") /\ at' = "intwait"
    BY <1>8, <2>1, StopInv DEF OnInterrupt, Left, Loop, PtyInv, Judged
  <2>2. CASE "leader" \notin alive
    BY <1>8, <2>2 DEF OnInterrupt, Loop, Left, PtyInv, Family, Signalled, Drained, Judged, procVars
  <2>3. QED
    BY <1>8, <2>1, <2>2 DEF OnInterrupt
<1>9. CASE Break
  <2>1. CASE SigKill /\ at' = "breakreap"
    BY <1>9, <2>1, SigKillInv DEF Break, Left, PtyInv, Judged
  <2>2. CASE "leader" \notin alive
    BY <1>9, <2>2, StaysInv DEF Break, Left
  <2>3. QED
    BY <1>9, <2>1, <2>2 DEF Break
<1>10. QED
  BY <1>1, <1>2, <1>3, <1>4, <1>5, <1>6, <1>7, <1>8, <1>9 DEF Main

LEMMA EnvironmentInv == ASSUME PtyInv, Environment \/ AllGone \/ UNCHANGED ptyVars PROVE PtyInv'
<1> USE DEF PtyInv, Family, Signalled, Drained, Judged, ExitVerdict
<1>1. CASE Lapse \/ Due \/ Cancel
  BY <1>1 DEF Lapse, Due, Cancel, procVars
<1>2. ASSUME NEW p \in Proc, Fork(p) PROVE PtyInv'
  BY <1>2 DEF Fork, mainVars, clockVars, Group
<1>3. ASSUME NEW p \in Proc, Write(p) PROVE PtyInv'
  BY <1>3 DEF Write, mainVars, clockVars
<1>4. ASSUME NEW p \in Proc, CloseTty(p) PROVE PtyInv'
  BY <1>4 DEF CloseTty, mainVars, clockVars
<1>5. ASSUME NEW p \in Proc, EndOf(p) PROVE PtyInv'
  BY <1>5 DEF EndOf, mainVars, clockVars, Left
<1>6. CASE AllGone \/ UNCHANGED ptyVars
  BY <1>6 DEF AllGone, ptyVars, procVars, clockVars
<1>7. QED
  BY <1>1, <1>2, <1>3, <1>4, <1>5, <1>6 DEF Environment

LEMMA PtyAlways == PtySpec => []PtyInv
<1>1. PtyInv /\ [PtyNext]_ptyVars => PtyInv'
  BY MainInv, EnvironmentInv DEF PtyNext
<1>2. QED
  BY <1>1, PtyStarts, PTL DEF PtySpec

(* When run_pty returns, every byte is in the file and nobody can write      *)
(* another, whatever the command starts and ignores.                        *)
THEOREM AllIsSaved == PtySpec => []OutputSaved
<1>1. PtyInv => OutputSaved
  BY DEF PtyInv, Drained, Judged, OutputSaved
<1>2. QED
  BY <1>1, PtyAlways, PTL

(* However run_pty ends, the leader is gone and everybody the verdict was   *)
(* meant for was signalled, for any number of children in the group or not. *)
THEOREM NobodyLeftBehind == PtySpec => []NobodyForgotten
<1>1. PtyInv => NobodyForgotten
  BY DEF PtyInv, Family, Signalled, NobodyForgotten
<1>2. QED
  BY <1>1, PtyAlways, PTL

(* What the tests of the loop have met.  A pass that met the cancellation   *)
(* sets the verdict; one that met the deadline does too, or the leader was  *)
(* gone.                                                                    *)
Met == at \in Loop \cup {"start", "returned"} =>
  /\ found \subseteq Reasons /\ (at = "start" => status = "SUCCESS" /\ found = {})
  /\ status = "SUCCESS" => told = {}
  /\ status = "SUCCESS" /\ "cancel" \in found => at = "cancel"
  /\ status = "SUCCESS" /\ "lapsed" \in found => "leader" \notin alive
  /\ status # "SUCCESS" => found # {}
  /\ found = {"cancel"} => status # "TIMEOUT"
  /\ "lapsed" \in found /\ "leader" \in told => status = "TIMEOUT"

LEMMA CheckMet == ASSUME PtyInv, Met, CheckTimeout \/ CheckCancel PROVE Met'
<1>0. ASSUME CheckCancel, status = "SUCCESS", cancel PROVE Stop("CANCELLED")
  BY <1>0 DEF CheckCancel
<1> USE DEF Goto, clockVars, procVars, Loop, Met, Reasons, Stop, SigTerm
<1>1. CASE CheckTimeout
  <2>1. CASE status = "SUCCESS" /\ lapsed /\ ~Finished
    <3>1. "lapsed" \in found' /\ found' \subseteq Reasons'
      BY <1>1, <2>1 DEF CheckTimeout, Finished, PtyInv, Drained
    <3>2. at' = "cancel" /\ status' = "TIMEOUT"
      BY <1>1, <2>1 DEF CheckTimeout
    <3>3. QED
      BY <3>1, <3>2
  <2>2. CASE ~(status = "SUCCESS" /\ lapsed /\ ~Finished)
    <3>1. UNCHANGED <<status, told, alive, lapsed, cancel>>
      BY <1>1, <2>2 DEF CheckTimeout
    <3>2. found' \subseteq Reasons' /\ (found # {} => found' = found) /\ at' = "cancel"
      BY <1>1 DEF CheckTimeout
    <3>3. status = "SUCCESS" /\ "lapsed" \in found' => "leader" \notin alive
      BY <1>1, <2>2 DEF CheckTimeout, Finished
    <3>4. QED
      BY <1>1, <3>1, <3>2, <3>3 DEF CheckTimeout
  <2>3. QED
    BY <2>1, <2>2
<1>2. CASE CheckCancel
  <2>1. CASE status = "SUCCESS" /\ cancel
    <3>1. found' # {} /\ status' = "CANCELLED" /\ found' \subseteq Reasons'
      BY <1>2, <2>1 DEF CheckCancel
    <3>2. at = "cancel" /\ at' = "kill" /\ told' = alive \cap Group
      BY <1>0, <1>2, <2>1 DEF CheckCancel
    <3>3. "lapsed" \in found' => "lapsed" \in found
      BY <1>2 DEF CheckCancel
    <3>4. "lapsed" \in found' => "leader" \notin told'
      BY <2>1, <3>2, <3>3
    <3>5. QED
      BY <3>1, <3>2, <3>4
  <2>2. CASE ~(status = "SUCCESS" /\ cancel)
    <3>1. UNCHANGED <<status, told, alive, lapsed, cancel>>
      BY <1>2, <2>2 DEF CheckCancel
    <3>2. at = "cancel" /\ at' = "kill"
      BY <1>2 DEF CheckCancel
    <3>3. found' = found
      <4>1. CASE found # {}
        BY <1>2, <4>1 DEF CheckCancel
      <4>2. CASE found = {}
        BY <1>2, <2>2, <3>2, <4>2 DEF CheckCancel
      <4>3. QED
        BY <4>1, <4>2
    <3>4. QED
      BY <2>2, <3>1, <3>2, <3>3
  <2>3. QED
    BY <2>1, <2>2
<1>3. QED
  BY <1>1, <1>2

LEMMA MetStep == PtyInv /\ Met /\ [PtyNext]_ptyVars => Met'
<1> SUFFICES ASSUME PtyInv, Met, [PtyNext]_ptyVars PROVE Met'
  OBVIOUS
<1> USE DEF Goto, clockVars, mainVars, Loop, Left, Met, Reasons
<1>1. CASE Popen
  BY <1>1, PtyAssumption DEF Popen, PtyInv, Family
<1>2. CASE Continue
  BY <1>2 DEF Continue, procVars
<1>3. CASE Return
  BY <1>3 DEF Return, procVars
<1>4. CASE CheckTimeout \/ CheckCancel
  BY <1>4, CheckMet
<1>5. CASE CheckKill
  <2>1. UNCHANGED <<status, told, found, lapsed, cancel>> /\ alive' \subseteq alive /\ at' = "read"
    BY <1>5 DEF CheckKill, SigKill, procVars
  <2>2. at = "kill"
    BY <1>5 DEF CheckKill
  <2>3. QED
    BY <2>1, <2>2
<1>6. CASE Read
  BY <1>6 DEF Read
<1>7. CASE IntWait \/ IntReap \/ IntDrain \/ BreakReap \/ OnInterrupt \/ Break
  BY <1>7 DEF IntWait, IntReap, IntDrain, BreakReap, OnInterrupt, Break
<1>8. CASE Environment
  <2>1. CASE Lapse \/ Due \/ Cancel
    BY <1>8, <2>1 DEF Lapse, Due, Cancel, procVars
  <2>2. ASSUME NEW p \in Proc, Fork(p) \/ Write(p) \/ CloseTty(p) \/ EndOf(p) PROVE Met'
    <3>1. UNCHANGED <<status, told, found, lapsed, cancel, at>>
      BY <2>2 DEF Fork, Write, CloseTty, EndOf
    <3>2. "leader" \notin alive => "leader" \notin alive'
      BY <2>2 DEF Fork, Write, CloseTty, EndOf
    <3>3. QED
      BY <3>1, <3>2
  <2>3. QED
    BY <1>8, <2>1, <2>2 DEF Environment
<1>9. CASE AllGone \/ UNCHANGED ptyVars
  BY <1>9 DEF AllGone, ptyVars, procVars
<1>10. QED
  BY <1>1, <1>2, <1>3, <1>4, <1>5, <1>6, <1>7, <1>8, <1>9 DEF PtyNext, Main

(* Of timeout, cancellation and the end of the command the first that the   *)
(* loop meets decides, and later ones change nothing.                       *)
THEOREM FirstDecides == PtySpec => []FirstReasonStands
<1>1. PtyInit => Met
  BY DEF PtyInit, Met
<1>2. PtyInv /\ Met => FirstReasonStands
  BY DEF PtyInv, Judged, Met, FirstReasonStands, ExitVerdict
<1>3. QED
  BY <1>1, <1>2, MetStep, PtyAlways, PTL DEF PtySpec

-----------------------------------------------------------------------------
(* _execute_once and the worker (WorkerHandshake).                          *)
HandTypes ==
  /\ poll \in {"launch", "meta", "launcher", "deadline", "read", "inline", "waitpid", "done", "raised"}
  /\ worker \in {"unborn", "exited", "dead"} \cup Alive
  /\ launcher \in {"none", "up", "zero", "error", "terminated"}
  /\ runners \subseteq {"worker", "inline"}
  /\ meta \in Recorded \cup {"none"} /\ result \in Recorded \cup {"none"}

(* Who has run the command: two runners are the price of a missed deadline  *)
(* or of a terminal that ended with an error.                               *)
Runs ==
  /\ worker \in {"unborn", "starting", "pid"} => "worker" \notin runners
  /\ worker \in {"running", "wrote"} => "worker" \in runners
  /\ "inline" \in runners => poll \in {"inline", "waitpid", "done", "raised"}
  /\ poll = "launch" => launcher = "none"
  /\ launcher = "none" => worker = "unborn"
  /\ poll = "inline" \/ "inline" \in runners => late \/ launcher \in {"none", "error"}

(* Whose verdict the metadata holds, and what the caller was told of it.    *)
Verdicts ==
  /\ meta # "none" /\ poll \notin Settled \cup {"waitpid"} => "worker" \in runners
  /\ meta # "none" /\ worker \notin {"wrote", "exited", "dead"} => "inline" \in runners
  /\ poll = "read" => meta # "none"
  /\ poll # "done" => result = "none"
  /\ poll = "done" => meta # "none" /\ (result = meta \/ runners = {"worker", "inline"})

(* Whoever left CANCELLED was stopped; the worker, when it was, leaves it.  *)
Stopping ==
  /\ term => "worker" \in runners
  /\ meta # "none" /\ "inline" \notin runners => (meta = "CANCELLED" <=> term)
  /\ "CANCELLED" \in {meta, result} => term \/ cancelled
  /\ poll = "done" /\ runners = {"worker"} => (result = "CANCELLED" <=> term)

HandInv == HandTypes /\ Runs /\ Verdicts /\ Stopping

LEMMA HandStarts == HandInit => HandInv
BY DEF HandInit, HandInv, HandTypes, Runs, Verdicts, Stopping, Recorded, Alive, Settled

LEMMA HandStep == HandInv /\ [HandNext]_handVars => HandInv'
<1> SUFFICES ASSUME HandInv, [HandNext]_handVars PROVE HandInv'
  OBVIOUS
<1> USE DEF HandInv, HandTypes, Runs, Verdicts, Stopping, Recorded, Alive, Settled, files
<1>1. CASE Launch
  BY <1>1 DEF Launch
<1>2. CASE CheckMeta
  BY <1>2 DEF CheckMeta
<1>3. CASE CheckLauncher
  BY <1>3 DEF CheckLauncher
<1>4. CASE CheckDeadline
  BY <1>4 DEF CheckDeadline
<1>5. CASE InlineStart
  BY <1>5 DEF InlineStart
<1>6. CASE InlineEnd
  BY <1>6 DEF InlineEnd
<1>7. CASE ReadMeta
  BY <1>7 DEF ReadMeta
<1>8. CASE Raise
  BY <1>8 DEF Raise
<1>9. CASE WritePid
  BY <1>9 DEF WritePid
<1>10. CASE RunCommand
  BY <1>10 DEF RunCommand
<1>11. CASE WriteMeta
  BY <1>11 DEF WriteMeta
<1>12. CASE UnlinkPid
  BY <1>12 DEF UnlinkPid
<1>13. CASE TerminalOpens
  BY <1>13 DEF TerminalOpens
<1>14. CASE TerminalEnds
  BY <1>14 DEF TerminalEnds
<1>15. CASE TypedCtrlC
  <2>1. worker \in {"pid", "running"} /\ worker' \in {"running", "dead", "exited"}
    BY <1>15 DEF TypedCtrlC, KeyboardInterrupt
  <2>2. worker' = "running" => worker = "running"
    BY <1>15 DEF TypedCtrlC, KeyboardInterrupt
  <2>3. term' => term \/ worker = "running"
    BY <1>15 DEF TypedCtrlC, KeyboardInterrupt
  <2>4. term => term'
    BY <1>15 DEF TypedCtrlC, KeyboardInterrupt
  <2>5. QED
    BY <1>15, <2>1, <2>2, <2>3, <2>4 DEF TypedCtrlC
<1>16. CASE HangUp
  BY <1>16 DEF HangUp
<1>17. CASE CancelWorkers
  BY <1>17 DEF CancelWorkers, Terminate, KeyboardInterrupt
<1>18. CASE Interrupt
  BY <1>18 DEF Interrupt, MetaAtInterrupt, Terminate, KeyboardInterrupt
<1>19. CASE InterruptOutside
  BY <1>19 DEF InterruptOutside, MetaAtInterrupt
<1>20. CASE Die
  BY <1>20 DEF Die
<1>21. CASE WorkerRaises
  BY <1>21 DEF WorkerRaises
<1>22. CASE Tick
  BY <1>22 DEF Tick
<1>23. CASE Quiet \/ UNCHANGED handVars
  <2>1. HandTypes' /\ Runs'
    BY ZenonT(30), <1>23 DEF Quiet, handVars
  <2>2. Verdicts' /\ Stopping'
    BY <1>23 DEF Quiet, handVars
  <2>3. QED
    BY <2>1, <2>2
<1>24. QED
  BY <1>1, <1>2, <1>3, <1>4, <1>5, <1>6, <1>7, <1>8, <1>9, <1>10, <1>11,
     <1>12, <1>13, <1>14, <1>15, <1>16, <1>17, <1>18, <1>19, <1>20, <1>21, <1>22, <1>23
     DEF HandNext, Poller, Command, Terminal

LEMMA HandAlways == HandSpec => []HandInv
BY HandStarts, HandStep, PTL DEF HandSpec

(* What _execute_once returns is true: CANCELLED takes a Ctrl-C, it is what *)
(* an interrupted worker is reported as, and what one runner alone left is  *)
(* what was returned.                                                       *)
THEOREM ResultHolds == HandSpec => []ResultIsTrue
<1>1. HandInv => ResultIsTrue
  BY DEF HandInv, Verdicts, Stopping, ResultIsTrue
<1>2. QED
  BY <1>1, HandAlways, PTL

(* Every step of the handshake is one of RemoteRun, or none.                *)
LEMMA HandMaps == HandInv /\ [HandNext]_handVars => [RR!RunNext]_(RR!rvars)
<1> SUFFICES ASSUME HandInv, [HandNext]_handVars PROVE [RR!RunNext]_(RR!rvars)
  OBVIOUS
<1> USE DEF HandInv, HandTypes, Runs, Verdicts, Stopping, Recorded, Alive, Settled, files,
            Stopped, RR!rvars
<1>1. CASE Launch
  <2>1. UNCHANGED <<runners, Stopped, late, meta, result>> /\ (launcher = "error" <=> launcher' = "error")
    BY <1>1 DEF Launch
  <2>2. RR!Stop
    BY <1>1, <2>1 DEF Launch, RR!Stop, RR!Free
  <2>3. QED
    BY <2>2 DEF RR!RunNext
<1>2. CASE InlineStart
  <2>1. RR!Start("inline")
    BY <1>2 DEF InlineStart, RR!Start
  <2>2. QED
    BY <2>1 DEF RR!RunNext
<1>3. CASE InlineEnd
  <2>1. CASE poll' = "raised" /\ UNCHANGED <<meta, result>>
    <3>1. RR!Stop
      BY <1>3, <2>1 DEF InlineEnd, RR!Stop, RR!Free
    <3>2. QED
      BY <3>1 DEF RR!RunNext
  <2>2. CASE poll' = "done" /\ result' = meta'
    <3>1. meta' \in Recorded /\ (meta' = "CANCELLED" => cancelled)
      BY <1>3, <2>2 DEF InlineEnd
    <3>2. RR!Leaves("inline", meta')
      BY <1>3, <3>1 DEF InlineEnd, RR!Leaves, RR!Mine
    <3>3. RR!FinishAndAnswer("inline")
      BY <1>3, <2>2, <3>1, <3>2 DEF InlineEnd, RR!FinishAndAnswer, RR!Free
    <3>4. QED
      BY <3>3 DEF RR!RunNext
  <2>3. QED
    BY <1>3, <2>1, <2>2 DEF InlineEnd
<1>4. CASE ReadMeta
  <2>1. RR!Answer
    BY <1>4 DEF ReadMeta, RR!Answer, RR!Free
  <2>2. QED
    BY <2>1 DEF RR!RunNext
<1>5. CASE RunCommand
  <2>1. RR!Start("worker")
    BY <1>5 DEF RunCommand, RR!Start
  <2>2. QED
    BY <2>1 DEF RR!RunNext
<1>6. CASE WriteMeta
  <2>1. RR!Finish("worker")
    BY <1>6 DEF WriteMeta, RR!Finish, RR!Leaves, RR!Mine
  <2>2. QED
    BY <2>1 DEF RR!RunNext
<1>7. CASE Tick \/ TerminalEnds
  <2>1. RR!GiveUp \/ UNCHANGED RR!rvars
    BY <1>7 DEF Tick, TerminalEnds, RR!GiveUp
  <2>2. QED
    BY <2>1 DEF RR!RunNext
<1>8. CASE CancelWorkers \/ TypedCtrlC
  <2>1. UNCHANGED <<runners, late, launcher, meta, result, poll>>
    BY <1>8 DEF CancelWorkers, TypedCtrlC
  <2>2. (cancelled => cancelled') /\ (term => term')
    BY <1>8 DEF CancelWorkers, TypedCtrlC, Terminate, KeyboardInterrupt
  <2>3. Stopped \subseteq Stopped' /\ Stopped' \subseteq runners
    BY <2>1, <2>2
  <2>4. (launcher' = "error" <=> launcher = "error")
        /\ (poll' \in {"waitpid", "raised"} <=> poll \in {"waitpid", "raised"})
    BY <2>1
  <2>5. RR!Stop
    <3>1. CASE RR!Free
      BY <2>1, <2>3, <2>4, <3>1 DEF RR!Stop
    <3>2. CASE ~RR!Free
      BY <2>1, <2>3, <2>4, <3>2 DEF RR!Stop
    <3>3. QED
      BY <3>1, <3>2
  <2>6. QED
    BY <2>5 DEF RR!RunNext
<1>9. CASE Interrupt \/ InterruptOutside
  <2>1. UNCHANGED <<runners, late, result>> /\ (launcher' = "error" <=> launcher = "error")
    BY <1>9 DEF Interrupt, InterruptOutside
  <2>2. cancelled' /\ (term => term')
    BY <1>9 DEF Interrupt, InterruptOutside, Terminate, KeyboardInterrupt
  <2>3. Stopped \subseteq Stopped' /\ Stopped' \subseteq runners
        /\ ("inline" \in runners => "inline" \in Stopped')
    BY <2>1, <2>2
  <2>4. poll \notin {"waitpid", "done", "raised"} /\ poll' \in {"waitpid", "raised"}
    BY <1>9 DEF Interrupt, InterruptOutside
  <2>5. CASE meta' = meta
    <3>1. RR!Stop
      BY <2>1, <2>3, <2>4, <2>5 DEF RR!Stop, RR!Free
    <3>2. QED
      BY <3>1 DEF RR!RunNext
  <2>6. CASE meta' # meta
    <3>1. poll = "inline" /\ "inline" \in runners /\ meta' \in Recorded
      BY <1>9, <2>6 DEF Interrupt, InterruptOutside, MetaAtInterrupt
    <3>2. RR!FinishAndRaise("inline")
      BY <2>1, <2>3, <2>4, <3>1 DEF RR!FinishAndRaise, RR!Free, RR!Mine
    <3>3. QED
      BY <3>2 DEF RR!RunNext
  <2>7. QED
    BY <2>5, <2>6
<1>10. CASE WritePid \/ UnlinkPid \/ WorkerRaises \/ TerminalOpens \/ HangUp \/ Die \/ Quiet
            \/ UNCHANGED handVars
  BY <1>10 DEF WritePid, UnlinkPid, WorkerRaises, TerminalOpens, HangUp, Die, Quiet, handVars
<1>11. CASE CheckMeta \/ CheckLauncher \/ CheckDeadline \/ Raise
  <2>1. UNCHANGED <<runners, term, cancelled, meta, result>>
    BY <1>11 DEF CheckMeta, CheckLauncher, CheckDeadline, Raise
  <2>2. late' = late /\ (launcher' = "error" <=> launcher = "error")
    BY <1>11 DEF CheckMeta, CheckLauncher, CheckDeadline, Raise
  <2>3. poll' \in {"waitpid", "raised"} <=> poll \in {"waitpid", "raised"}
    BY <1>11 DEF CheckMeta, CheckLauncher, CheckDeadline, Raise
  <2>4. QED
    BY <2>1, <2>2, <2>3
<1>12. QED
  BY <1>1, <1>2, <1>3, <1>4, <1>5, <1>6, <1>7, <1>8, <1>9, <1>10, <1>11
     DEF HandNext, Poller, Command, Terminal

(* The two files and the polling loop amount to one command with one        *)
(* verdict (RemoteRun).                                                     *)
THEOREM OneRunOneVerdict == HandSpec => ImplementsRemoteRun
<1>1. HandInit => RR!RunInit
  BY DEF HandInit, RR!RunInit, Stopped
<1>2. QED
  BY <1>1, HandMaps, HandAlways, PTL DEF HandSpec, ImplementsRemoteRun, RR!RunSpec

=============================================================================
