------------------------------- MODULE PtyRun -------------------------------
(***************************************************************************)
(* run_pty (src/scr/core/pty.py): a loop that reads the master of a PTY     *)
(* against the processes that hold its slave: the leader of the command's   *)
(* process group, its children in the group, and those that made a session  *)
(* of their own.  The timeout and the cancel event send SIGTERM to the      *)
(* group and SIGKILL half a second later; KeyboardInterrupt and errors have *)
(* paths of their own.  Definitions named Fault... are bugs that no action  *)
(* uses.                                                                    *)
(***************************************************************************)
EXTENDS Naturals

CONSTANTS Kids,       \* the processes the leader may start
          Strays,     \* those of them that make a session of their own
          MaxUnread,  \* bounds the chunks waiting in the PTY
          Interrupts, \* KeyboardInterrupt may be raised in this thread
          Breaks      \* writing the output file or the stream may fail

ASSUME PtyAssumption ==
  /\ "leader" \notin Kids /\ Strays \subseteq Kids /\ MaxUnread \in Nat \ {0}
  /\ {Interrupts, Breaks} \subseteq BOOLEAN

Proc == {"leader"} \cup Kids
Group == {"leader"} \cup (Kids \ Strays)

VARIABLES alive, holding,  \* the processes, and those that have the slave open
          stubborn,        \* the processes that ignore SIGTERM
          doomed,          \* those SIGTERM is about to end
          forked,          \* processes that were ever started
          exit,            \* the leader's exit code: "none", "zero", "other"
          unread,          \* chunks in the PTY
          eof, status, killed,  \* the locals of run_pty
          lapsed, due, cancel,  \* the deadline has passed, kill_at has, the event is set
          at, verdict,
          told,            \* history: the group when the verdict stopped being SUCCESS
          found            \* history: the reasons to stop that there were when one of
                           \* the two tests first met one

procVars == <<alive, holding, stubborn, doomed, forked, exit, unread>>
clockVars == <<lapsed, due, cancel>>
ptyVars == <<procVars, eof, status, killed, clockVars, at, verdict, told, found>>

Left == {"returned", "raised", "failed"}
Loop == {"while", "timeout", "cancel", "kill", "read"}

PtyInit ==
  /\ alive = {} /\ holding = {} /\ doomed = {} /\ forked = {} /\ stubborn \in SUBSET Group
  /\ exit = "none" /\ unread = 0
  /\ eof = FALSE /\ status = "SUCCESS" /\ killed = FALSE
  /\ lapsed = FALSE /\ due = FALSE /\ cancel = FALSE
  /\ at = "start" /\ verdict = "none" /\ told = {} /\ found = {}

Goto(a, b) == at = a /\ at' = b

(* os.killpg, which reaches the processes that are in the group by now.     *)
FaultSigTerm == doomed' = doomed \cup ((alive \cap {"leader"}) \ stubborn)
                /\ UNCHANGED <<alive, holding, stubborn, forked, exit, unread>>
SigTerm == doomed' = doomed \cup ((alive \cap Group) \ stubborn)
           /\ UNCHANGED <<alive, holding, stubborn, forked, exit, unread>>
(* The verdict is set first; told remembers whom the signal is meant for.   *)
Stop(how) == status' = how /\ told' = alive \cap Group /\ SigTerm

SigKill == /\ alive' = alive \ Group /\ holding' = holding \ Group /\ doomed' = doomed \ Group
           /\ exit' = IF "leader" \in alive THEN "other" ELSE exit
           /\ UNCHANGED <<stubborn, forked, unread>>

-----------------------------------------------------------------------------
(* run_pty. *)

(* Popen starts the leader, or raises. *)
Popen ==
  /\ \/ Goto("start", "while") /\ alive' = {"leader"} /\ holding' = alive' /\ forked' = alive'
     \/ Goto("start", "failed") /\ UNCHANGED <<alive, holding, forked>>
  /\ UNCHANGED <<stubborn, doomed, exit, unread, eof, status, killed, clockVars, verdict, told, found>>

FaultFinished == "leader" \notin alive
Finished == eof /\ "leader" \notin alive

Continue ==
  /\ Goto("while", "timeout") /\ ~Finished
  /\ UNCHANGED <<procVars, eof, status, killed, clockVars, verdict, told, found>>

ExitVerdict == IF status = "SUCCESS" /\ exit # "zero" THEN "FAILED" ELSE status

Return ==
  /\ Goto("while", "returned") /\ Finished
  /\ verdict' = ExitVerdict
  /\ UNCHANGED <<procVars, eof, status, killed, clockVars, told, found>>

(* now is read once in each pass, here.  Between the test of the loop and   *)
(* this one the command may have ended.                                     *)
Reasons == {r \in {"lapsed", "cancel"} : IF r = "lapsed" THEN lapsed ELSE cancel}

CheckTimeout ==
  /\ Goto("timeout", "cancel")
  /\ found' = IF found = {} THEN Reasons ELSE found
  /\ IF status = "SUCCESS" /\ lapsed /\ ~Finished
     THEN Stop("TIMEOUT")
     ELSE UNCHANGED <<status, told, procVars>>
  /\ UNCHANGED <<eof, killed, clockVars, verdict>>

FaultCheckCancel ==
  /\ Goto("cancel", "kill")
  /\ found' = IF found = {} THEN Reasons \ {"lapsed"} ELSE found
  /\ IF status # "CANCELLED" /\ cancel
     THEN Stop("CANCELLED")
     ELSE UNCHANGED <<status, told, procVars>>
  /\ UNCHANGED <<eof, killed, clockVars, verdict>>

CheckCancel ==
  /\ Goto("cancel", "kill")
  /\ found' = IF found = {} THEN Reasons \ {"lapsed"} ELSE found
  /\ IF status = "SUCCESS" /\ cancel
     THEN Stop("CANCELLED")
     ELSE UNCHANGED <<status, told, procVars>>
  /\ UNCHANGED <<eof, killed, clockVars, verdict>>

FaultCheckKill ==
  /\ Goto("kill", "read")
  /\ IF status = "TIMEOUT" /\ ~killed /\ due
     THEN killed' = TRUE /\ SigKill
     ELSE UNCHANGED <<killed, procVars>>
  /\ UNCHANGED <<eof, status, clockVars, verdict, told, found>>

CheckKill ==
  /\ Goto("kill", "read")
  /\ IF status # "SUCCESS" /\ ~killed /\ due
     THEN killed' = TRUE /\ SigKill
     ELSE UNCHANGED <<killed, procVars>>
  /\ UNCHANGED <<eof, status, clockVars, verdict, told, found>>

(* select on the master: data, EIO once nobody holds the slave, or nothing. *)
Read ==
  /\ Goto("read", "while")
  /\ unread' = 0 /\ eof' = (unread = 0 /\ holding = {})
  /\ UNCHANGED <<alive, holding, stubborn, doomed, forked, exit, status, killed, clockVars,
                 verdict, told, found>>

-----------------------------------------------------------------------------
(* except KeyboardInterrupt *)
OnInterrupt ==
  /\ Interrupts /\ at \in Loop
  /\ IF "leader" \in alive
     THEN at' = "intwait" /\ Stop("CANCELLED")
     ELSE at' = "intdrain" /\ status' = "CANCELLED" /\ UNCHANGED <<told, procVars>>
  /\ UNCHANGED <<eof, killed, clockVars, verdict, found>>

LeaderGone == "leader" \notin alive /\ UNCHANGED procVars

IntWait ==
  /\ \/ Goto("intwait", "intdrain") /\ LeaderGone
     \/ Goto("intwait", "intreap") /\ "leader" \in alive /\ SigKill
  /\ UNCHANGED <<eof, status, killed, clockVars, verdict, told, found>>

IntReap ==
  /\ Goto("intreap", "intdrain") /\ LeaderGone
  /\ UNCHANGED <<eof, status, killed, clockVars, verdict, told, found>>

(* Bytes still pending are read until nothing comes for 50 ms.              *)
IntDrain ==
  /\ at = "intdrain"
  /\ at' = IF unread = 0 THEN "raised" ELSE "intdrain"
  /\ unread' = 0
  /\ UNCHANGED <<alive, holding, stubborn, doomed, forked, exit, eof, status, killed, clockVars,
                 verdict, told, found>>

(* except BaseException *)
Break ==
  /\ Breaks /\ at = "read" /\ unread > 0
  /\ IF "leader" \in alive THEN at' = "breakreap" /\ SigKill ELSE at' = "failed" /\ UNCHANGED procVars
  /\ UNCHANGED <<eof, status, killed, clockVars, verdict, told, found>>

BreakReap ==
  /\ Goto("breakreap", "failed") /\ LeaderGone
  /\ UNCHANGED <<eof, status, killed, clockVars, verdict, told, found>>

-----------------------------------------------------------------------------
(* The processes. *)
mainVars == <<eof, status, killed, clockVars, at, verdict, told, found>>

Fork(p) ==
  /\ p \in Kids \ forked /\ "leader" \in alive
  /\ alive' = alive \cup {p} /\ forked' = forked \cup {p}
  /\ holding' = IF "leader" \in holding THEN holding \cup {p} ELSE holding
  /\ UNCHANGED <<stubborn, doomed, exit, unread, mainVars>>

Write(p) ==
  /\ p \in holding /\ at \notin Left /\ unread < MaxUnread /\ unread' = unread + 1
  /\ UNCHANGED <<alive, holding, stubborn, doomed, forked, exit, mainVars>>

CloseTty(p) ==
  /\ p \in holding /\ holding' = holding \ {p}
  /\ UNCHANGED <<alive, stubborn, doomed, forked, exit, unread, mainVars>>

EndOf(p) ==
  /\ p \in alive /\ alive' = alive \ {p} /\ holding' = holding \ {p} /\ doomed' = doomed \ {p}
  /\ exit' \in IF p = "leader" THEN {"zero", "other"} ELSE {exit}
  /\ UNCHANGED <<stubborn, forked, unread, mainVars>>

DieOfSigTerm(p) == p \in doomed /\ EndOf(p)

(* The clock, and Ctrl-C in the main thread (the cancel event). *)
Lapse == /\ at \in Loop /\ ~lapsed /\ lapsed' = TRUE
         /\ UNCHANGED <<procVars, eof, status, killed, due, cancel, at, verdict, told, found>>
Due == /\ at \in Loop /\ status # "SUCCESS" /\ ~due /\ due' = TRUE
       /\ UNCHANGED <<procVars, eof, status, killed, lapsed, cancel, at, verdict, told, found>>
Cancel == /\ at \in Loop /\ ~cancel /\ cancel' = TRUE
          /\ UNCHANGED <<procVars, eof, status, killed, lapsed, due, at, verdict, told, found>>

-----------------------------------------------------------------------------
Main == Popen \/ Continue \/ Return \/ CheckTimeout \/ CheckCancel \/ CheckKill \/ Read
        \/ IntWait \/ IntReap \/ IntDrain \/ BreakReap

Environment == Lapse \/ Due \/ Cancel
               \/ \E p \in Proc : Fork(p) \/ Write(p) \/ CloseTty(p) \/ EndOf(p)

AllGone == at \in Left /\ alive = {} /\ UNCHANGED ptyVars

PtyNext == Main \/ OnInterrupt \/ Break \/ Environment \/ AllGone

PtySpec == PtyInit /\ [][PtyNext]_ptyVars

(* This thread and the clock run, and SIGTERM ends whom it is delivered to. *)
PtyFairSpec == PtySpec /\ WF_ptyVars(Main) /\ WF_ptyVars(Lapse) /\ WF_ptyVars(Due)
                       /\ \A p \in Proc : WF_ptyVars(DieOfSigTerm(p))

-----------------------------------------------------------------------------
(* Output is saved byte for byte: run_pty only returns when every byte that *)
(* was written is in the file and nobody can write another.                 *)
OutputSaved == at = "returned" => unread = 0 /\ holding = {}

(* However run_pty ends, the leader is gone and reaped, and nobody who was   *)
(* in the group when the verdict was set is left without a signal: a        *)
(* survivor is about to end or ignores SIGTERM, and none is left once        *)
(* SIGKILL was sent.  A group whose leader is gone when KeyboardInterrupt     *)
(* or an error arrives is not signalled at all: told leaves it out.          *)
NobodyForgotten == at \in Left =>
  /\ "leader" \notin alive
  /\ told \cap alive \subseteq doomed \cup stubborn
  /\ killed => alive \cap Group = {}

(* Timeout, cancellation and the end of the command race for the verdict,   *)
(* and the first one met stands.  A verdict by exit code means that nobody  *)
(* was signalled and that no test met the cancellation; where one met the   *)
(* cancellation alone, a deadline that passes while the command is being    *)
(* ended does not make it a TIMEOUT; and where one met the deadline, it is  *)
(* CANCELLED only if the leader had ended by then, so that the timeout was  *)
(* passed over.                                                             *)
FirstReasonStands == at = "returned" =>
  /\ verdict \in {"SUCCESS", "FAILED"} =>
       told = {} /\ ~killed /\ "cancel" \notin found /\ (verdict = "SUCCESS" <=> exit = "zero")
  /\ found = {"cancel"} => verdict = "CANCELLED"
  /\ "lapsed" \in found /\ "leader" \in told => verdict = "TIMEOUT"

(* The timeout bounds run_pty, also when the command ignores SIGTERM, as    *)
(* long as no process outside the group keeps the terminal open.  The drain *)
(* after a KeyboardInterrupt has no deadline: a child that outlives the     *)
(* leader may keep it busy.                                                 *)
Ends == []<>(Strays \cap holding = {}) => <>(at \in Left \/ at = "intdrain")
=============================================================================
