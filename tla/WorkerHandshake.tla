--------------------------- MODULE WorkerHandshake --------------------------
(***************************************************************************)
(* One TerminalManager._execute_once (src/scr/core/terminal.py) against the *)
(* worker process it launches in a terminal (src/scr/core/worker.py) and    *)
(* the cancellation of the scan (orchestrator.cancel_workers).  They share  *)
(* nothing but two files: the pidfile, which exists while the worker is     *)
(* inside its try block, and the metadata, written when the command ends.   *)
(* The worker may start late, be killed, raise or meet Ctrl-C, and the      *)
(* terminal may be closed, all in one run.                                  *)
(* Definitions named Fault... are plausible bugs that no action uses.       *)
(***************************************************************************)
EXTENDS Naturals

VARIABLES onMain,     \* execute() runs in the main thread (discovery), not in the pool
          poll,       \* where _execute_once is
          launcher,   \* what launcher.poll() shows: None, 0, or an error code
          worker,     \* where the worker process is
          pid, meta,  \* the two files; meta holds the recorded state
          late,       \* startup_deadline has passed
          runners,    \* who has run the command: "worker", "inline"
          cancelled,  \* PROCESS_CANCEL_EVENT is set, or the interrupt was raised
          term,       \* KeyboardInterrupt was raised in the worker's command
          result      \* what _execute_once returned

files == <<pid, meta>>
handVars == <<onMain, poll, launcher, worker, pid, meta, late, runners, cancelled, term, result>>

(* The states a run can record; FAILED stands for TIMEOUT too. *)
Recorded == {"SUCCESS", "FAILED", "CANCELLED"}
Alive == {"starting", "pid", "running", "wrote"}
Settled == {"done", "raised"}

HandInit ==
  /\ onMain \in BOOLEAN /\ poll = "launch" /\ launcher = "none" /\ worker = "unborn"
  /\ pid = FALSE /\ meta = "none" /\ late = FALSE /\ runners = {}
  /\ cancelled = FALSE /\ term = FALSE /\ result = "none"

-----------------------------------------------------------------------------
(* _execute_once.  Each test of the polling loop reads its file by itself.  *)

(* A terminal is opened, or there is none, or the manifest cannot be        *)
(* written.                                                                 *)
Launch ==
  /\ poll = "launch"
  /\ \/ poll' = "meta" /\ launcher' = "up"
     \/ poll' \in {"inline", "raised"} /\ UNCHANGED launcher
  /\ UNCHANGED <<onMain, worker, files, late, runners, cancelled, term, result>>

CheckMeta ==
  /\ poll = "meta"
  /\ poll' = IF meta # "none" THEN "read" ELSE "launcher"
  /\ UNCHANGED <<onMain, launcher, worker, files, late, runners, cancelled, term, result>>

FaultCheckLauncher ==
  /\ poll = "launcher" /\ poll' = IF launcher # "up" THEN "inline" ELSE "deadline"
  /\ UNCHANGED <<onMain, launcher, worker, files, late, runners, cancelled, term, result>>

CheckLauncher ==
  /\ poll = "launcher"
  /\ poll' = IF ~pid /\ launcher = "error" THEN "inline" ELSE "deadline"
  /\ UNCHANGED <<onMain, launcher, worker, files, late, runners, cancelled, term, result>>

FaultCheckDeadline ==
  /\ poll = "deadline" /\ poll' = "meta"
  /\ UNCHANGED <<onMain, launcher, worker, files, late, runners, cancelled, term, result>>

CheckDeadline ==
  /\ poll = "deadline"
  /\ IF ~pid /\ late
     THEN poll' = "inline" /\ launcher' = IF launcher = "up" THEN "terminated" ELSE launcher
     ELSE poll' = "meta" /\ UNCHANGED launcher
  /\ UNCHANGED <<onMain, worker, files, late, runners, cancelled, term, result>>

(* runner.run(task) in this thread.  The cancel event ends the command as   *)
(* CANCELLED, unless it ended, failed or timed out before the event is next *)
(* looked at.  The metadata may be impossible to write.                     *)
InlineStart ==
  /\ poll = "inline" /\ "inline" \notin runners
  /\ runners' = runners \cup {"inline"}
  /\ UNCHANGED <<onMain, poll, launcher, worker, files, late, cancelled, term, result>>

InlineEnd ==
  /\ poll = "inline" /\ "inline" \in runners
  /\ \/ /\ meta' \in IF cancelled THEN Recorded ELSE Recorded \ {"CANCELLED"}
        /\ result' = meta' /\ poll' = "done"
     \/ poll' = "raised" /\ UNCHANGED <<meta, result>>
  /\ UNCHANGED <<onMain, launcher, worker, pid, late, runners, cancelled, term>>

FaultReadMeta ==
  /\ poll = "read" /\ poll' = "done"
  /\ result' = IF meta = "CANCELLED" THEN "FAILED" ELSE meta
  /\ UNCHANGED <<onMain, launcher, worker, files, late, runners, cancelled, term>>

ReadMeta ==
  /\ poll = "read" /\ poll' = "done" /\ result' = meta
  /\ UNCHANGED <<onMain, launcher, worker, files, late, runners, cancelled, term>>

-----------------------------------------------------------------------------
(* SIGTERM to the process named by the pidfile, or Ctrl-C typed in its      *)
(* terminal: both raise KeyboardInterrupt in the worker.  Before worker.run *)
(* enters its try block that ends the worker with the pidfile left behind.  *)
(* Within it, it ends the command as CANCELLED, or arrives outside          *)
(* CommandRunner.run's own try: then the pidfile is removed and no metadata *)
(* is written.  Nothing is sent while the file is empty, nor when a second  *)
(* Ctrl-C gets the sender first.  A worker that has written its metadata    *)
(* only ends sooner, which UnlinkPid and Die allow.                         *)
KeyboardInterrupt ==
  \/ worker = "pid" /\ worker' = "dead" /\ UNCHANGED <<pid, term>>
  \/ worker = "running" /\ term' = TRUE /\ UNCHANGED <<worker, pid>>
  \/ worker \in {"pid", "running"} /\ worker' = "exited" /\ pid' = FALSE /\ UNCHANGED term

Terminate == (pid /\ KeyboardInterrupt) \/ UNCHANGED <<worker, pid, term>>

(* The scheduler's cancel_callback: orchestrator.cancel_workers.            *)
CancelWorkers ==
  /\ ~cancelled /\ ~onMain /\ poll \notin Settled
  /\ cancelled' = TRUE /\ Terminate
  /\ UNCHANGED <<onMain, poll, launcher, meta, late, runners, result>>

(* What Ctrl-C in the main thread finds in the metadata: in runner.run it   *)
(* writes CANCELLED and is raised again, except before and after the try,   *)
(* where it leaves no metadata or the verdict just written.                 *)
MetaAtInterrupt ==
  {meta} \cup IF poll = "inline" /\ "inline" \in runners THEN Recorded ELSE {}

(* KeyboardInterrupt within the try of _execute_once, whose handler ends    *)
(* the worker, also when the command runs in this thread.                   *)
Interrupt ==
  /\ ~cancelled /\ onMain
  /\ poll \in {"meta", "launcher", "deadline"} \/ (poll = "inline" /\ launcher # "none")
  /\ cancelled' = TRUE /\ poll' = "waitpid" /\ meta' \in MetaAtInterrupt /\ Terminate
  /\ UNCHANGED <<onMain, launcher, late, runners, result>>

(* It waits for the pidfile to go, for 3 s at most, or for another Ctrl-C.  *)
Raise ==
  /\ poll = "waitpid" /\ poll' = "raised"
  /\ launcher' \in {launcher, IF launcher = "up" THEN "terminated" ELSE launcher}
  /\ UNCHANGED <<onMain, worker, files, late, runners, cancelled, term, result>>

(* Before and after that try nobody ends the worker, nor the terminal that  *)
(* was just opened.                                                         *)
InterruptOutside ==
  /\ ~cancelled /\ onMain
  /\ poll \in {"launch", "read"} \/ (poll = "inline" /\ launcher = "none")
  /\ cancelled' = TRUE /\ poll' = "raised" /\ meta' \in MetaAtInterrupt
  /\ launcher' \in {launcher} \cup IF poll = "launch" THEN {"up"} ELSE {}
  /\ UNCHANGED <<onMain, worker, pid, late, runners, term, result>>

-----------------------------------------------------------------------------
(* The terminal.  foot stays and tmux exits at once; both start the worker, *)
(* and then a shell takes its place.                                        *)
TerminalOpens ==
  /\ launcher \in {"up", "zero"} /\ worker = "unborn"
  /\ worker' = "starting"
  /\ UNCHANGED <<onMain, poll, launcher, files, late, runners, cancelled, term, result>>

(* It may end at any time with any code: it fails to open, is closed, or    *)
(* passes on the code of the shell.                                         *)
TerminalEnds ==
  /\ launcher = "up" /\ launcher' \in {"zero", "error"}
  /\ UNCHANGED <<onMain, poll, worker, files, late, runners, cancelled, term, result>>

TypedCtrlC ==
  /\ KeyboardInterrupt
  /\ UNCHANGED <<onMain, poll, launcher, meta, late, runners, cancelled, result>>

(* Terminating the terminal hangs up on the worker in it. *)
HangUp ==
  /\ launcher = "terminated" /\ worker \in Alive
  /\ worker' = "dead"
  /\ UNCHANGED <<onMain, poll, launcher, files, late, runners, cancelled, term, result>>

-----------------------------------------------------------------------------
(* worker.run and the CommandRunner.run it calls. *)
WritePid ==
  /\ worker = "starting" /\ worker' = "pid" /\ pid' = TRUE
  /\ UNCHANGED <<onMain, poll, launcher, meta, late, runners, cancelled, term, result>>

RunCommand ==
  /\ worker = "pid" /\ worker' = "running" /\ runners' = runners \cup {"worker"}
  /\ UNCHANGED <<onMain, poll, launcher, files, late, cancelled, term, result>>

WriteMeta ==
  /\ worker = "running" /\ worker' = "wrote"
  /\ meta' \in IF term THEN {"CANCELLED"} ELSE {"SUCCESS", "FAILED"}
  /\ UNCHANGED <<onMain, poll, launcher, pid, late, runners, cancelled, term, result>>

(* The command line cannot be shown, or the metadata not be written. *)
WorkerRaises ==
  /\ worker \in {"pid", "running"} /\ worker' = "exited" /\ pid' = FALSE
  /\ UNCHANGED <<onMain, poll, launcher, meta, late, runners, cancelled, term, result>>

UnlinkPid ==
  /\ worker = "wrote" /\ worker' = "exited" /\ pid' = FALSE
  /\ UNCHANGED <<onMain, poll, launcher, meta, late, runners, cancelled, term, result>>

Die ==
  /\ worker \in Alive /\ worker' = "dead"
  /\ UNCHANGED <<onMain, poll, launcher, files, late, runners, cancelled, term, result>>

(* The startup deadline passes. *)
Tick ==
  /\ ~late /\ late' = TRUE
  /\ UNCHANGED <<onMain, poll, launcher, worker, files, runners, cancelled, term, result>>

-----------------------------------------------------------------------------
Poller == Launch \/ CheckMeta \/ CheckLauncher \/ CheckDeadline \/ InlineStart \/ InlineEnd
          \/ ReadMeta \/ Raise
Command == RunCommand \/ WriteMeta \/ UnlinkPid
Terminal == TerminalOpens \/ TerminalEnds \/ TypedCtrlC \/ HangUp

Quiet == poll \in Settled /\ worker \notin Alive /\ UNCHANGED handVars

HandNext == Poller \/ WritePid \/ Command \/ WorkerRaises \/ Terminal \/ CancelWorkers
            \/ Interrupt \/ InterruptOutside \/ Die \/ Tick \/ Quiet

HandSpec == HandInit /\ [][HandNext]_handVars

(* Threads run, commands time out and the deadline passes; whether and when *)
(* a terminal opens and a worker gets to its pidfile is left open.          *)
HandFairSpec == HandSpec /\ WF_handVars(Poller) /\ WF_handVars(Command) /\ WF_handVars(Tick)

-----------------------------------------------------------------------------
Stopped == {r \in runners : IF r = "worker" THEN term ELSE cancelled}

RR == INSTANCE RemoteRun WITH Runner <- {"worker", "inline"}, Verdict <- Recorded, Cancelled <- "CANCELLED",
        None <- "none", begun <- runners, stopped <- Stopped, lost <- late \/ launcher = "error",
        record <- meta, told <- result, raised <- poll \in {"waitpid", "raised"}

(* The two files and the polling loop amount to one command with one        *)
(* verdict: it runs a second time only as the price of a missed startup     *)
(* deadline or of a terminal that ended with an error, never because a      *)
(* terminal exited 0, and only then may a verdict be replaced; CANCELLED is *)
(* left by nobody who was not stopped; and the caller is told once, and     *)
(* exactly what was left.                                                   *)
ImplementsRemoteRun == RR!RunSpec

(* What _execute_once returns is true.  When the worker alone ran the       *)
(* command it is CANCELLED just when the command was interrupted; whoever   *)
(* ran it, CANCELLED takes a Ctrl-C; and when all is quiet and the command  *)
(* ran only once, the metadata keeps what was returned.  A worker that is   *)
(* stopped outside the command's try leaves nothing to return; its command  *)
(* runs again after the startup deadline, cancelled only by the event.      *)
ResultIsTrue == poll = "done" =>
  /\ runners = {"worker"} => (result = "CANCELLED" <=> term)
  /\ result = "CANCELLED" => term \/ cancelled
  /\ worker \notin Alive /\ runners # {"worker", "inline"} => result = meta

(* _execute_once ends, unless a worker died and left its pidfile behind     *)
(* with no metadata: the polling loop has no other way out.                 *)
Orphaned == pid /\ worker = "dead" /\ meta = "none"
Returns == <>(poll \in Settled \/ Orphaned)
=============================================================================
