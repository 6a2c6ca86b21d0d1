----------------------------- MODULE Collector ------------------------------
(***************************************************************************)
(* CollectorServer (src/scr/core/collector.py) and collect()                *)
(* (src/scr/core/output.py) over the files of Evidence.  Workers hand the   *)
(* path of each finished output to a Unix datagram socket with a blocking   *)
(* send; the server thread of the main process opens the path later and     *)
(* prints what is there; orchestrator.run_services closes the server when   *)
(* the scheduler returns or is interrupted.  Workers without a terminal of  *)
(* their own, and installations, write to the same terminal meanwhile.      *)
(* Definitions named Fault... are plausible bugs that no action uses.       *)
(***************************************************************************)
EXTENDS Evidence

CONSTANTS Lines,       \* commands whose every piece ends with a newline
          Unreadable,  \* commands whose output cannot be opened by the main process
          LineLimit,   \* pieces of output the report prints
          Discovered,  \* where the outputs of discovery may have left the cursor
          QueueLen,    \* datagrams the socket holds before a send blocks
          Stop

ASSUME CollectorAssumption ==
  /\ LineLimit \in Nat /\ QueueLen \in Nat \ {0} /\ Discovered \subseteq {"start", "within"}
  /\ Stop \notin Command /\ None \notin Command \cup {Stop}

VARIABLES queue,     \* datagrams in the socket
          handed,    \* commands whose datagram was sent
          open,      \* the socket is bound and open
          srv, cur,  \* where the server thread is, and the output it prints
          running,   \* CollectorServer.running
          main,      \* where close() is
          reported,  \* outputs printed, or replaced by the over-limit notice
          printed,   \* what was printed of the current output
          changed,   \* {cur} if it was another content whose last byte was looked at
          cursor,    \* at the "start" of a line, "within" one, or "anywhere" since others wrote
          needsNewline,     \* what collect() recalls of it
          atClose, backlog  \* outputs handed over, and still queued, at close()

cursorVars == <<printed, changed, cursor, needsNewline>>
srvVars == <<srv, cur, reported, cursorVars>>
closeVars == <<running, main, atClose, backlog>>
vars == <<fileVars, queue, handed, open, srvVars, closeVars>>

(* collect() has already printed the discovery outputs in this process. *)
Init ==
  /\ EvidenceInit /\ queue = <<>> /\ handed = {} /\ open = TRUE
  /\ srv = "check" /\ cur = None /\ running = TRUE /\ main = "open"
  /\ reported = {} /\ atClose = {} /\ backlog = {} /\ printed = <<>> /\ changed = {}
  /\ cursor \in Discovered /\ needsNewline = (cursor = "within")

-----------------------------------------------------------------------------
(* collect() in a worker: the client socket blocks while the queue is full, *)
(* and an OSError (nobody listens) is swallowed.                            *)
Send(c) ==
  /\ phase[c] = "ended" /\ c.worker \in external
  /\ phase' = [phase EXCEPT ![c] = "collected"]
  /\ \/ /\ open /\ Len(queue) < QueueLen
        /\ queue' = Append(queue, c) /\ handed' = handed \cup {c}
     \/ ~open /\ UNCHANGED <<queue, handed>>
  /\ UNCHANGED <<wrote, file, disturbed, external, open, srvVars, closeVars>>

Work(c) == Send(c) \/ (Run(c) /\ UNCHANGED <<queue, handed, open, srvVars, closeVars>>)

(* What the terminal shows besides the report: the commands of a worker     *)
(* without a terminal of its own and the suggestions after them, as they    *)
(* are read from its PTY, and the output of installations.  None takes the  *)
(* lock of collect(), nor tells it where the cursor is left.                *)
Stream ==
  /\ cursor' = "anywhere"
  /\ UNCHANGED <<fileVars, queue, handed, open, srv, cur, reported, printed, changed, needsNewline,
                 closeVars>>

-----------------------------------------------------------------------------
(* The server thread. *)
Check ==
  /\ srv = "check" /\ srv' = IF running THEN "recv" ELSE "exited"
  /\ UNCHANGED <<fileVars, queue, handed, open, cur, reported, cursorVars, closeVars>>

Received(d) == IF d = Stop THEN "exited" ELSE "measure"

Recv ==
  /\ srv = "recv" /\ open /\ queue # <<>>
  /\ srv' = Received(Head(queue)) /\ cur' = Head(queue) /\ queue' = Tail(queue)
  /\ UNCHANGED <<fileVars, handed, open, reported, cursorVars, closeVars>>

(* The .2 s timeout of the socket, or its closing, ends the wait. *)
RecvNothing ==
  /\ srv = "recv" /\ (open => queue = <<>>)
  /\ srv' = IF open THEN "check" ELSE "exited"
  /\ UNCHANGED <<fileVars, queue, handed, open, cur, reported, cursorVars, closeVars>>

(* collect(force_local=True): an output that cannot be opened raises and is *)
(* skipped; a long one is replaced by a one-line notice.                    *)
Measure ==
  /\ srv = "measure"
  /\ \/ /\ cur \in Unreadable /\ srv' = "check"
        /\ UNCHANGED <<reported, cursorVars>>
     \/ /\ cur \notin Unreadable /\ Len(file[PathOf(cur)]) <= LineLimit /\ srv' = "show"
        /\ UNCHANGED <<reported, cursorVars>>
     \/ /\ cur \notin Unreadable /\ Len(file[PathOf(cur)]) > LineLimit /\ srv' = "check"
        /\ reported' = reported \cup {cur} /\ cursor' = "start"
        /\ UNCHANGED <<printed, changed, needsNewline>>
  /\ UNCHANGED <<fileVars, queue, handed, open, cur, closeVars>>

EndsOpen(content) == content # <<>> /\ Last(content) \notin Lines
After(content) == IF EndsOpen(content) THEN "within" ELSE "start"

FaultShow ==
  /\ srv = "show" /\ srv' = IF running THEN "recall" ELSE "exited"
  /\ printed' = file[PathOf(cur)] /\ cursor' = After(printed')
  /\ reported' = IF running THEN reported \cup {cur} ELSE reported
  /\ UNCHANGED <<fileVars, queue, handed, open, cur, changed, needsNewline, closeVars>>

(* The header, on a line of its own, and the content of the file.           *)
Show ==
  /\ srv = "show" /\ srv' = "recall"
  /\ printed' = file[PathOf(cur)] /\ cursor' = After(printed')
  /\ reported' = reported \cup {cur}
  /\ UNCHANGED <<fileVars, queue, handed, open, cur, changed, needsNewline, closeVars>>

FaultRecalled(content) == needsNewline /\ EndsOpen(content)
Recalled(content) == EndsOpen(content)

(* The file is opened once more for its last byte.                          *)
Recall ==
  /\ srv = "recall" /\ srv' = "check"
  /\ needsNewline' = Recalled(file[PathOf(cur)])
  /\ changed' = {c \in {cur} : file[PathOf(c)] # printed}
  /\ printed' = <<>>
  /\ UNCHANGED <<fileVars, queue, handed, open, cur, reported, cursor, closeVars>>

-----------------------------------------------------------------------------
(* close(), called by the finally of run_services.                          *)
CloseSend ==
  /\ main = "open" /\ Len(queue) < QueueLen
  /\ queue' = Append(queue, Stop) /\ main' = "flag"
  /\ atClose' = handed /\ backlog' = ToSet(queue)
  /\ UNCHANGED <<fileVars, handed, open, srvVars, running>>

CloseFlag ==
  /\ main = "flag" /\ running' = FALSE /\ main' = "join"
  /\ UNCHANGED <<fileVars, queue, handed, open, srvVars, atClose, backlog>>

(* join(timeout=2) returns whether or not the thread has ended.             *)
CloseJoin ==
  /\ main = "join" /\ main' = "shut"
  /\ UNCHANGED <<fileVars, queue, handed, open, srvVars, running, atClose, backlog>>

FaultCloseSocket ==
  /\ main = "shut" /\ main' = "closed"
  /\ UNCHANGED <<fileVars, queue, handed, open, srvVars, running, atClose, backlog>>

CloseSocket ==
  /\ main = "shut" /\ main' = "closed"
  /\ open' = FALSE /\ queue' = <<>>
  /\ UNCHANGED <<fileVars, handed, srvVars, running, atClose, backlog>>

-----------------------------------------------------------------------------
Workers == \E c \in Command : Work(c)
Server == Check \/ Recv \/ RecvNothing \/ Measure \/ Show \/ Recall
Close == CloseSend \/ CloseFlag \/ CloseJoin \/ CloseSocket

Over == main = "closed" /\ srv = "exited" /\ UNCHANGED vars

Next == Workers \/ Stream \/ Server \/ Close \/ Over

Spec == Init /\ [][Next]_vars

(* Threads are scheduled, the terminal accepts what is written to it, every *)
(* command ends, and run_services reaches its finally.                      *)
FairSpec == Spec /\ WF_vars(Server) /\ WF_vars(Close) /\ WF_vars(Workers)

-----------------------------------------------------------------------------
(* Only what was still queued when close() began can be missing; in         *)
(* particular the output being printed then is never dropped.               *)
OnlyBacklogIsLost == main = "closed" /\ srv = "exited" =>
                       atClose \ Unreadable \subseteq reported \cup backlog

(* A header never starts in the middle of an output's unterminated line,    *)
(* unless another worker of the service rewrote that output between the two *)
(* times it was opened, or what a worker without a terminal or an           *)
(* installation wrote since then is in between: collect() knows nothing of  *)
(* where that left the cursor.                                              *)
HeaderOnFreshLine == /\ srv # "recall" => cursor # "within" \/ needsNewline \/ changed # {}
                     /\ changed \subseteq disturbed

(* close() returns even if workers keep the socket full, and every worker   *)
(* gets past collect() to the parsing of its output: it hands the output    *)
(* over, or the closing of the socket frees it.                             *)
EverybodyReturns == <>(main = "closed" /\ \A c \in Command : phase[c] = "read")
=============================================================================
