--------------------------- MODULE CollectorProofs --------------------------
(***************************************************************************)
(* What the files of a scan and the server that prints them promise, for    *)
(* any commands and paths, sizes and lengths of the queue.  Solitary is why *)
(* a file holds the output of a command that nobody disturbed, Handed where *)
(* the datagrams are, and Cursor what collect() knows of the line it is on. *)
(***************************************************************************)
EXTENDS Collector, TLAPS

FileTypes ==
  /\ phase \in [Command -> {"idle", "running", "ended", "collected", "read"}]
  /\ wrote \in [Command -> Nat]
  /\ file \in [Path -> Seq(Command \cup {Hole})]
  /\ disturbed \subseteq Command

(* A command that another runs over, or ran over, is disturbed.             *)
Alone(c) ==
  /\ phase[c] = "idle" => wrote[c] = 0
  /\ phase[c] # "idle" /\ c \notin disturbed =>
       /\ \A d \in SamePath(c) : phase[d] # "running"
       /\ file[PathOf(c)] = Output(c)
  /\ c \in disturbed => SamePath(c) # {}

Solitary == \A c \in Command : Alone(c)

FileInv == FileTypes /\ Solitary

LEMMA Outputs ==
  ASSUME NEW n \in Nat, NEW c \in Command
  PROVE  /\ [k \in 1 .. n |-> c] \in Seq(Command \cup {Hole})
         /\ Len([k \in 1 .. n |-> c]) = n
         /\ Put([k \in 1 .. n |-> c], n + 1, c) = [k \in 1 .. n + 1 |-> c]
<1>1. [k \in 1 .. n |-> c] \in Seq(Command \cup {Hole}) /\ Len([k \in 1 .. n |-> c]) = n
  OBVIOUS
<1>2. Put([k \in 1 .. n |-> c], n + 1, c) = [k \in 1 .. n + 1 |-> c]
  BY <1>1 DEF Put
<1>3. QED
  BY <1>1, <1>2

LEMMA PutType ==
  ASSUME NEW s \in Seq(Command \cup {Hole}), NEW at \in Nat, NEW c \in Command
  PROVE  Put(s, at, c) \in Seq(Command \cup {Hole})
<1>1. Len(s) \in Nat /\ \A k \in 1 .. Len(s) : s[k] \in Command \cup {Hole}
  OBVIOUS
<1>2. PICK m \in Nat : m = IF at > Len(s) THEN at ELSE Len(s)
  BY <1>1
<1>3. \A k \in 1 .. m : (IF k = at THEN c ELSE IF k <= Len(s) THEN s[k] ELSE Hole) \in Command \cup {Hole}
  BY <1>1, <1>2
<1>4. QED
  BY <1>2, <1>3 DEF Put

LEMMA PathTypes == \A c \in Command : PathOf(c) \in Path
BY DEF Path

LEMMA FileStarts == EvidenceInit => FileInv
<1> SUFFICES ASSUME EvidenceInit PROVE FileInv
  OBVIOUS
<1>1. <<>> \in Seq(Command \cup {Hole})
  OBVIOUS
<1>2. FileTypes
  BY <1>1 DEF EvidenceInit, FileTypes
<1>3. Solitary
  BY DEF EvidenceInit, Solitary, Alone
<1>4. QED
  BY <1>2, <1>3 DEF FileInv

LEMMA Sharing ==
  ASSUME NEW c \in Command, NEW d \in Command
  PROVE  /\ c \in SamePath(d) <=> c # d /\ PathOf(c) = PathOf(d)
         /\ SamePath(c) \subseteq Command
BY DEF SamePath

LEMMA BeginInv == ASSUME FileInv, NEW c \in Command, Begin(c) PROVE FileInv'
<1> USE DEF FileInv, FileTypes
<1>1. FileTypes'
  <2>1. <<>> \in Seq(Command \cup {Hole})
    OBVIOUS
  <2>2. Disturbed(c) \subseteq Command
    BY DEF Disturbed, SamePath
  <2>3. QED
    BY <2>1, <2>2 DEF Begin
<1>2. ASSUME NEW d \in Command PROVE Alone(d)'
  <2>1. Alone(d) /\ Output(d)' = Output(d) /\ UNCHANGED wrote
    BY DEF Solitary, Output, Begin
  <2>2. CASE d = c
    <3>1. wrote[c] = 0 /\ file'[PathOf(c)] = <<>>
      BY <2>1, <2>2, PathTypes DEF Begin, Alone
    <3>2. Output(c) = <<>>
      BY <3>1 DEF Output
    <3>3. \A e \in SamePath(c) : e # c /\ e \in Command
      BY Sharing
    <3>4. c \notin disturbed' => \A e \in SamePath(c) : phase'[e] # "running"
      BY <3>3 DEF Begin, Disturbed
    <3>5. c \in disturbed' => SamePath(c) # {}
      BY <2>1, <2>2 DEF Begin, Disturbed, Alone, SamePath
    <3>6. QED
      BY <2>1, <2>2, <3>1, <3>2, <3>4, <3>5 DEF Alone, Begin
  <2>3. CASE d # c /\ PathOf(d) = PathOf(c)
    <3>1. d \in SamePath(c) /\ c \in SamePath(d)
      BY <2>3, Sharing
    <3>2. phase[d] # "idle" => d \in disturbed'
      BY <3>1 DEF Begin, Disturbed
    <3>3. phase'[d] = phase[d]
      BY <2>3 DEF Begin
    <3>4. QED
      BY <2>1, <3>1, <3>2, <3>3 DEF Alone
  <2>4. CASE d # c /\ PathOf(d) # PathOf(c)
    <3>1. c \notin SamePath(d) /\ d \notin SamePath(c) /\ SamePath(d) \subseteq Command
      BY <2>4, Sharing
    <3>2. file'[PathOf(d)] = file[PathOf(d)] /\ \A e \in SamePath(d) \cup {d} : phase'[e] = phase[e]
      BY <2>4, <3>1, PathTypes DEF Begin
    <3>3. d \in disturbed' <=> d \in disturbed
      BY <2>4, <3>1 DEF Begin, Disturbed
    <3>4. QED
      BY <2>1, <3>2, <3>3 DEF Alone
  <2>5. QED
    BY <2>2, <2>3, <2>4
<1>3. QED
  BY <1>1, <1>2 DEF Solitary

LEMMA WriteInv == ASSUME FileInv, NEW c \in Command, Write(c) PROVE FileInv'
<1> USE DEF FileInv, FileTypes
<1>1. FileTypes'
  <2>1. wrote'[c] \in Nat /\ file[PathOf(c)] \in Seq(Command \cup {Hole})
    BY PathTypes DEF Write
  <2>2. Put(file[PathOf(c)], wrote'[c], c) \in Seq(Command \cup {Hole})
    BY <2>1, PutType
  <2>3. QED
    BY <2>1, <2>2 DEF Write
<1>2. ASSUME NEW d \in Command PROVE Alone(d)'
  <2>1. Alone(d) /\ UNCHANGED <<phase, disturbed>>
    BY DEF Solitary, Write
  <2>2. CASE d = c
    <3>1. phase[c] = "running" /\ wrote'[c] = wrote[c] + 1 /\ wrote[c] \in Nat
      BY DEF Write
    <3>2. c \notin disturbed => file'[PathOf(c)] = Output(c)'
      <4>1. SUFFICES ASSUME c \notin disturbed PROVE file'[PathOf(c)] = Output(c)'
        OBVIOUS
      <4>2. file[PathOf(c)] = [k \in 1 .. wrote[c] |-> c]
        BY <2>1, <2>2, <3>1, <4>1 DEF Alone, Output
      <4>3. file'[PathOf(c)] = Put(file[PathOf(c)], wrote[c] + 1, c)
        BY <3>1, PathTypes DEF Write
      <4>4. QED
        BY <3>1, <4>2, <4>3, Outputs DEF Output
    <3>3. QED
      BY <2>1, <2>2, <3>1, <3>2 DEF Alone
  <2>3. CASE d # c
    <3>1. wrote'[d] = wrote[d] /\ Output(d)' = Output(d)
      BY <2>3 DEF Write, Output
    <3>2. CASE PathOf(d) = PathOf(c)
      <4>1. c \in SamePath(d) /\ phase[c] = "running"
        BY <2>3, <3>2, Sharing DEF Write
      <4>2. QED
        BY <2>1, <3>1, <4>1 DEF Alone
    <3>3. CASE PathOf(d) # PathOf(c)
      <4>1. file'[PathOf(d)] = file[PathOf(d)]
        BY <3>3, PathTypes DEF Write
      <4>2. QED
        BY <2>1, <3>1, <4>1 DEF Alone
    <3>4. QED
      BY <3>2, <3>3
  <2>4. QED
    BY <2>2, <2>3
<1>3. QED
  BY <1>1, <1>2 DEF Solitary

(* A command that ends, is collected or read stops to write, and nothing    *)
(* else changes.                                                            *)
LEMMA OnwardsInv ==
  ASSUME FileInv, NEW c \in Command, phase[c] # "idle",
         NEW p \in {"ended", "collected", "read"}, phase' = [phase EXCEPT ![c] = p],
         UNCHANGED <<wrote, file, disturbed>>
  PROVE  FileInv'
<1> USE DEF FileInv, FileTypes
<1>1. ASSUME NEW d \in Command PROVE Alone(d)'
  <2>1. Alone(d) /\ Output(d)' = Output(d) /\ SamePath(d) \subseteq Command
    BY Sharing DEF Solitary, Output
  <2>2. (phase'[d] # "idle" <=> phase[d] # "idle")
        /\ \A e \in Command : phase'[e] = "running" => phase[e] = "running"
    OBVIOUS
  <2>3. QED
    BY <2>1, <2>2 DEF Alone
<1>2. QED
  BY <1>1 DEF Solitary

LEMMA StillInv == ASSUME FileInv, UNCHANGED fileVars PROVE FileInv'
BY DEF fileVars, FileInv, FileTypes, Solitary, Alone, Output

LEMMA RunInv == ASSUME FileInv, NEW c \in Command, Run(c) PROVE FileInv'
<1>1. CASE End(c)
  BY <1>1, OnwardsInv DEF End
<1>2. CASE ReadBack(c)
  BY <1>2, OnwardsInv DEF ReadBack
<1>3. QED
  BY <1>1, <1>2, BeginInv, WriteInv DEF Run

LEMMA WorkInv == ASSUME FileInv, NEW c \in Command, Work(c) PROVE FileInv'
<1>1. CASE Send(c)
  BY <1>1, OnwardsInv DEF Send
<1>2. QED
  BY <1>1, RunInv DEF Work

LEMMA ServerKeepsFiles == ASSUME Server PROVE UNCHANGED fileVars
BY DEF Server, Check, Recv, RecvNothing, Measure, Show, Recall

LEMMA StreamKeepsFiles == ASSUME Stream PROVE UNCHANGED fileVars
BY DEF Stream

LEMMA CloseKeepsFiles == ASSUME Close PROVE UNCHANGED fileVars
BY DEF Close, CloseSend, CloseFlag, CloseJoin, CloseSocket

LEMMA FileStep == FileInv /\ [Next]_vars => FileInv'
<1> SUFFICES ASSUME FileInv, [Next]_vars PROVE FileInv'
  OBVIOUS
<1>1. CASE Workers
  BY <1>1, WorkInv DEF Workers
<1>2. CASE UNCHANGED fileVars
  BY <1>2, StillInv
<1>3. QED
  BY <1>1, <1>2, ServerKeepsFiles, StreamKeepsFiles, CloseKeepsFiles DEF Next, Over, vars

THEOREM FilesSound == Spec => []FileInv
<1>1. Init => FileInv
  BY FileStarts DEF Init
<1>2. QED
  BY <1>1, FileStep, PTL DEF Spec

(* The worker of another command on the path of a command differs from its  *)
(* own in what the key leaves out.                                          *)
LEMMA Rivals ==
  ASSUME NEW c \in Command, NEW d \in SamePath(c)
  PROVE  IF PortInKey(c) THEN d.worker.transport # c.worker.transport ELSE d.worker # c.worker
<1>1. d \in Command /\ d # c /\ PathOf(d) = PathOf(c)
  BY DEF SamePath
<1>2. /\ d.worker.service = c.worker.service /\ d.label = c.label /\ d.resource = c.resource
      /\ (IF PortInKey(d) THEN d.worker.port ELSE None) = (IF PortInKey(c) THEN c.worker.port ELSE None)
  BY <1>1 DEF PathOf
<1>3. PortInKey(d) <=> PortInKey(c)
  BY <1>2 DEF PortInKey
<1>4. d.worker # c.worker
  BY <1>1, <1>2, EvidenceAssumption
<1>5. PortInKey(c) => d.worker.port = c.worker.port
  BY <1>2, <1>3
<1>6. PortInKey(c) => d.worker.transport # c.worker.transport
  BY <1>1, <1>2, <1>4, <1>5, EvidenceAssumption
<1>7. QED
  BY <1>4, <1>6

(* A module parses, and the report prints, the whole output of its command  *)
(* and nothing else, unless a worker that the command's key does not tell   *)
(* from its own has opened the path (PathOf of every module, run_pty).      *)
THEOREM EvidenceStays == Spec => []EvidenceKept
<1>1. FileInv => EvidenceKept
  <2> SUFFICES ASSUME FileInv, NEW c \in Command
               PROVE  /\ phase[c] \in {"ended", "collected", "read"} /\ c \notin disturbed
                           => file[PathOf(c)] = Output(c)
                      /\ c \in disturbed => \E d \in SamePath(c) :
                           IF PortInKey(c) THEN d.worker.transport # c.worker.transport
                           ELSE d.worker # c.worker
    BY DEF EvidenceKept
  <2>1. Alone(c)
    BY DEF FileInv, Solitary
  <2>2. QED
    BY <2>1, Rivals DEF Alone
<1>2. QED
  BY <1>1, FilesSound, PTL

-----------------------------------------------------------------------------
(* Every datagram was sent by a command whose output is complete, and so    *)
(* was the one that the server prints.                                      *)
Handed ==
  /\ \A c \in handed : c \in Command /\ phase[c] \in {"collected", "read"}
  /\ queue \in Seq(Command \cup {Stop})
  /\ ToSet(queue) \subseteq handed \cup {Stop}
  /\ srv \in {"measure", "show", "recall"} => cur \in handed

(* Between the two times it opens an output, the server is at the end of    *)
(* what it printed, unless others wrote since, and that is what is still    *)
(* there, unless disturbed.                                                 *)
StillThere == srv = "recall" => /\ cursor \in {"anywhere", After(printed)}
                                /\ cur \notin disturbed => file[PathOf(cur)] = printed

Cursor == StillThere /\ HeaderOnFreshLine

InHand == {c \in {cur} : srv \in {"measure", "show"}}

(* An output handed over is printed, queued, or in the server's hands.      *)
Accounted ==
  /\ main = "open" => handed \ Unreadable \subseteq reported \cup ToSet(queue) \cup InHand
  /\ main # "open" => atClose \ Unreadable \subseteq reported \cup backlog \cup InHand

LEMMA Queued ==
  ASSUME NEW S, NEW s \in Seq(S)
  PROVE  /\ \A e \in S : Append(s, e) \in Seq(S) /\ ToSet(Append(s, e)) = ToSet(s) \cup {e}
         /\ s # <<>> => /\ Tail(s) \in Seq(S) /\ Head(s) \in ToSet(s)
                        /\ ToSet(s) = ToSet(Tail(s)) \cup {Head(s)}
         /\ ToSet(s) \subseteq S
<1>1. ASSUME NEW e \in S PROVE ToSet(Append(s, e)) = ToSet(s) \cup {e}
  <2>1. Len(s) \in Nat /\ DOMAIN s = 1 .. Len(s) /\ DOMAIN Append(s, e) = 1 .. Len(s) + 1
    OBVIOUS
  <2>2. \A i \in 1 .. Len(s) : i \in DOMAIN Append(s, e) /\ Append(s, e)[i] = s[i]
    OBVIOUS
  <2>3. Append(s, e)[Len(s) + 1] = e /\ Len(s) + 1 \in DOMAIN Append(s, e)
    OBVIOUS
  <2>4. \A i \in DOMAIN Append(s, e) : i \in DOMAIN s \/ i = Len(s) + 1
    BY <2>1
  <2>5. QED
    BY <2>1, <2>2, <2>3, <2>4 DEF ToSet
<1>2. ASSUME s # <<>> PROVE Head(s) \in ToSet(s) /\ ToSet(s) = ToSet(Tail(s)) \cup {Head(s)}
  <2>1. Len(s) \in Nat \ {0} /\ DOMAIN s = 1 .. Len(s) /\ DOMAIN Tail(s) = 1 .. Len(s) - 1 /\ Head(s) = s[1]
    BY <1>2
  <2>2. \A i \in 1 .. Len(s) - 1 : Tail(s)[i] = s[i + 1] /\ i + 1 \in DOMAIN s
    BY <1>2, <2>1
  <2>3. \A i \in DOMAIN s : i = 1 \/ (i - 1 \in DOMAIN Tail(s) /\ Tail(s)[i - 1] = s[i])
    BY <1>2, <2>1
  <2>4. Head(s) \in ToSet(s)
    BY <2>1 DEF ToSet
  <2>5. ToSet(Tail(s)) \subseteq ToSet(s)
    BY <2>1, <2>2 DEF ToSet
  <2>6. ToSet(s) \subseteq ToSet(Tail(s)) \cup {Head(s)}
    BY ZenonT(30), <2>1, <2>3 DEF ToSet
  <2>7. QED
    BY <2>4, <2>5, <2>6
<1>3. ToSet(s) \subseteq S
  BY DEF ToSet
<1>4. QED
  BY <1>1, <1>2, <1>3

SentInv == FileInv /\ Handed /\ Cursor /\ Accounted

(* A command that was handed over writes no more, so nothing that the       *)
(* server looks at changes without a disturbance.                           *)
LEMMA HandedOver ==
  ASSUME FileInv, Handed, NEW c \in Command, Work(c), NEW d \in handed
  PROVE  phase'[d] \in {"collected", "read"} /\ wrote'[d] = wrote[d]
<1>1. d \in Command /\ phase[d] \in {"collected", "read"}
  BY DEF Handed
<1> USE <1>1 DEF FileInv, FileTypes
<1>2. CASE Send(c)
  BY <1>2 DEF Send
<1>3. CASE Begin(c) /\ UNCHANGED handed
  BY <1>3 DEF Begin
<1>4. CASE Write(c) /\ UNCHANGED handed
  BY <1>4 DEF Write
<1>5. CASE (End(c) \/ ReadBack(c)) /\ UNCHANGED handed
  BY <1>5 DEF End, ReadBack
<1>6. QED
  BY <1>2, <1>3, <1>4, <1>5 DEF Work, Run

LEMMA DisturbedGrows == ASSUME NEW c \in Command, Work(c) PROVE disturbed \subseteq disturbed'
BY DEF Work, Send, Run, Begin, Write, End, ReadBack

LEMMA WorkHanded ==
  ASSUME SentInv, NEW c \in Command, Work(c)
  PROVE  Handed' /\ Cursor' /\ Accounted'
<1> USE DEF SentInv
<1>1. UNCHANGED <<srvVars, closeVars>>
  BY DEF Work, Send
<1>2. \/ /\ queue' = Append(queue, c) /\ handed' = handed \cup {c}
         /\ phase'[c] = "collected"
      \/ UNCHANGED <<queue, handed>>
  BY DEF Work, Send, FileInv, FileTypes
<1>3. \A d \in handed : d \in Command /\ phase'[d] \in {"collected", "read"} /\ wrote'[d] = wrote[d]
  BY HandedOver DEF Handed
<1>4. queue' \in Seq(Command \cup {Stop}) /\ handed \subseteq handed'
  BY <1>2, Queued DEF Handed
<1>5. \/ handed' = handed \cup {c} /\ ToSet(queue') = ToSet(queue) \cup {c}
      \/ handed' = handed /\ ToSet(queue') = ToSet(queue)
  <2>1. queue \in Seq(Command \cup {Stop}) /\ c \in Command \cup {Stop}
    BY DEF Handed
  <2>2. ToSet(Append(queue, c)) = ToSet(queue) \cup {c}
    BY <2>1, Queued
  <2>3. QED
    BY <1>2, <2>2
<1>6. ToSet(queue') \subseteq handed' \cup {Stop}
  BY <1>5 DEF Handed
<1>7. Handed'
  BY <1>1, <1>2, <1>3, <1>4, <1>6 DEF Handed, srvVars
<1>8. Cursor'
  <2>1. changed' \subseteq disturbed'
    BY <1>1, DisturbedGrows DEF Cursor, StillThere, HeaderOnFreshLine, srvVars, cursorVars
  <2>2. ASSUME srv = "recall", cur \notin disturbed' PROVE file'[PathOf(cur)] = printed
    <3>1. cur \in handed /\ cur \in Command /\ cur \notin disturbed /\ wrote'[cur] = wrote[cur]
      BY <1>3, <2>2, DisturbedGrows DEF Handed
    <3>2. phase[cur] # "idle" /\ phase'[cur] # "idle"
      BY <1>3, <3>1 DEF Handed
    <3>3. file[PathOf(cur)] = Output(cur) /\ file[PathOf(cur)] = printed
      BY <2>2, <3>1, <3>2 DEF FileInv, Solitary, Alone, Cursor, StillThere
    <3>4. FileInv'
      BY WorkInv
    <3>5. file'[PathOf(cur)] = Output(cur)'
      BY <1>1, <2>2, <3>1, <3>2, <3>4 DEF FileInv, Solitary, Alone, srvVars
    <3>6. Output(cur)' = Output(cur)
      BY <3>1, <1>1 DEF Output, srvVars
    <3>7. QED
      BY <3>3, <3>5, <3>6
  <2>3. QED
    BY <1>1, <2>1, <2>2 DEF Cursor, StillThere, HeaderOnFreshLine, srvVars, cursorVars, EndsOpen, After
<1>9. Accounted'
  BY <1>1, <1>5 DEF Accounted, InHand, srvVars, closeVars
<1>10. QED
  BY <1>7, <1>8, <1>9

LEMMA ServerHanded ==
  ASSUME SentInv, Server
  PROVE  Handed' /\ Cursor' /\ Accounted'
<1> USE DEF SentInv, srvVars, cursorVars, closeVars, fileVars
<1>1. CASE Check
  <2>1. Handed'
    BY <1>1 DEF Check, Handed
  <2>2. Cursor'
    BY <1>1 DEF Check, Cursor, StillThere, HeaderOnFreshLine
  <2>3. Accounted'
    BY <1>1 DEF Check, Accounted, InHand
  <2>4. QED
    BY <2>1, <2>2, <2>3
<1>2. CASE Recv
  <2>1. /\ Tail(queue) \in Seq(Command \cup {Stop}) /\ Head(queue) \in ToSet(queue)
        /\ ToSet(queue) = ToSet(Tail(queue)) \cup {Head(queue)}
    BY <1>2, Queued DEF Recv, Handed
  <2>2. /\ srv' = "measure" \/ srv' = "exited"
        /\ srv' = "measure" => Head(queue) # Stop
        /\ Head(queue) # Stop => srv' = "measure"
        /\ cur' = Head(queue) /\ queue' = Tail(queue)
    BY <1>2 DEF Recv, Received
  <2>3. Handed'
    BY <1>2, <2>1, <2>2 DEF Recv, Handed
  <2>4. Cursor'
    BY <1>2, <2>2 DEF Recv, Cursor, StillThere, HeaderOnFreshLine
  <2>5. Stop \notin handed
    BY CollectorAssumption DEF Handed
  <2>6. Accounted'
    BY <1>2, <2>1, <2>2, <2>5 DEF Recv, Accounted, InHand
  <2>7. QED
    BY <2>3, <2>4, <2>6
<1>3. CASE RecvNothing
  <2>1. Handed'
    BY <1>3 DEF RecvNothing, Handed
  <2>2. Cursor'
    BY <1>3 DEF RecvNothing, Cursor, StillThere, HeaderOnFreshLine
  <2>3. Accounted'
    BY <1>3 DEF RecvNothing, Accounted, InHand
  <2>4. QED
    BY <2>1, <2>2, <2>3
<1>4. CASE Measure
  <2>1. Handed'
    BY <1>4 DEF Measure, Handed
  <2>2. Cursor'
    BY <1>4 DEF Measure, Cursor, StillThere, HeaderOnFreshLine
  <2>3. Accounted'
    BY <1>4 DEF Measure, Accounted, InHand
  <2>4. QED
    BY <2>1, <2>2, <2>3
<1>5. CASE Show
  <2>1. Handed'
    BY <1>5 DEF Show, Handed
  <2>2. Cursor'
    BY <1>5 DEF Show, Cursor, StillThere, HeaderOnFreshLine
  <2>3. Accounted'
    BY <1>5 DEF Show, Accounted, InHand
  <2>4. QED
    BY <2>1, <2>2, <2>3
<1>6. CASE Recall
  <2>0. StillThere'
    BY <1>6 DEF Recall, StillThere
  <2>1. Handed'
    BY <1>6 DEF Recall, Handed
  <2>2. HeaderOnFreshLine'
    <3>1. CASE file[PathOf(cur)] = printed
      <4>1. /\ changed' = {} /\ needsNewline' = EndsOpen(printed)
            /\ cursor' = cursor /\ cursor \in {"anywhere", After(printed)}
        BY <1>6, <3>1 DEF Recall, Recalled, Cursor, StillThere
      <4>2. cursor' # "within" \/ needsNewline'
        BY <4>1 DEF After
      <4>3. QED
        BY <4>1, <4>2 DEF HeaderOnFreshLine
    <3>2. CASE file[PathOf(cur)] # printed
      <4>1. changed' = {cur} /\ cur \in disturbed'
        BY <1>6, <3>2 DEF Recall, Cursor, StillThere
      <4>2. QED
        BY <4>1 DEF HeaderOnFreshLine
    <3>3. QED
      BY <3>1, <3>2
  <2>3. Accounted'
    BY <1>6 DEF Recall, Accounted, InHand
  <2>4. QED
    BY <2>0, <2>1, <2>2, <2>3 DEF Cursor
<1>7. QED
  BY <1>1, <1>2, <1>3, <1>4, <1>5, <1>6 DEF Server

LEMMA StreamHanded ==
  ASSUME SentInv, Stream
  PROVE  Handed' /\ Cursor' /\ Accounted'
<1> USE DEF SentInv, Stream, closeVars, fileVars
<1>1. Handed'
  BY DEF Handed
<1>2. Cursor'
  BY DEF Cursor, StillThere, HeaderOnFreshLine
<1>3. Accounted'
  BY DEF Accounted, InHand
<1>4. QED
  BY <1>1, <1>2, <1>3

LEMMA CloseHanded ==
  ASSUME SentInv, Close
  PROVE  Handed' /\ Cursor' /\ Accounted'
<1> USE DEF SentInv, srvVars, cursorVars, closeVars, fileVars
<1>1. Cursor'
  BY DEF Close, CloseSend, CloseFlag, CloseJoin, CloseSocket, Cursor, StillThere, HeaderOnFreshLine, EndsOpen, After
<1>2. CASE CloseSend
  <2>1. Append(queue, Stop) \in Seq(Command \cup {Stop})
        /\ ToSet(Append(queue, Stop)) = ToSet(queue) \cup {Stop}
    BY Queued DEF Handed
  <2>2. Handed'
    BY <1>2, <2>1 DEF CloseSend, Handed
  <2>3. Accounted'
    BY <1>2 DEF CloseSend, Accounted, InHand
  <2>4. QED
    BY <1>1, <2>2, <2>3
<1>3. CASE CloseFlag \/ CloseJoin
  <2>1. Handed'
    BY <1>3 DEF CloseFlag, CloseJoin, Handed
  <2>2. Accounted'
    BY <1>3 DEF CloseFlag, CloseJoin, Accounted, InHand
  <2>3. QED
    BY <1>1, <2>1, <2>2
<1>4. CASE CloseSocket
  <2>1. <<>> \in Seq(Command \cup {Stop}) /\ ToSet(<<>>) = {}
    BY DEF ToSet
  <2>2. Handed'
    BY <1>4, <2>1 DEF CloseSocket, Handed
  <2>3. Accounted'
    BY <1>4 DEF CloseSocket, Accounted, InHand
  <2>4. QED
    BY <1>1, <2>2, <2>3
<1>5. QED
  BY <1>2, <1>3, <1>4 DEF Close

THEOREM CollectorSound == Spec => []SentInv
<1>1. Init => SentInv
  <2> SUFFICES ASSUME Init PROVE SentInv
    OBVIOUS
  <2>1. <<>> \in Seq(Command \cup {Stop}) /\ ToSet(<<>>) = {}
    BY DEF ToSet
  <2>2. Handed
    BY <2>1 DEF Init, Handed
  <2>3. Cursor
    BY CollectorAssumption DEF Init, Cursor, StillThere, HeaderOnFreshLine
  <2>4. Accounted
    BY DEF Init, Accounted, InHand
  <2>5. QED
    BY <2>2, <2>3, <2>4, FileStarts DEF Init, SentInv
<1>2. SentInv /\ [Next]_vars => SentInv'
  <2> SUFFICES ASSUME SentInv, [Next]_vars PROVE Handed' /\ Cursor' /\ Accounted'
    BY FileStep DEF SentInv
  <2>1. CASE UNCHANGED vars
    <3> USE DEF SentInv, vars, srvVars, cursorVars, closeVars, fileVars
    <3>1. Handed'
      BY <2>1 DEF Handed
    <3>2. Cursor'
      BY <2>1 DEF Cursor, StillThere, HeaderOnFreshLine, EndsOpen, After
    <3>3. Accounted'
      BY <2>1 DEF Accounted, InHand
    <3>4. QED
      BY <3>1, <3>2, <3>3
  <2>2. QED
    BY <2>1, WorkHanded, StreamHanded, ServerHanded, CloseHanded DEF Next, Workers, Over
<1>3. QED
  BY <1>1, <1>2, PTL DEF Spec

(* Whatever was handed over before close() began is printed, or was still   *)
(* queued then: the thread finishes the output it holds when close() stops  *)
(* it (CollectorServer._serve, close).                                      *)
THEOREM LossIsBounded == Spec => []OnlyBacklogIsLost
<1>1. SentInv => OnlyBacklogIsLost
  BY DEF SentInv, Accounted, InHand, OnlyBacklogIsLost
<1>2. QED
  BY <1>1, CollectorSound, PTL

(* collect() recalls an unterminated last line from a second look at the    *)
(* file, which is what it printed unless the command was disturbed; what    *)
(* others write to the terminal in between it does not know (collect, the   *)
(* live output of _drain).                                                  *)
THEOREM HeadersFresh == Spec => []HeaderOnFreshLine
<1>1. SentInv => HeaderOnFreshLine
  BY DEF SentInv, Cursor, StillThere
<1>2. QED
  BY <1>1, CollectorSound, PTL
=============================================================================
