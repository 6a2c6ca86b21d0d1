------------------------------ MODULE Evidence ------------------------------
(***************************************************************************)
(* The output files of a scan (src/scr/modules/*/module.py, core/pty.py).   *)
(* Several service workers, each a process, run native commands; the        *)
(* command's output goes to a path made of a hash of what the module takes  *)
(* for its identity, and the module reads the path back to parse it.  Some  *)
(* modules leave the port out of that identity, so that two workers of one  *)
(* service may write to one path.                                           *)
(* A worker is [service, port, transport]; a command is                     *)
(* [worker, label, resource].  A piece is what one read of the PTY brings.  *)
(* Definitions named Fault... are plausible bugs that no action uses.       *)
(***************************************************************************)
EXTENDS Naturals, Sequences, SequencesExt

CONSTANTS Command,    \* the commands of the scan
          Externals,  \* which workers may have got a terminal of their own: sets of them
          MaxPieces,  \* the longest output
          None, Hole

(* A command and a worker are records, told apart by their fields.          *)
ASSUME EvidenceAssumption ==
  /\ MaxPieces \in Nat /\ Hole \notin Command
  /\ \A c, d \in Command :
       /\ c.worker = d.worker /\ c.label = d.label /\ c.resource = d.resource => c = d
       /\ c.worker.service = d.worker.service /\ c.worker.port = d.worker.port
          /\ c.worker.transport = d.worker.transport => c.worker = d.worker

VARIABLES phase,     \* "idle", "running", "ended", "collected" or "read"
          wrote,     \* pieces the command has written
          file,      \* file[p]: who wrote each piece that is on disk
          disturbed, \* commands whose path another command opened while they ran or after
          external   \* the workers in a terminal of their own, whose outputs are collected

fileVars == <<phase, wrote, file, disturbed, external>>

(* The keys of _make_task, _task, _run and _query.  A resource of SMB       *)
(* carries its port in its identity, and an HTTP address its authority.     *)
PortInKey(c) == \/ c.worker.service \in {"ldap", "ssh", "http"}
                \/ c.worker.service = "smb" /\ c.resource # None

PathOf(c) == [service |-> c.worker.service, label |-> c.label, resource |-> c.resource,
              port |-> IF PortInKey(c) THEN c.worker.port ELSE None]

Path == {PathOf(c) : c \in Command}

EvidenceInit ==
  /\ phase = [c \in Command |-> "idle"] /\ wrote = [c \in Command |-> 0]
  /\ file = [p \in Path |-> <<>>] /\ disturbed = {} /\ external \in Externals

-----------------------------------------------------------------------------
(* The traversals of SMB, FTP and LDAP hand resources to pool threads; all  *)
(* else of a module runs in its main thread, one command after the other.   *)
Pooled(c) == c.resource # None /\ c.worker.service \in {"smb", "ftp", "ldap"}
Colleagues(c) == {d \in Command \ {c} : d.worker = c.worker}

Turn(c) ==
  /\ \A d \in Colleagues(c) : phase[d] # "running"                  \* _inline_lock
  /\ \A d \in Colleagues(c) : Pooled(d) \/ phase[d] \in {"idle", "read"}
  /\ \A d \in Colleagues(c) : Pooled(c) => Pooled(d) \/ phase[d] = "read"
  /\ \A d \in Colleagues(c) : Pooled(d) /\ ~Pooled(c) => phase[d] = "idle"

SamePath(c) == {d \in Command \ {c} : PathOf(d) = PathOf(c)}
Disturbed(c) == {d \in SamePath(c) : phase[d] # "idle"}
                \cup {d \in {c} : \E e \in SamePath(c) : phase[e] = "running"}

FaultBegin(c) ==
  /\ phase[c] = "idle" /\ Turn(c)
  /\ phase' = [phase EXCEPT ![c] = "running"]
  /\ disturbed' = disturbed \cup Disturbed(c)
  /\ UNCHANGED <<wrote, file, external>>

(* run_pty() opens the output for writing, which empties it.                *)
Begin(c) ==
  /\ phase[c] = "idle" /\ Turn(c)
  /\ phase' = [phase EXCEPT ![c] = "running"]
  /\ file' = [file EXCEPT ![PathOf(c)] = <<>>]
  /\ disturbed' = disturbed \cup Disturbed(c)
  /\ UNCHANGED <<wrote, external>>

(* A piece goes to the offset of the command's own descriptor.              *)
Put(content, at, c) ==
  [k \in 1 .. (IF at > Len(content) THEN at ELSE Len(content)) |->
     IF k = at THEN c ELSE IF k <= Len(content) THEN content[k] ELSE Hole]

Write(c) ==
  /\ phase[c] = "running" /\ wrote[c] < MaxPieces
  /\ wrote' = [wrote EXCEPT ![c] = @ + 1]
  /\ file' = [file EXCEPT ![PathOf(c)] = Put(@, wrote'[c], c)]
  /\ UNCHANGED <<phase, disturbed, external>>

(* The command ends, or its timeout, with what it has written.              *)
End(c) ==
  /\ phase[c] = "running" /\ phase' = [phase EXCEPT ![c] = "ended"]
  /\ UNCHANGED <<wrote, file, disturbed, external>>

(* The module reads the path back and parses what is there.                 *)
ReadBack(c) ==
  /\ phase[c] = "collected" \/ (phase[c] = "ended" /\ c.worker \notin external)
  /\ phase' = [phase EXCEPT ![c] = "read"]
  /\ UNCHANGED <<wrote, file, disturbed, external>>

Run(c) == Begin(c) \/ Write(c) \/ End(c) \/ ReadBack(c)

-----------------------------------------------------------------------------
Output(c) == [k \in 1 .. wrote[c] |-> c]

(* What a module parses, what the collector prints and what is left in the  *)
(* scan directory is the whole output of the command and nothing else,      *)
(* unless another worker of the service opens the same path while the       *)
(* command runs or later; this befalls only commands whose key leaves the   *)
(* port out, and workers of one port over two transports, which no key      *)
(* tells apart.                                                             *)
EvidenceKept == \A c \in Command :
  /\ phase[c] \in {"ended", "collected", "read"} /\ c \notin disturbed => file[PathOf(c)] = Output(c)
  /\ c \in disturbed => \E d \in SamePath(c) :
       IF PortInKey(c) THEN d.worker.transport # c.worker.transport ELSE d.worker # c.worker
=============================================================================
