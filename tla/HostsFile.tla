----------------------------- MODULE HostsFile -----------------------------
(***************************************************************************)
(* HostsManager.apply (src/scr/core/hosts.py): every scan maps the names it *)
(* discovered to its target in /etc/hosts, after a backup.  The file is the *)
(* set of its active lines, an address and the names it maps; what a scan   *)
(* comments out is gone, and so is the order, which apply() never uses.     *)
(* Names are compared after casefold().  One scan is one process, which     *)
(* calls apply() once; the lock is one of threads, so two scans may be in   *)
(* apply() at once, and the file may be replaced under each of them.        *)
(* Definitions named Fault... are plausible bugs that no action uses.       *)
(***************************************************************************)
EXTENDS FiniteSets

CONSTANTS Address, Alias,
          Scan,       \* the runs of the program
          Ip, Names,  \* the target and the valid names of a scan
          Original    \* contents the file may have before

Line == [ip : Address, names : (SUBSET Alias) \ {{}}]

ASSUME HostsAssumption ==
  /\ Ip \in [Scan -> Address] /\ Names \in [Scan -> SUBSET Alias]
  /\ Original \subseteq SUBSET Line

VARIABLES file,      \* the active lines of /etc/hosts
          backups,   \* contents that have a backup beside the file
          disturbed, \* history: scans under which another replaced the file
          pc, text,  \* the step of a scan's apply() and the content it read
          status     \* what apply() returned

vars == <<file, backups, disturbed, pc, text, status>>

Content == SUBSET Line

TypeOK ==
  /\ file \in Content /\ backups \subseteq Content /\ disturbed \subseteq Scan
  /\ pc \in [Scan -> {"start", "backup", "replace", "sync", "end"}]
  /\ text \in [Scan -> Content]
  /\ status \in [Scan -> {"none", "skipped", "unchanged", "updated", "failed", "crashed"}]

Init ==
  /\ file \in Original /\ backups = {} /\ disturbed = {}
  /\ pc = [s \in Scan |-> "start"] /\ text = [s \in Scan |-> {}]
  /\ status = [s \in Scan |-> "none"]

-----------------------------------------------------------------------------
(* What apply() makes of the lines it read.                                 *)

Mapped(f, a) == {l.ip : l \in {m \in f : a \in m.names}}
Conflicts(f, s) == {a \in Names[s] : \E i \in Mapped(f, a) : i # Ip[s]}
Kept(f, s) == {l \in f : l.names \cap Conflicts(f, s) = {}}

FaultAdditions(f, s) == {a \in Names[s] : Mapped(f, a) = {}}
Additions(f, s) == {a \in Names[s] : Ip[s] \notin Mapped(f, a)}

FaultUpdateOwn(f, s) ==
  {l \in f : l.names \cap Names[s] = {} /\ l.ip # Ip[s]} \cup {[ip |-> Ip[s], names |-> Names[s]]}

Update(f, s) ==
  Kept(f, s) \cup {l \in {[ip |-> Ip[s], names |-> Additions(f, s)]} : l.names # {}}

-----------------------------------------------------------------------------
Return(s, result) ==
  /\ pc' = [pc EXCEPT ![s] = "end"] /\ status' = [status EXCEPT ![s] = result]

Fail(s) ==
  /\ pc[s] \notin {"start", "end"} /\ Return(s, "failed")
  /\ UNCHANGED <<file, backups, disturbed, text>>

Under == {s \in Scan : pc[s] \notin {"start", "end"}}

Read(s) ==
  /\ pc[s] = "start"
  /\ \/ Names[s] = {} /\ Return(s, "skipped") /\ UNCHANGED text
     \/ Names[s] # {} /\ Return(s, "failed") /\ UNCHANGED text
     \/ /\ Names[s] # {} /\ (\A a \in Names[s] : Mapped(file, a) = {Ip[s]})
        /\ Return(s, "unchanged") /\ UNCHANGED text
     \/ /\ Names[s] # {} /\ (\E a \in Names[s] : Mapped(file, a) # {Ip[s]})
        /\ text' = [text EXCEPT ![s] = file] /\ pc' = [pc EXCEPT ![s] = "backup"]
        /\ UNCHANGED status
  /\ UNCHANGED <<file, backups, disturbed>>

FaultBackup(s) ==
  /\ pc[s] = "backup" /\ pc' = [pc EXCEPT ![s] = "replace"]
  /\ backups' = backups \cup {Update(text[s], s)}
  /\ UNCHANGED <<file, disturbed, text, status>>

Backup(s) ==
  /\ pc[s] = "backup" /\ pc' = [pc EXCEPT ![s] = "replace"]
  /\ backups' = backups \cup {text[s]}
  /\ UNCHANGED <<file, disturbed, text, status>>

Replace(s) ==
  /\ pc[s] = "replace" /\ pc' = [pc EXCEPT ![s] = "sync"]
  /\ file' = Update(text[s], s)
  /\ disturbed' = (disturbed \cup Under) \ {s}
  /\ UNCHANGED <<backups, text, status>>

(* The directory is flushed after the rename: a failure here is reported as *)
(* one of the update.                                                       *)
Sync(s) ==
  /\ pc[s] = "sync" /\ Return(s, "updated")
  /\ UNCHANGED <<file, backups, disturbed, text>>

Crash(s) ==
  /\ pc[s] # "end" /\ Return(s, "crashed")
  /\ UNCHANGED <<file, backups, disturbed, text>>

Next == \E s \in Scan : Read(s) \/ Backup(s) \/ Replace(s) \/ Sync(s) \/ Fail(s) \/ Crash(s)

Spec == Init /\ [][Next]_vars

-----------------------------------------------------------------------------
(* A name of the scan that led to its target already, on a line with a name *)
(* of the scan, itself or another, that leads elsewhere too: apply()        *)
(* comments the line out as a conflict, and takes the name for correct.     *)
Orphan(f, s, a) ==
  \E l, m \in f : /\ l.ip = Ip[s] /\ a \in l.names /\ m.ip # Ip[s]
                  /\ l.names \cap m.names \cap Names[s] # {}

(* When apply() answers "updated" or "unchanged", no name of the scan leads *)
(* anywhere but to its target, and every one leads there that was not an    *)
(* orphan of the file it read (lines 56-86 of hosts.py), unless another     *)
(* scan has replaced the file since this one did.                           *)
NamesResolve ==
  [][\A s \in Scan :
       status[s] # status'[s] /\ status'[s] \in {"updated", "unchanged"} /\ s \notin disturbed =>
         \A a \in Names[s] : \/ Mapped(file', a) = {Ip[s]}
                             \/ Mapped(file', a) = {} /\ Orphan(text[s], s, a)]_vars

Replaces(s) == pc[s] = "replace" /\ pc'[s] = "sync"

(* The content an update replaces has a backup by then (_atomic_backup      *)
(* before _atomic_replace).  The only content that goes without one is what *)
(* another scan wrote after this one had read the file: the user's own file *)
(* has its backup however many scans run at once, crash or fail.            *)
BackedUp ==
  [][file' # file => file \in backups \/ \E s \in disturbed : Replaces(s)]_vars

(* A line commented out as replaced is replaced: a name an update takes     *)
(* from the file shared its line with a name of the scan, or was not there  *)
(* yet when the scan read the file.  The names of the scan itself stay, but *)
(* for the orphans.                                                         *)
NoNameLost ==
  [][\A a \in Alias : Mapped(file, a) # {} /\ Mapped(file', a) = {} =>
       \E s \in Scan :
         /\ Replaces(s) /\ (a \in Names[s] => Orphan(text[s], s, a))
         /\ \/ Mapped(text[s], a) = {}
            \/ \E l \in text[s] : a \in l.names /\ l.names \cap Names[s] # {}]_vars

=============================================================================
