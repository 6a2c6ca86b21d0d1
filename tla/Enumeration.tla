---------------------------- MODULE Enumeration ----------------------------
(***************************************************************************)
(* The SMB, FTP and LDAP modules (src/scr/modules/) as the callback of      *)
(* ResourceTraversal: pool threads run one native command for a resource    *)
(* and turn its exit status and its output into a record of access, a       *)
(* status, and the children.  The output may hold a refusal whatever the    *)
(* exit status is: the three modules only search its text.                  *)
(* Definitions named Fault... are plausible bugs that no action uses.       *)
(***************************************************************************)
EXTENDS ResourceTraversal

CONSTANTS Services,  \* the modules a run may be of
          Wanted     \* files whose size and name call for an inspection

ASSUME EnumerationAssumption == Services \subseteq {"smb", "ftp", "ldap"} /\ Wanted \subseteq Res

Answer == [ok : BOOLEAN,                              \* the state of the task is SUCCESS
           text : {"plain", "refused", "missing"},    \* what the patterns find in the output
           file : BOOLEAN]                            \* the download is on disk
NoAnswer == [ok |-> FALSE, text |-> "none", file |-> FALSE]

VARIABLES service, answer  \* answer[r]: what the command for r brought

enumVars == <<vars, service, answer>>

Container(r) == Kind[r] = "directory" \/ (service = "smb" /\ Kind[r] = "other")

(* The shares of a host, the root of the server, the primary naming context *)
(* if the RootDSE could be read and has one.                                *)
RootOf(r) == CASE service = "smb" -> Kind[r] = "other"
               [] service \in {"ftp", "ldap"} -> Kind[r] = "directory"

EnumInit ==
  /\ Init /\ service \in Services /\ answer = [r \in Res |-> NoAnswer]
  /\ \A r \in offers : RootOf(r)
  /\ \A r \in Res : kids[r] = {} \/ Container(r)
  /\ service = "ftp" => offers # {}
  /\ service = "ldap" => \A r \in Res : \A c \in kids[r] : Kind[c] # "file"

-----------------------------------------------------------------------------
(* What a command is run for, and what it may bring.                        *)
NeedsCommand(r) == Container(r) \/ (Kind[r] = "file" /\ r \in Wanted)

Answers(r) ==
  {a \in Answer : /\ a.file => a.ok /\ service = "smb" /\ Kind[r] = "file"
                  /\ a.text = "missing" => service = "smb"}

Access(list, read, auth) == [list |-> list, read |-> read, auth |-> auth]
Refused == Access("NO", "NO", "TRUE")

FaultSmbAccess(a) ==
  CASE a.ok -> Access("YES", "UNKNOWN", "FALSE")
    [] ~a.ok /\ a.text = "refused" -> Refused
    [] OTHER -> Access("UNKNOWN", "UNKNOWN", "NONE")

SmbAccess(a) ==
  CASE a.text = "refused" -> Refused
    [] a.text = "missing" -> Access("NO", "NO", "FALSE")
    [] OTHER -> IF a.ok THEN Access("YES", "UNKNOWN", "FALSE") ELSE Access("UNKNOWN", "UNKNOWN", "NONE")

FtpAccess(a) ==
  CASE a.text = "refused" -> Refused
    [] OTHER -> IF a.ok THEN Access("YES", "UNKNOWN", "FALSE") ELSE Access("NO", "UNKNOWN", "NONE")

(* A failure without a refusal leaves the record as it was.                 *)
LdapAccess(a, old) ==
  CASE a.text = "refused" -> Refused
    [] OTHER -> IF a.ok THEN Access("YES", "YES", "FALSE") ELSE old

(* What a root starts with, and what a child gets from the listing.         *)
SmbChild(r, up) == Access(IF Kind[r] = "file" THEN "NO" ELSE "UNKNOWN", "UNKNOWN", SmbAccess(up).auth)
FtpChild(up) == Access("UNKNOWN", "UNKNOWN", FtpAccess(up).auth)
LdapChild == Access("YES", "YES", "FALSE")
RootRecord == Access("UNKNOWN", "UNKNOWN", IF service = "ldap" THEN "FALSE" ELSE "NONE")

Fresh(r) ==
  CASE parent[r] = NoRes -> RootRecord
    [] parent[r] # NoRes /\ service = "smb" -> SmbChild(r, answer[parent[r]])
    [] parent[r] # NoRes /\ service = "ftp" -> FtpChild(answer[parent[r]])
    [] OTHER -> LdapChild

(* A file keeps the list_access it came with; what was fetched is readable. *)
SmbFile(a, old) == Access(old.list, IF a.file THEN "YES" ELSE SmbAccess(a).read, SmbAccess(a).auth)
FtpFile(a, old) == Access(old.list, IF a.ok THEN "YES" ELSE FtpAccess(a).read, FtpAccess(a).auth)

(* The record of r.                                                         *)
Record(r) ==
  LET a == answer[r]  file == Kind[r] = "file" IN
  CASE a = NoAnswer -> Fresh(r)
    [] a # NoAnswer /\ service = "smb" -> IF file THEN SmbFile(a, Fresh(r)) ELSE SmbAccess(a)
    [] a # NoAnswer /\ service = "ftp" -> IF file THEN FtpFile(a, Fresh(r)) ELSE FtpAccess(a)
    [] OTHER -> LdapAccess(a, Fresh(r))

(* Every SMB and FTP resource carries an identity (a guest at least), LDAP  *)
(* none: probe_blocked is what ResourceTraversal calls Blocked.             *)
ProbeBlocked(r) ==
  \/ Fresh(r).auth = "TRUE" /\ service = "ldap"
  \/ Fresh(r).list = "NO" /\ Fresh(r).read = "NO"

(* Whether the callback goes on to list, and the status it leaves.          *)
Fate(w, s) == [work |-> w, status |-> s]

FaultSmbFate(r, a) == Fate("listed", "RUNNING")

SmbFate(r, a) ==
  IF a.ok \/ Kind[r] = "file" THEN Fate("listed", "RUNNING")
  ELSE Fate("denied", IF SmbAccess(a).auth = "TRUE" THEN "INACCESSIBLE" ELSE "FAILED")

FtpFate(r, a) ==
  IF a.ok THEN Fate("listed", IF Kind[r] = "file" THEN "SUCCESS" ELSE "RUNNING")
  ELSE Fate("denied", "INACCESSIBLE")

LdapFate(a) ==
  CASE a.text = "refused" -> Fate("denied", "INACCESSIBLE")
    [] OTHER -> IF a.ok THEN Fate("listed", "RUNNING") ELSE Fate("denied", "FAILED")

FateOf(r, a) ==
  CASE ~NeedsCommand(r) -> Fate("listed", "SUCCESS")
    [] NeedsCommand(r) /\ service = "smb" -> SmbFate(r, a)
    [] NeedsCommand(r) /\ service = "ftp" -> FtpFate(r, a)
    [] OTHER -> LdapFate(a)

(* _enumerate_resource, _inspect_file and _enumerate; an exception comes    *)
(* before the record is made, or from the file an SMB download left.        *)
Probe(r) ==
  /\ Enumerate(r) /\ UNCHANGED service
  /\ \E a \in IF NeedsCommand(r) THEN Answers(r) ELSE {NoAnswer} :
       \/ /\ Fate(work'[r], status'[r]) = FateOf(r, a)
          /\ answer' = [answer EXCEPT ![r] = a]
       \/ work'[r] = "raised" /\ answer' = [answer EXCEPT ![r] = IF a.file THEN a ELSE NoAnswer]

-----------------------------------------------------------------------------
Rest == (Main \/ Over) /\ UNCHANGED <<service, answer>>

EnumNext == Rest \/ \E r \in Res : Probe(r)

EnumSpec == EnumInit /\ [][EnumNext]_enumVars

(* The main thread is scheduled and every probe ends: each native command   *)
(* has a timeout.                                                           *)
FairEnumSpec == EnumSpec /\ WF_enumVars(Main /\ UNCHANGED <<service, answer>>)
                         /\ \A r \in Res : WF_enumVars(Probe(r))

-----------------------------------------------------------------------------
(* facts["anonymous_directory_read"] of the LDAP module.                    *)
DirectoryRead == /\ \A r \in accepted : Record(r).auth # "TRUE"
                 /\ \E r \in accepted : Record(r).read = "YES"

(* Neither a list nor a probe is claimed that did not work: a listable      *)
(* resource answered a listing, or is an LDAP entry its parent listed; a    *)
(* readable one was fetched.  Who needs credentials was refused, itself or  *)
(* in its parent; and nothing is below a resource whose command failed.     *)
RecordTrue == \A r \in accepted :
  LET a == answer[r]  up == IF parent[r] = NoRes THEN NoAnswer ELSE answer[parent[r]] IN
  /\ Record(r).list = "YES" => (a.ok /\ a.text = "plain") \/ (service = "ldap" /\ up.ok)
  /\ Record(r).read = "YES" => a.ok \/ (service = "ldap" /\ up.ok)
  /\ Record(r).auth = "TRUE" => "refused" \in {a.text, up.text}
  /\ parent[r] # NoRes => up.ok
  /\ ~ProbeBlocked(r)

(* The verdict fits the command: SUCCESS says that it worked, or that none  *)
(* was called for, except of an SMB file, whose status says nothing of its  *)
(* download; INACCESSIBLE says that access was refused, except of FTP,      *)
(* which says so of every failure.  An LDAP directory counts as readable    *)
(* when a context was listed and nobody below it was refused.               *)
VerdictTrue == pc = "returned" =>
  /\ \A r \in accepted :
       LET a == answer[r] IN
       /\ status[r] = "SUCCESS" => a.ok \/ ~NeedsCommand(r) \/ (service = "smb" /\ Kind[r] = "file")
       /\ status[r] = "INACCESSIBLE" => a.text = "refused" \/ (service = "ftp" /\ ~a.ok)
       /\ status[r] = "FAILED" => work[r] = "raised" \/ (~a.ok /\ a.text # "refused")
  /\ service = "ldap" =>
       (DirectoryRead <=> /\ \E r \in accepted : answer[r].ok /\ answer[r].text = "plain"
                          /\ \A r \in accepted : answer[r].text # "refused")
=============================================================================
