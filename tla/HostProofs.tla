----------------------------- MODULE HostProofs -----------------------------
(***************************************************************************)
(* What scans may do to the machine they run on.  HostsFile, for any number *)
(* of scans, names and lines, in any overlap: Own is what a scan under way  *)
(* knows of the file while nobody disturbs it.  DependencyInstall, of every *)
(* pool, tool list and repository: Met is what a thread has established     *)
(* before the ensure() it is in; Owed is what it knows of the tools it      *)
(* found missing, and what a run of the package manager that nothing        *)
(* hindered leaves true until it verifies.                                  *)
(***************************************************************************)
EXTENDS HostsFile, DependencyInstall, TLAPS

(* What an update of f by s makes of the names of s.                        *)
Settled(g, f, s) == \A a \in Names[s] : \/ Mapped(g, a) = {Ip[s]}
                                        \/ Mapped(g, a) = {} /\ Orphan(f, s, a)

Own ==
  \A s \in Scan :
    /\ pc[s] \in {"backup", "replace"} => s \in disturbed \/ text[s] = file
    /\ pc[s] = "replace" => text[s] \in backups
    /\ pc[s] = "start" => s \notin disturbed

Landed == \A s \in Scan : pc[s] = "sync" => s \in disturbed \/ Settled(file, text[s], s)

(* A scan's own update stays within the lines a hosts file can have.        *)
LEMMA UpdateIsContent ==
  ASSUME NEW f \in Content, NEW s \in Scan
  PROVE  Update(f, s) \in Content
<1>1. Additions(f, s) \in SUBSET Alias
  BY HostsAssumption DEF Additions
<1>2. \A l \in {[ip |-> Ip[s], names |-> Additions(f, s)]} : l.names # {} => l \in Line
  BY <1>1, HostsAssumption DEF Line
<1>3. QED
  BY <1>2 DEF Update, Kept, Content

(* Every variable keeps its type.                                           *)
THEOREM Typing == Spec => []TypeOK
<1>1. Init => TypeOK
  BY HostsAssumption DEF Init, TypeOK, Content
<1>2. TypeOK /\ [Next]_vars => TypeOK'
  <2> SUFFICES ASSUME TypeOK, [Next]_vars PROVE TypeOK'
    OBVIOUS
  <2>1. ASSUME NEW s \in Scan, Read(s) PROVE TypeOK'
    BY <2>1 DEF TypeOK, Read, Return
  <2>2. ASSUME NEW s \in Scan, Backup(s) PROVE TypeOK'
    BY <2>2 DEF TypeOK, Backup
  <2>3. ASSUME NEW s \in Scan, Replace(s) PROVE TypeOK'
    <3>1. text[s] \in Content
      BY DEF TypeOK
    <3>2. file' \in Content
      BY <2>3, <3>1, UpdateIsContent DEF Replace
    <3>3. QED
      BY <2>3, <3>2 DEF TypeOK, Replace, Under
  <2>4. ASSUME NEW s \in Scan, Sync(s) \/ Fail(s) \/ Crash(s) PROVE TypeOK'
    BY <2>4 DEF TypeOK, Sync, Fail, Crash, Return
  <2>5. CASE UNCHANGED vars
    BY <2>5 DEF TypeOK, vars
  <2>6. QED
    BY <2>1, <2>2, <2>3, <2>4, <2>5 DEF Next
<1>3. QED
  BY <1>1, <1>2, PTL DEF Spec

LEMMA OwnStep ==
  ASSUME TypeOK, Own, [Next]_vars
  PROVE  Own'
<1>1. ASSUME NEW s \in Scan, Read(s) PROVE Own'
  BY <1>1 DEF Own, Read, Return, TypeOK
<1>2. ASSUME NEW s \in Scan, Backup(s) PROVE Own'
  BY <1>2 DEF Own, Backup, TypeOK
<1>3. ASSUME NEW s \in Scan, Replace(s) PROVE Own'
  <2> SUFFICES ASSUME NEW t \in Scan
               PROVE  /\ pc'[t] \in {"backup", "replace"} => t \in disturbed' \/ text'[t] = file'
                      /\ pc'[t] = "replace" => text'[t] \in backups'
                      /\ pc'[t] = "start" => t \notin disturbed'
    BY DEF Own
  <2>1. CASE t = s
    BY <1>3, <2>1 DEF Replace, TypeOK
  <2>2. CASE t # s
    BY <1>3, <2>2 DEF Replace, TypeOK, Own, Under
  <2>3. QED
    BY <2>1, <2>2
<1>4. ASSUME NEW s \in Scan, Sync(s) \/ Fail(s) \/ Crash(s) PROVE Own'
  BY <1>4 DEF Own, Sync, Fail, Crash, Return, TypeOK
<1>5. CASE UNCHANGED vars
  BY <1>5 DEF Own, vars
<1>6. QED
  BY <1>1, <1>2, <1>3, <1>4, <1>5 DEF Next

LEMMA InitOwn == Init => Own
  BY DEF Init, Own

(* Each content that an update of /etc/hosts replaced has its backup or was *)
(* written by a scan that overlapped, whatever crashed or failed.           *)
THEOREM Backups == Spec => BackedUp
<1> DEFINE Kept1 == file' # file => file \in backups \/ \E s \in disturbed : Replaces(s)
<1>1. TypeOK /\ Own /\ [Next]_vars => [Kept1]_vars
  <2> SUFFICES ASSUME TypeOK, Own, Next, file' # file
               PROVE  file \in backups \/ \E s \in disturbed : Replaces(s)
    BY DEF vars
  <2>1. PICK s \in Scan : Replace(s)
    BY DEF Next, Read, Backup, Sync, Fail, Crash
  <2>2. Replaces(s)
    BY <2>1 DEF Replace, Replaces, TypeOK
  <2>3. QED
    BY <2>1, <2>2 DEF Own, Replace
<1>2. TypeOK /\ Own /\ [Next]_vars => Own'
  BY OwnStep
<1>3. QED
  BY <1>1, <1>2, InitOwn, Typing, PTL DEF Spec, BackedUp

(* An update leaves a name of the scan in the file, and every line it read  *)
(* that has none of the scan's names.                                       *)
LEMMA UpdateKeeps ==
  ASSUME NEW f, NEW s \in Scan, NEW l \in f, l.names \cap Names[s] = {}
  PROVE  l \in Update(f, s)
BY DEF Update, Kept, Conflicts

(* After an update the names of the scan lead to its target alone, and the  *)
(* orphans nowhere.                                                         *)
LEMMA UpdateSettles ==
  ASSUME NEW f, NEW s \in Scan
  PROVE  Settled(Update(f, s), f, s)
<1> DEFINE new == [ip |-> Ip[s], names |-> Additions(f, s)]
<1>1. ASSUME NEW l \in Update(f, s), NEW a \in Names[s], a \in l.names
      PROVE  l.ip = Ip[s]
  <2>1. CASE l \in Kept(f, s)
    <3>1. l \in f /\ a \notin Conflicts(f, s)
      BY <1>1, <2>1 DEF Kept
    <3>2. l.ip \in Mapped(f, a)
      BY <1>1, <3>1 DEF Mapped
    <3>3. QED
      BY <3>1, <3>2 DEF Conflicts
  <2>2. CASE l = new
    BY <2>2
  <2>3. QED
    BY <1>1, <2>1, <2>2 DEF Update
<1>2. ASSUME NEW a \in Names[s], ~Orphan(f, s, a)
      PROVE  \E l \in Update(f, s) : a \in l.names
  <2>1. CASE Ip[s] \in Mapped(f, a)
    <3>1. PICK l \in f : a \in l.names /\ l.ip = Ip[s]
      BY <2>1 DEF Mapped
    <3>2. l.names \cap Conflicts(f, s) = {}
      <4> SUFFICES ASSUME NEW b \in l.names, b \in Conflicts(f, s) PROVE FALSE
        OBVIOUS
      <4>1. PICK m \in f : b \in m.names /\ m.ip # Ip[s] /\ b \in Names[s]
        BY DEF Conflicts, Mapped
      <4>2. QED
        BY <1>2, <3>1, <4>1 DEF Orphan
    <3>3. QED
      BY <3>1, <3>2 DEF Update, Kept
  <2>2. CASE Ip[s] \notin Mapped(f, a)
    <3>1. a \in new.names
      BY <2>2 DEF Additions
    <3>2. QED
      BY <3>1 DEF Update
  <2>3. QED
    BY <2>1, <2>2
<1>3. ASSUME NEW a \in Names[s]
      PROVE  \/ Mapped(Update(f, s), a) = {Ip[s]}
             \/ Mapped(Update(f, s), a) = {} /\ Orphan(f, s, a)
  <2>1. Mapped(Update(f, s), a) \subseteq {Ip[s]}
    BY <1>1 DEF Mapped
  <2>2. ~Orphan(f, s, a) => Mapped(Update(f, s), a) # {}
    BY <1>2 DEF Mapped
  <2>3. QED
    BY <2>1, <2>2
<1>4. QED
  BY <1>3 DEF Settled

LEMMA LandedStep ==
  ASSUME TypeOK, Own, Landed, [Next]_vars
  PROVE  Landed'
<1>1. ASSUME NEW s \in Scan, Replace(s) PROVE Landed'
  <2>1. file' = Update(text[s], s) /\ text' = text
    BY <1>1 DEF Replace
  <2>2. Settled(file', text[s], s)
    BY <2>1, UpdateSettles
  <2>3. ASSUME NEW t \in Scan, pc'[t] = "sync", t # s PROVE t \in disturbed'
    BY <1>1, <2>3 DEF Replace, Under, TypeOK
  <2>4. QED
    BY <2>1, <2>2, <2>3 DEF Landed, Settled
<1>2. ASSUME NEW s \in Scan, Read(s) PROVE Landed'
  <2>1. file' = file /\ disturbed' = disturbed
        /\ \A t \in Scan : pc'[t] = "sync" => pc[t] = "sync" /\ text'[t] = text[t]
    BY <1>2 DEF Read, Return, TypeOK
  <2>2. QED
    BY <2>1 DEF Landed, Settled
<1>3. ASSUME NEW s \in Scan, Backup(s) \/ Sync(s) \/ Fail(s) \/ Crash(s)
      PROVE  Landed'
  <2>1. /\ file' = file /\ disturbed' = disturbed /\ text' = text
        /\ \A t \in Scan : pc'[t] = "sync" => pc[t] = "sync"
    BY <1>3 DEF Backup, Sync, Fail, Crash, Return, TypeOK
  <2>2. QED
    BY <2>1 DEF Landed, Settled
<1>4. CASE UNCHANGED vars
  BY <1>4 DEF Landed, vars, Settled
<1>5. QED
  BY <1>1, <1>2, <1>3, <1>4 DEF Next

(* A scan that was told "updated" or "unchanged" and was not overtaken      *)
(* resolves its names to its target, whatever the file held, but for those  *)
(* that a conflict on their own line took along.                            *)
THEOREM Resolving == Spec => NamesResolve
<1>1. Init => Landed
  BY DEF Init, Landed
<1>2. TypeOK /\ Own /\ Landed /\ [Next]_vars => (Own /\ Landed)'
  BY OwnStep, LandedStep
<1> DEFINE Answer ==
      \A s \in Scan :
        status[s] # status'[s] /\ status'[s] \in {"updated", "unchanged"} /\ s \notin disturbed =>
          \A a \in Names[s] : \/ Mapped(file', a) = {Ip[s]}
                              \/ Mapped(file', a) = {} /\ Orphan(text[s], s, a)
<1>3. TypeOK /\ Landed /\ [Next]_vars => [Answer]_vars
  <2> SUFFICES ASSUME TypeOK, Landed, Next, NEW s \in Scan, status[s] # status'[s],
                      status'[s] \in {"updated", "unchanged"}, s \notin disturbed
               PROVE  Settled(file', text[s], s)
    BY DEF vars, Settled
  <2>1. PICK t \in Scan : Read(t) \/ Backup(t) \/ Replace(t) \/ Sync(t) \/ Fail(t) \/ Crash(t)
    BY DEF Next
  <2>2. CASE Read(t)
    <3>1. t = s /\ file' = file /\ \A b \in Names[s] : Mapped(file, b) = {Ip[s]}
      BY <2>2 DEF Read, Return, TypeOK
    <3>2. QED
      BY <3>1 DEF Settled
  <2>3. CASE Sync(t)
    <3>1. t = s /\ pc[s] = "sync" /\ file' = file
      BY <2>3 DEF Sync, Return, TypeOK
    <3>2. QED
      BY <3>1 DEF Landed
  <2>4. CASE Backup(t) \/ Replace(t) \/ Fail(t) \/ Crash(t)
    BY <2>4 DEF Backup, Replace, Fail, Crash, Return, TypeOK
  <2>5. QED
    BY <2>1, <2>2, <2>3, <2>4
<1>4. QED
  BY <1>1, <1>2, <1>3, InitOwn, Typing, PTL DEF Spec, NamesResolve

(* Whatever the file held, a name leaves it only with a line of a name of   *)
(* the scan, or because the scan had read the file before; a name of the    *)
(* scan itself only as an orphan.                                           *)
THEOREM Keeping == Spec => NoNameLost
<1> DEFINE Stays ==
      \A a \in Alias : Mapped(file, a) # {} /\ Mapped(file', a) = {} =>
        \E s \in Scan :
          /\ Replaces(s) /\ (a \in Names[s] => Orphan(text[s], s, a))
          /\ \/ Mapped(text[s], a) = {}
             \/ \E l \in text[s] : a \in l.names /\ l.names \cap Names[s] # {}
<1>1. TypeOK /\ [Next]_vars => [Stays]_vars
  <2> SUFFICES ASSUME TypeOK, Next, NEW a \in Alias,
                      Mapped(file, a) # {}, Mapped(file', a) = {}
               PROVE  \E s \in Scan :
                        /\ Replaces(s) /\ (a \in Names[s] => Orphan(text[s], s, a))
                        /\ \/ Mapped(text[s], a) = {}
                           \/ \E l \in text[s] : a \in l.names /\ l.names \cap Names[s] # {}
    BY DEF vars
  <2>1. PICK s \in Scan : Replace(s)
    BY DEF Next, Read, Backup, Sync, Fail, Crash
  <2>2. Replaces(s) /\ file' = Update(text[s], s)
    BY <2>1 DEF Replace, Replaces, TypeOK
  <2>3. a \in Names[s] => Orphan(text[s], s, a)
    BY <2>2, UpdateSettles DEF Settled
  <2>4. ASSUME Mapped(text[s], a) # {}
        PROVE  \E l \in text[s] : a \in l.names /\ l.names \cap Names[s] # {}
    <3>1. PICK l \in text[s] : a \in l.names
      BY <2>4 DEF Mapped
    <3>2. l \notin Update(text[s], s)
      BY <2>2, <3>1 DEF Mapped
    <3>3. QED
      BY <3>1, <3>2, UpdateKeeps
  <2>5. QED
    BY <2>2, <2>3, <2>4
<1>2. QED
  BY <1>1, Typing, PTL DEF Spec, NoNameLost

-----------------------------------------------------------------------------
Met ==
  \A s \in Service :
    /\ call[s] = "primary" /\ lacking[s] = {} => Required[s] \subseteq available
    /\ call[s] = "optional" => Required[s] \subseteq available
                               /\ (Primary[s] \subseteq available \/ Spared(s))

Owed ==
  \A s \in Service :
    /\ at[s] \in {"release", "install", "installing", "verify"} =>
         Asked(s) \ available \subseteq wanting[s]
    /\ at[s] = "verify" /\ ~hindered[s] => wanting[s] \cap Registered \subseteq available
    /\ Installs /\ lacking[s] # {} => hindered[s] \/ ~(lacking[s] \subseteq Registered)

Inside(s) == at[s] \in {"check", "verify"}

(* The steps of a thread, as the proofs tell them apart.                    *)
LEMMA Cases ==
  ASSUME [DepNext]_depVars
  PROVE  \/ UNCHANGED depVars
         \/ \E s \in Service : \/ Begin(s) \/ Check(s) \/ TryRelease(s) \/ RunManager(s)
                               \/ Installed(s) \/ Verify(s)
BY DEF DepNext

LEMMA ReturnedType ==
  ASSUME DepTypeOK, NEW s \in Service, NEW missing \in SUBSET Tool, Returned(s, missing),
         Inside(s)
  PROVE  /\ call' \in [Service -> {"required", "primary", "optional"}]
         /\ lacking' \in [Service -> SUBSET Tool]
         /\ at' \in [Service -> Steps]
         /\ at'[s] \in {"check", "ran", "skipped"}
         /\ \A t \in Service \ {s} : at'[t] = at[t]
<1>1. lacking' \in [Service -> SUBSET Tool]
  <2>1. lacking[s] \cup missing \subseteq Tool /\ call[s] \in {"required", "primary", "optional"}
    BY DEF DepTypeOK
  <2>2. CASE call[s] = "required"
    BY <2>2 DEF DepTypeOK, Returned
  <2>3. CASE call[s] = "primary"
    BY <2>1, <2>3 DEF DepTypeOK, Returned
  <2>4. CASE call[s] = "optional"
    BY <2>4 DEF DepTypeOK, Returned
  <2>5. QED
    BY <2>1, <2>2, <2>3, <2>4
<1>2. call' \in [Service -> {"required", "primary", "optional"}]
  BY DEF Returned, DepTypeOK
<1>3. at' \in [Service -> Steps] /\ at'[s] \in {"check", "ran", "skipped"}
      /\ \A t \in Service \ {s} : at'[t] = at[t]
  BY DEF Returned, DepTypeOK, To, Steps
<1>4. QED
  BY <1>1, <1>2, <1>3

LEMMA MissingType ==
  ASSUME NEW s \in Service, DepTypeOK
  PROVE  Missing(s) \in SUBSET Tool
BY DependencyAssumption DEF Missing, Asked, DepTypeOK

(* Every variable keeps its type, and the lock belongs to the thread that   *)
(* runs the package manager.                                                *)
THEOREM DepTyping == DepSpec => []DepTypeOK
<1>1. DepInit => DepTypeOK
  BY DependencyAssumption DEF DepInit, DepTypeOK, Steps
<1>2. DepTypeOK /\ [DepNext]_depVars => DepTypeOK'
  <2> SUFFICES ASSUME DepTypeOK, [DepNext]_depVars PROVE DepTypeOK'
    OBVIOUS
  <2>1. ASSUME NEW s \in Service, Begin(s) PROVE DepTypeOK'
    BY <2>1 DEF DepTypeOK, Begin, To, Steps
  <2>2. ASSUME NEW s \in Service, Check(s) PROVE DepTypeOK'
    <3>1. CASE Returned(s, Missing(s))
      BY <2>2, <3>1, MissingType, ReturnedType DEF DepTypeOK, Check, Inside
    <3>2. CASE at' \in {[at EXCEPT ![s] = "release"], [at EXCEPT ![s] = "install"]}
               /\ UNCHANGED <<call, lacking>>
      BY <2>2, <3>2, MissingType DEF DepTypeOK, Check, Steps
    <3>3. QED
      BY <2>2, <3>1, <3>2 DEF Check, To
  <2>3. ASSUME NEW s \in Service, TryRelease(s) PROVE DepTypeOK'
    <3>1. Asked(s) \subseteq Tool
      BY DependencyAssumption DEF Asked, DepTypeOK
    <3>2. QED
      BY <2>3, <3>1 DEF DepTypeOK, TryRelease, To, Steps
  <2>4. ASSUME NEW s \in Service, RunManager(s) PROVE DepTypeOK'
    <3>1. \/ at' = [at EXCEPT ![s] = "verify"] /\ lock' = lock
          \/ at' = [at EXCEPT ![s] = "installing"] /\ lock = Free /\ lock' = s
      BY <2>4 DEF RunManager, To
    <3>2. hindered' \in [Service -> BOOLEAN] /\ at[s] = "install"
      BY <2>4 DEF RunManager, DepTypeOK
    <3>3. at' \in [Service -> Steps] /\ lock' \in Service \cup {Free}
      BY <3>1 DEF DepTypeOK, Steps
    <3>4. ASSUME NEW t \in Service PROVE lock' = t <=> at'[t] = "installing"
      BY <3>1, <3>2, DependencyAssumption DEF DepTypeOK
    <3>5. QED
      BY <2>4, <3>2, <3>3, <3>4 DEF DepTypeOK, RunManager
  <2>5. ASSUME NEW s \in Service, Installed(s) PROVE DepTypeOK'
    BY ZenonT(30), <2>5, DependencyAssumption DEF DepTypeOK, Installed, Packages, To, Steps
  <2>6. ASSUME NEW s \in Service, Verify(s) PROVE DepTypeOK'
    BY <2>6, MissingType, ReturnedType DEF DepTypeOK, Verify, Inside
  <2>7. CASE UNCHANGED depVars
    BY <2>7 DEF DepTypeOK, depVars
  <2>8. QED
    BY <2>1, <2>2, <2>3, <2>4, <2>5, <2>6, <2>7, Cases
<1>3. QED
  BY <1>1, <1>2, PTL DEF DepSpec

(* A step that returns from no ensure() only adds tools.                    *)
LEMMA Growing ==
  ASSUME DepTypeOK, NEW s \in Service,
         Begin(s) \/ TryRelease(s) \/ RunManager(s) \/ Installed(s)
  PROVE  /\ available \subseteq available' /\ UNCHANGED <<call, lacking>>
         /\ \A t \in Service : at'[t] \in {"ran", "skipped"} => at'[t] = at[t]
BY DEF DepTypeOK, Begin, TryRelease, RunManager, Installed, To

LEMMA ReturnedMet ==
  ASSUME DepTypeOK, Met, StartsEquipped, NEW s \in Service, Returned(s, Missing(s)),
         Inside(s), UNCHANGED available
  PROVE  Met' /\ StartsEquipped'
<1>1. ASSUME NEW t \in Service \ {s}
      PROVE  call'[t] = call[t] /\ lacking'[t] = lacking[t] /\ at'[t] = at[t]
  BY DEF Returned, To, DepTypeOK
<1>2. Spared(s)' = Spared(s)
  BY DEF Spared
<1>3. CASE call[s] = "required"
  <2>1. lacking'[s] = Required[s] \ available
    BY <1>3 DEF Returned, Missing, Asked, DepTypeOK
  <2>2. CASE Primary[s] # {}
    <3>1. at'[s] = "check" /\ call'[s] = "primary"
      BY <1>3, <2>2 DEF Returned, To, DepTypeOK
    <3>2. QED
      BY <1>1, <2>1, <3>1 DEF Met, StartsEquipped, Spared
  <2>3. CASE Primary[s] = {}
    <3>1. \/ at'[s] = "check" /\ call'[s] = "optional" /\ Required[s] \ available = {}
          \/ /\ at'[s] \in {"ran", "skipped"} /\ call'[s] = "required"
             /\ at'[s] = "ran" => Required[s] \ available = {}
      BY <1>3, <2>3 DEF Returned, To, DepTypeOK, Missing, Asked
    <3>2. QED
      BY <1>1, <2>3, <3>1 DEF Met, StartsEquipped, Spared
  <2>4. QED
    BY <2>2, <2>3
<1>4. CASE call[s] = "primary"
  <2>1. lacking'[s] = lacking[s] \cup (IF Spared(s) THEN {} ELSE Primary[s] \ available)
    BY <1>4 DEF Returned, Missing, Asked, DepTypeOK
  <2>2. \/ at'[s] = "check" /\ call'[s] = "optional" /\ lacking'[s] = {}
        \/ /\ at'[s] \in {"ran", "skipped"} /\ call'[s] = "primary"
           /\ at'[s] = "ran" => lacking'[s] = {}
    BY <1>4 DEF Returned, To, DepTypeOK
  <2>3. lacking'[s] = {} => /\ Required[s] \subseteq available
                            /\ Primary[s] \subseteq available \/ Spared(s)
    BY <1>4, <2>1 DEF Met
  <2>4. QED
    BY <1>1, <2>2, <2>3 DEF Met, StartsEquipped, Spared
<1>5. CASE call[s] = "optional"
  <2>1. call'[s] = "optional"
    BY <1>5 DEF Returned, DepTypeOK
  <2>2. QED
    BY <1>1, <1>5, <2>1 DEF Met, StartsEquipped, Spared
<1>6. QED
  BY <1>3, <1>4, <1>5 DEF DepTypeOK

(* Whatever the pool, the tool lists and the installations that fail, a     *)
(* service starts with all the tools it declares.                           *)
THEOREM Equipped == DepSpec => []StartsEquipped
<1>1. DepInit => Met /\ StartsEquipped
  BY DEF DepInit, Met, StartsEquipped
<1>2. DepTypeOK /\ Met /\ StartsEquipped /\ [DepNext]_depVars => (Met /\ StartsEquipped)'
  <2> SUFFICES ASSUME DepTypeOK, Met, StartsEquipped, [DepNext]_depVars PROVE (Met /\ StartsEquipped)'
    OBVIOUS
  <2>1. ASSUME NEW s \in Service,
               Begin(s) \/ TryRelease(s) \/ RunManager(s) \/ Installed(s)
        PROVE  (Met /\ StartsEquipped)'
    BY <2>1, Growing DEF Met, StartsEquipped, Spared
  <2>2. ASSUME NEW s \in Service, Check(s) PROVE (Met /\ StartsEquipped)'
    <3>1. CASE Returned(s, Missing(s))
      BY <2>2, <3>1, ReturnedMet DEF Check, Inside
    <3>2. CASE ~Returned(s, Missing(s))
      <4>1. UNCHANGED <<available, call, lacking>>
            /\ \A t \in Service : at'[t] = "ran" => at[t] = "ran"
        BY <2>2, <3>2 DEF Check, To, DepTypeOK
      <4>2. QED
        BY <4>1 DEF Met, StartsEquipped, Spared
    <3>3. QED
      BY <3>1, <3>2
  <2>3. ASSUME NEW s \in Service, Verify(s) PROVE (Met /\ StartsEquipped)'
    BY <2>3, ReturnedMet DEF Verify, Inside
  <2>4. CASE UNCHANGED depVars
    BY <2>4 DEF Met, StartsEquipped, Spared, depVars
  <2>5. QED
    BY <2>1, <2>2, <2>3, <2>4, Cases
<1>3. QED
  BY <1>1, <1>2, DepTyping, PTL DEF DepSpec

(* An installation that was neither refused nor failed leaves nothing       *)
(* lacking that has a package.                                              *)
LEMMA ReturnedOwed ==
  ASSUME DepTypeOK, Owed, SkippedForCause, NEW s \in Service, Returned(s, Missing(s)),
         at[s] = "verify" \/ Missing(s) = {} \/ ~Installs, Inside(s),
         UNCHANGED <<available, hindered>>, \A t \in Service \ {s} : wanting'[t] = wanting[t]
  PROVE  Owed' /\ SkippedForCause'
<1>1. ASSUME NEW t \in Service \ {s}
      PROVE  call'[t] = call[t] /\ lacking'[t] = lacking[t] /\ at'[t] = at[t]
  BY DEF Returned, To, DepTypeOK
<1>2. Installs /\ Missing(s) # {} => hindered[s] \/ Missing(s) \cap Registered = {}
  BY DEF Owed, Missing
<1>3. lacking'[s] \in {{}, Missing(s), lacking[s], lacking[s] \cup Missing(s)}
  BY DEF Returned, DepTypeOK
<1>4. Installs /\ lacking'[s] # {} => hindered[s] \/ ~(lacking'[s] \subseteq Registered)
  BY <1>2, <1>3 DEF Owed
<1>5. at'[s] \in {"check", "ran", "skipped"} /\ (at'[s] = "skipped" => lacking'[s] # {})
  BY DEF Returned, To, DepTypeOK
<1>6. ASSUME NEW t \in Service \ {s} PROVE Asked(t)' = Asked(t)
  BY <1>1 DEF Asked
<1>7. Owed'
  BY <1>1, <1>4, <1>5, <1>6 DEF Owed
<1>8. SkippedForCause'
  BY <1>1, <1>4, <1>5 DEF SkippedForCause
<1>9. QED
  BY <1>7, <1>8

LEMMA OwedStep ==
  ASSUME DepTypeOK, Owed, SkippedForCause, NEW s \in Service,
         Begin(s) \/ TryRelease(s) \/ RunManager(s) \/ Installed(s)
  PROVE  Owed' /\ SkippedForCause'
<1>1. \A t \in Service \ {s} : /\ at'[t] = at[t] /\ wanting'[t] = wanting[t]
                                /\ hindered'[t] = hindered[t]
  BY DEF DepTypeOK, Begin, TryRelease, RunManager, Installed, To
<1>2. hindered[s] => hindered'[s]
  BY DEF DepTypeOK, Begin, TryRelease, RunManager, Installed
<1>3. \A t \in Service : Asked(t)' = Asked(t)
  BY Growing DEF Asked
<1>4. at'[s] \in {"release", "install", "installing", "verify"} =>
        Asked(s) \ available' \subseteq wanting'[s]
  <2>1. CASE TryRelease(s)
    BY <2>1 DEF TryRelease, DepTypeOK
  <2>2. CASE Begin(s)
    BY <2>2 DEF Begin, To, DepTypeOK
  <2>3. CASE RunManager(s) \/ Installed(s)
    BY <2>3, Growing DEF RunManager, Installed, Owed
  <2>4. QED
    BY <2>1, <2>2, <2>3
<1>5. at'[s] = "verify" /\ ~hindered'[s] => wanting'[s] \cap Registered \subseteq available'
  BY DEF DepTypeOK, Begin, TryRelease, RunManager, Installed, To, Packages
<1>6. Owed'
  <2> SUFFICES ASSUME NEW t \in Service
      PROVE /\ at'[t] \in {"release", "install", "installing", "verify"} =>
                 Asked(t) \ available' \subseteq wanting'[t]
            /\ at'[t] = "verify" /\ ~hindered'[t] =>
                 wanting'[t] \cap Registered \subseteq available'
            /\ Installs /\ lacking'[t] # {} =>
                 hindered'[t] \/ ~(lacking'[t] \subseteq Registered)
    BY <1>3 DEF Owed
  <2>1. CASE t = s
    BY <1>2, <1>4, <1>5, <2>1, Growing DEF Owed
  <2>2. CASE t # s
    BY <1>1, <2>2, Growing DEF Owed
  <2>3. QED
    BY <2>1, <2>2
<1>7. SkippedForCause'
  BY <1>1, <1>2, Growing DEF SkippedForCause
<1>8. QED
  BY <1>6, <1>7

(* Whatever the pool, the tool lists and the repositories, a service is     *)
(* skipped only when the package manager was refused or failed for it, or   *)
(* when a tool it lacks has no package.                                     *)
THEOREM Causes == DepSpec => []SkippedForCause
<1>1. DepInit => Owed /\ SkippedForCause
  BY DEF DepInit, Owed, SkippedForCause
<1>2. DepTypeOK /\ Owed /\ SkippedForCause /\ [DepNext]_depVars => (Owed /\ SkippedForCause)'
  <2> SUFFICES ASSUME DepTypeOK, Owed, SkippedForCause, [DepNext]_depVars
               PROVE  (Owed /\ SkippedForCause)'
    OBVIOUS
  <2>1. ASSUME NEW s \in Service,
               Begin(s) \/ TryRelease(s) \/ RunManager(s) \/ Installed(s)
        PROVE  (Owed /\ SkippedForCause)'
    BY <2>1, OwedStep
  <2>2. ASSUME NEW s \in Service, Check(s) PROVE (Owed /\ SkippedForCause)'
    <3>1. UNCHANGED <<available, hindered>> /\ at[s] = "check"
          /\ wanting' = [wanting EXCEPT ![s] = Missing(s)]
      BY <2>2 DEF Check
    <3>2. CASE (Missing(s) = {} \/ ~Installs) /\ Returned(s, Missing(s))
      BY <3>1, <3>2, ReturnedOwed DEF Inside, DepTypeOK
    <3>3. CASE /\ at' \in {[at EXCEPT ![s] = "release"], [at EXCEPT ![s] = "install"]}
               /\ UNCHANGED <<call, lacking>>
      <4>1. \A t \in Service : Asked(t)' = Asked(t)
        BY <3>3 DEF Asked
      <4>2. wanting'[s] = Asked(s) \ available
        BY <3>1 DEF Missing, DepTypeOK
      <4>3. QED
        BY <3>1, <3>3, <4>1, <4>2 DEF Owed, SkippedForCause, DepTypeOK
    <3>4. QED
      BY <2>2, <3>2, <3>3 DEF Check, To
  <2>3. ASSUME NEW s \in Service, Verify(s) PROVE (Owed /\ SkippedForCause)'
    BY <2>3, ReturnedOwed DEF Verify, Inside
  <2>4. CASE UNCHANGED depVars
    BY <2>4 DEF Owed, SkippedForCause, Asked, depVars
  <2>5. QED
    BY <2>1, <2>2, <2>3, <2>4, Cases
<1>3. QED
  BY <1>1, <1>2, DepTyping, PTL DEF DepSpec

=============================================================================
