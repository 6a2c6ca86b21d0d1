-------------------------------- MODULE Scan -------------------------------
(***************************************************************************)
(* A whole scan as main.py runs it: discovery finds ports and services,     *)
(* run_services() writes a manifest for every module, runs each module as a *)
(* worker process with the context of its manifest, and merges the result   *)
(* of a worker that succeeded into its own context; scan.json records how   *)
(* the scan ended.  The scheduler, the terminals and the workers have       *)
(* modules of their own; here a worker starts when a pool thread is free.   *)
(* Definitions named Fault... are plausible bugs that no action uses.       *)
(***************************************************************************)
EXTENDS Discovery, FiniteSets

CONSTANTS Outputs,     \* what the port scan may leave in its log: sets of tokens
          Reports,     \* what nmap may: [rows, said], as Discovery reads them
          Finds,       \* for each module, the names it may find
          MaxWorkers

(* context.services, as sets of [module, port, transport], and the names    *)
(* that come with them.                                                     *)
Classified(rows) == {Classify(row) : row \in rows}
Hosts == {Classified(r.rows) : r \in Reports}
Identities == {Identity(r.said) : r \in Reports}

(* All ports are of TCP, which is all that nmap is asked for, and a report  *)
(* has one row for a port.                                                  *)
OfOneHost(rows) ==
  \A x \in rows : /\ x.transport = "tcp" /\ x.prints \subseteq {"tcp"} \X Nat
                  /\ {x.sure, x.http} \subseteq BOOLEAN
                  /\ \A y \in rows : x.port = y.port => x = y

ASSUME ScanAssumption ==
  /\ MaxWorkers \in Nat \ {0} /\ \A r \in Reports : OfOneHost(r.rows)
  /\ \A ds \in Hosts : \A d \in ds : d.port \in Nat /\ d.module \in DOMAIN Finds

Implemented == DOMAIN Spoken
Detected == UNION Hosts
Name == (UNION {Finds[m] : m \in DOMAIN Finds}) \cup (UNION Identities)
Outcome == {"none", "SUCCESS", "FAILED", "STOPPED", "SKIPPED"}

VARIABLES step,       \* where main() is: see Steps
          open,       \* ports.json: pairs of a transport and a port
          printed,    \* the rows in nmap.log
          record,     \* the state in scan.json
          exit,       \* what the process ends with
          ctrlC,      \* how many Ctrl-C have reached the main thread
          detected,   \* context.services
          known,      \* context.hostnames and context.domains
          facts,      \* context.facts: pairs of a key and the worker it is from
          manifest,   \* the names in the manifest of each service
          worker,     \* queued, running, saved (its result is on disk) or over
          found,      \* the names in the context of each worker
          outcome     \* what the scheduler holds of each task

Early == {"ports", "nmap", "dispatch"}

(* stopping: Ctrl-C came while services run, the pool is joined; cancelled, *)
(* failed: in an except block of main(); done: run_services() has returned; *)
(* leaving: scan.json is written.                                           *)
Steps == Early \cup {"services", "stopping", "cancelled", "failed", "done", "leaving", "ended"}

Main == <<step, record, exit, ctrlC>>
Logs == <<open, printed>>
Context == <<detected, known, facts>>
Services == <<manifest, worker, found, outcome>>
vars == <<Main, Logs, Context, Services>>

-----------------------------------------------------------------------------
(* One LDAP worker: the lowest plain port, 389 and 3268 before any other,   *)
(* and a secure port, 636 first, only when there is no plain one.           *)
Secure(d) == d.transport = "tcp_tls" \/ d.port \in {636, 3269}
Rank(d) == CASE d.port = (IF Secure(d) THEN 636 ELSE 389) -> 0
             [] d.port = (IF Secure(d) THEN 3269 ELSE 3268) -> 1
             [] OTHER -> 2
Sooner(a, b) == Rank(a) < Rank(b) \/ (Rank(a) = Rank(b) /\ a.port =< b.port)

FaultLdapChoice(ds) == {d \in ds : d.module = "ldap" /\ Rank(d) < 2}

LdapChoice(ds) ==
  LET ldap == {d \in ds : d.module = "ldap"}
      plain == {d \in ldap : ~Secure(d)}
      from == IF plain # {} THEN plain ELSE ldap
      best == {d \in from : \A e \in from : Sooner(d, e)}
  IN {d \in ldap : \E b \in best : d.port = b.port}

(* The services that get a module: _module_for() is None for the others.    *)
Modules(ds) ==
  {d \in ds : /\ d.module \in Implemented
              /\ d.module = "kerberos" => d.port = 88
              /\ d.module = "ldap" => d \in LdapChoice(ds)}

Tasks == IF step \in Early THEN {} ELSE Modules(detected)
Running == {d \in Tasks : worker[d] \in {"running", "saved"}}

TypeOK ==
  /\ step \in Steps /\ ctrlC \in 0..3
  /\ record \in {"RUNNING", "SUCCESS", "PARTIAL", "FAILED", "CANCELLED"}
  /\ exit \in {"none", "0", "1", "130", "traceback"}
  /\ open \in {ExtractPorts(out) : out \in Outputs} \cup {{}}
  /\ printed \in {r.rows : r \in Reports} \cup {{}} /\ detected = Classified(printed)
  /\ detected \in Hosts \cup {{}} /\ known \subseteq Name
  /\ facts \subseteq (DOMAIN Finds) \X Detected
  /\ manifest \in [Detected -> SUBSET Name] /\ found \in [Detected -> SUBSET Name]
  /\ worker \in [Detected -> {"queued", "running", "saved", "over"}]
  /\ outcome \in [Detected -> Outcome]
  /\ Cardinality(Running) =< MaxWorkers
  /\ \A d \in Detected : outcome[d] # "none" => worker[d] = "over"

(* get_context(): the scan directory exists, scan.json says RUNNING.        *)
Init ==
  /\ step = "ports" /\ record = "RUNNING" /\ exit = "none" /\ ctrlC = 0
  /\ open = {} /\ printed = {}
  /\ detected = {} /\ known = {} /\ facts = {}
  /\ manifest = [d \in Detected |-> {}] /\ found = [d \in Detected |-> {}]
  /\ worker = [d \in Detected |-> "queued"]
  /\ outcome = [d \in Detected |-> "none"]

-----------------------------------------------------------------------------
(* RustScan or its fallback; without open ports there is nothing to do.     *)
ScanPorts ==
  /\ step = "ports" /\ \E out \in Outputs : open' = ExtractPorts(out)
  /\ step' = IF open' = {} THEN "dispatch" ELSE "nmap"
  /\ UNCHANGED <<printed, record, exit, ctrlC, Context, Services>>

(* Nmap is asked for the open ports and reports on some of them.            *)
Answers == {r \in Reports : \A row \in r.rows : <<row.transport, row.port>> \in open}

Identify ==
  /\ step = "nmap" /\ step' = "dispatch"
  /\ \E r \in Answers :
       printed' = r.rows /\ detected' = Classified(r.rows) /\ known' = Identity(r.said)
  /\ UNCHANGED <<open, record, exit, ctrlC, facts, Services>>

Dispatch ==
  /\ step = "dispatch" /\ step' = "services"
  /\ manifest' = [d \in Detected |-> IF d \in Modules(detected) THEN known ELSE {}]
  /\ UNCHANGED <<record, exit, ctrlC, Logs, Context, worker, found, outcome>>

-----------------------------------------------------------------------------
(* The scheduler hands d to the pool, where a thread is free.               *)
Start(d) ==
  /\ step = "services" /\ d \in Tasks /\ worker[d] = "queued"
  /\ Cardinality(Running) < MaxWorkers
  /\ worker' = [worker EXCEPT ![d] = "running"]
  /\ found' = [found EXCEPT ![d] = manifest[d]]
  /\ UNCHANGED <<Main, Logs, Context, manifest, outcome>>

(* Tools are missing, or looking for them raised an exception.              *)
Skip(d) ==
  /\ step = "services" /\ d \in Tasks /\ worker[d] = "queued"
  /\ Cardinality(Running) < MaxWorkers
  /\ worker' = [worker EXCEPT ![d] = "over"]
  /\ \E state \in {"SKIPPED", "FAILED"} : outcome' = [outcome EXCEPT ![d] = state]
  /\ UNCHANGED <<Main, Logs, Context, manifest, found>>

Discover(d) ==
  /\ worker[d] = "running"
  /\ \E n \in Finds[d.module] \ found[d] : found' = [found EXCEPT ![d] = @ \cup {n}]
  /\ UNCHANGED <<Main, Logs, Context, manifest, worker, outcome>>

(* The worker writes its result and ends with 0.                            *)
SaveResult(d) ==
  /\ worker[d] = "running" /\ worker' = [worker EXCEPT ![d] = "saved"]
  /\ UNCHANGED <<Main, Logs, Context, manifest, found, outcome>>

(* It ends otherwise: what it wrote of its discoveries is not merged.       *)
(* TIMEOUT and CANCELLED are one outcome here, STOPPED.                     *)
WorkerFails(d) ==
  /\ worker[d] = "running" /\ worker' = [worker EXCEPT ![d] = "over"]
  /\ \E state \in {"FAILED", "STOPPED"} :
       outcome' = [outcome EXCEPT ![d] = state]
  /\ UNCHANGED <<Main, Logs, Context, manifest, found>>

FaultMerge(d) ==
  /\ worker[d] = "saved" /\ worker' = [worker EXCEPT ![d] = "over"]
  /\ known' = found[d] /\ facts' = {<<d.module, d>>}
  /\ outcome' = [outcome EXCEPT ![d] = "SUCCESS"]
  /\ UNCHANGED <<Main, Logs, detected, manifest, found>>

(* The names are united, a key of the facts replaces the one of that name;  *)
(* an exception after that makes the task FAILED.                           *)
Merge(d) ==
  /\ worker[d] = "saved" /\ worker' = [worker EXCEPT ![d] = "over"]
  /\ known' = known \cup found[d]
  /\ facts' = {f \in facts : f[1] # d.module} \cup {<<d.module, d>>}
  /\ \E state \in {"SUCCESS", "FAILED"} : outcome' = [outcome EXCEPT ![d] = state]
  /\ UNCHANGED <<Main, Logs, detected, manifest, found>>

-----------------------------------------------------------------------------
(* How main() goes on, and how it records the end of the scan.              *)
GoTo(next) == step' = next /\ UNCHANGED <<record, exit, ctrlC, Logs, Context, Services>>
Write(state, code) ==
  step' = "leaving" /\ record' = state /\ exit' = code
  /\ UNCHANGED <<ctrlC, Logs, Context, Services>>

(* Any exception but a KeyboardInterrupt in run_services() is raised before *)
(* the pool is used or after it was joined.                                 *)
Raises == step \in {"services", "stopping"} => Running = {}

(* A RuntimeError: a tool is missing, a command of the discovery did not    *)
(* end in SUCCESS, or the pool cannot start a thread.                       *)
Fails == step \in Early \cup {"services"} /\ Raises /\ GoTo("failed")

Finish == step = "services" /\ (\A d \in Tasks : worker[d] = "over") /\ GoTo("done")

FaultVerdict == IF \E d \in Tasks : outcome[d] = "FAILED" THEN Write("PARTIAL", "1")
                ELSE Write("SUCCESS", "0")
Verdict == IF \A d \in Tasks : outcome[d] = "SUCCESS" THEN Write("SUCCESS", "0")
           ELSE Write("PARTIAL", "1")

Record ==
  \/ step = "done" /\ Verdict
  \/ step = "failed" /\ Write("FAILED", "1")
  \/ step = "cancelled" /\ Write("CANCELLED", "130")

Leave == step = "leaving" /\ GoTo("ended")

Abort(signals) ==
  step' = "ended" /\ exit' = "traceback" /\ ctrlC' = ctrlC + signals
  /\ UNCHANGED <<record, Logs, Context, Services>>

(* An exception that main() does not catch, as an OSError of write_json().  *)
Escapes == step \notin {"leaving", "ended"} /\ Raises /\ Abort(0)

(* Ctrl-C where main() catches it: at once, or once the pool is joined.     *)
Interrupt ==
  /\ step \in Early \cup {"services"}
  /\ step' = (IF step = "services" THEN "stopping" ELSE "cancelled") /\ ctrlC' = ctrlC + 1
  /\ UNCHANGED <<record, exit, Logs, Context, Services>>

Stop == step = "stopping" /\ Running = {} /\ GoTo("cancelled")

(* A second Ctrl-C ends the join, and the threads of the pool work on.      *)
InterruptJoin ==
  /\ step = "stopping" /\ step' = "cancelled" /\ ctrlC' = ctrlC + 1
  /\ UNCHANGED <<record, exit, Logs, Context, Services>>

(* Ctrl-C in an except block of main(), or after its try statement.         *)
InterruptMain == step \in {"cancelled", "failed", "done", "leaving"} /\ Abort(1)

Next ==
  \/ ScanPorts \/ Identify \/ Dispatch
  \/ \E d \in detected : \/ Start(d) \/ Skip(d) \/ Discover(d) \/ SaveResult(d)
                         \/ WorkerFails(d) \/ Merge(d)
  \/ Fails \/ Finish \/ Record \/ Leave \/ Escapes
  \/ Interrupt \/ Stop \/ InterruptJoin \/ InterruptMain

Spec == Init /\ [][Next]_vars

-----------------------------------------------------------------------------
(* The exit code of main() agrees with scan.json.  Without Ctrl-C, a scan   *)
(* that ends in a traceback still says RUNNING.  Whoever reads a verdict on *)
(* the services reads it after the last worker, SUCCESS only if every one   *)
(* was; and a worker outlives the scan only after a second Ctrl-C, under a  *)
(* record that claims nothing of the services.                              *)
RecordHonest ==
  /\ step = "ended" =>
       /\ exit = "0" => record = "SUCCESS"
       /\ exit = "1" => record \in {"PARTIAL", "FAILED"}
       /\ exit = "130" => record = "CANCELLED"
       /\ exit = "traceback" /\ ctrlC = 0 => record = "RUNNING"
       /\ Running # {} => ctrlC >= 2 /\ record \in {"CANCELLED", "RUNNING"}
  /\ record \in {"SUCCESS", "PARTIAL"} =>
       /\ \A d \in Tasks : worker[d] = "over"
       /\ record = "SUCCESS" <=> \A d \in Tasks : outcome[d] = "SUCCESS"

(* What a worker that succeeded found stays in the shared context, also     *)
(* after the workers that end later are merged; of two workers for one      *)
(* module, the facts are those of one.                                      *)
DiscoveriesKept ==
  \A d \in Detected : outcome[d] = "SUCCESS" =>
    /\ found[d] \subseteq known
    /\ \E e \in Tasks : <<d.module, e>> \in facts /\ e.module = d.module /\ worker[e] = "over"

(* Once the services run: no port has two workers.  A host on which nmap    *)
(* names LDAP, and no product that goes before the name, has one LDAP       *)
(* worker, on a port that is open; it speaks TLS only when nmap says so of  *)
(* every LDAP port or the port is a secure one.  A port where the name is   *)
(* HTTP, or a vague one and the block below shows HTTP, has an HTTP worker, *)
(* but never for the fingerprints of other ports alone.                     *)
ServicesServed ==
  (step \in {"services", "stopping"} \/ record \in {"SUCCESS", "PARTIAL"}) =>
    LET plain == {r \in printed : ~ ByProduct(r)}
        ldap == {r \in plain : r.service \in {"ldap", "ldaps", "ssl/ldap"}}
        tls(r) == r.port \in {636, 3269} \/ (r.service # "ldap" /\ r.sure)
        foreign(r) == r.prints # {} /\ \A p \in r.prints : p[2] # r.port
        vague == {r \in plain : r.service \in {"unknown", "tcpwrapped", "rtsp"}}
        web == {d.port : d \in {e \in Tasks : e.module \in {"http", "https"}}}
    IN /\ \A d \in Tasks, e \in Tasks : d.port = e.port => d = e
       /\ \A d \in Tasks : <<"tcp", d.port>> \in open
       /\ ldap # {} => \E r \in ldap, d \in Tasks :
            /\ {e \in Tasks : e.module = "ldap"} = {d} /\ d.port = r.port
            /\ Secure(d) = tls(r) /\ (Secure(d) => \A s \in ldap : tls(s))
       /\ \A r \in plain : r.service \in {"http", "ssl/http"} => r.port \in web
       /\ \A r \in vague : r.port \in web <=> r.http /\ ~ foreign(r)

=============================================================================
