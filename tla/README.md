# Neo-Recon: a TLA+ model of the scanner

Neo-Recon (`src/main.py`, `src/scr/`) scans one target. It finds open ports
with RustScan or nmap, starts one worker per detected service, shows the native
commands of every worker in terminals, collects what they print, and records
evidence, results and the outcome of the scan under one directory. It is a
small program with a lot going on at the same time: a thread pool, a server
thread, processes in terminals that report back through files, process groups
behind a PTY, a compositor that the user drives too, and one `/etc/hosts`.

The modules here model that control. Each is translated from the source at the
lines `PROJECT.json` gives under `map`; `theorems` lists what is proved for every
value of the constants. Section 6 says where the code does not do what the
repository says it does.

- [1. The system](#1-the-system)
- [2. Modules and the code they stand for](#2-modules-and-the-code-they-stand-for)
- [3. Runs](#3-runs): what is checked, on which instance, and why it is large enough
- [4. Fairness](#4-fairness)
- [5. Proofs](#5-proofs)
- [6. Where code and documents disagree](#6-where-code-and-documents-disagree)
- [7. Not modelled](#7-not-modelled)
- [8. Plan](#8-plan)
- [9. Running it](#9-running-it)

## 1. The system

### Parts, their state and how they meet

| Part | State | Operations | Talks to |
|---|---|---|---|
| Scan (`main.py`, `core/orchestrator.py`, `core/service_worker.py`, `discovery/pipeline.py`) | step and exit code of `main`, `scan.json`, `TargetContext`, manifests, results | `discover`, `_module_for`, `run_services` and its `execute`, `cancel_workers`, `service_worker.run` | everything below |
| Scheduler (`core/scheduler.py`) | pending tasks, futures, `Task.state`, `attempts` | `run`: the scan of the pending tasks, `submit`, `wait`, the reaping of futures with its retries, the handler of KeyboardInterrupt | the pool threads that run `execute` |
| Dependency manager (`dependencies/manager.py`) | tools on the PATH | `check`, `ensure`, `ensure_service` | the package manager, other pool threads |
| Terminal manager (`core/terminal.py`) | class-level table of active commands, inline lock | `execute`, `_execute_once`, `launch` | worker processes through pidfile and metadata |
| Worker (`core/worker.py`, `core/process.py`) | pidfile, metadata, `Task.state` | `worker.run`, `CommandRunner.run` | the terminal manager, SIGTERM of `cancel_workers` |
| PTY runner (`core/pty.py`) | deadline, kill deadline, saved output, verdict | `run_pty` | the process group behind the terminal |
| Workspace manager (`core/workspace.py`) | reservations of this process | `reserve`, `has_capacity`, `switch_to`, `place_when_visible`, `place`, `repair_overflow`, `release` | the compositor, the user, other scanner processes |
| Collector (`core/collector.py`, `core/output.py`) | Unix datagram socket, `running`, `_NEEDS_SEPARATOR_NEWLINE` | `collect`, `_serve`, `close` | every worker, the main terminal |
| Traversal (`engine/traversal.py`, `core/resources.py`) | accepted resources, queue, futures, counters | `offer`, `traverse` | SMB, FTP, LDAP and HTTP enumeration |
| DNS module (`modules/dns`) | domains, name servers, asked queries, records | `run`, `_query` | a DNS server over UDP and TCP |
| HTTP module (`modules/http`) | resources, hosts of the context, the shared word list | `run`, `_fuzz_directory`, `_enumerate_vhosts`, `bounded_copy` | `ffuf`, other HTTP workers |
| Evidence (`core/evidence.py`, `_task`/`_run` of the modules) | files of the scan | the `open` and the writes of `run_pty`, the parsing in each module, `write_json` | every worker of the scan |
| SMB, FTP and LDAP modules (`modules/smb`, `ftp`, `ldap`) | access, status and children of each resource | `_enumerate_resource`, `_inspect_file` (SMB, FTP), `_enumerate` (LDAP) | one native command per resource, the traversal |
| Parsers and classifier (`discovery`) | none | ports, rows, module of a row, names of the host | the logs of RustScan and nmap, `context.services` |
| Hosts file (`core/hosts.py`) | `/etc/hosts`, its backups | `apply` | other scans on the machine |

A service worker is a process in a terminal window. Below it stand, per native
command, `TerminalManager.execute` (deduplication), `_execute_once` (a terminal
and a worker process, or the command inline), `CommandRunner.run` and `run_pty`.
What the command printed goes to a file and, as one datagram, to the collector of
the main process.

### What is hard about it

* **Two sides of a file.** `_execute_once` and its worker share a pidfile and a
  metadata file and nothing else. A slow, killed or cancelled worker looks, from
  the files, much like one that never started.
* **Memory that only one process sees.** The locks and tables of the terminal
  manager, the workspace manager and the hosts manager are thread locks and class
  attributes; service workers and second scans are processes of their own.
* **State read, then used.** Windows are counted before a window is shown;
  `/etc/hosts` is read before it is replaced; manifests are written before the
  first worker starts; `Task.state` is assigned by a pool thread while the main
  thread scans it.
* **Every end of a command.** Exit, timeout, cancellation, KeyboardInterrupt and
  write errors arrive in any order, with the leader or without it.
* **Shared paths.** Two workers of one service (ports 139 and 445, 80 and 8080)
  write below one directory.
* **Loops over data of others.** Directory listings and DNS answers may be
  cyclic; the loops have to end, respect their limits and still miss nothing.

`PROJECT.json` lists every such place with its line under `hazards`, and the
properties that cover it.

### What makes each part correct

* Scheduler: no task lost, run twice or run before its dependencies; none outlives
  `run()` unless a second Ctrl-C forces the way out; only cycles are reported as cycles;
  `run()` ends.
* Dependency manager: no service starts without its tools; none is skipped without
  a cause; what can be installed is installed.
* Deduplication: at most one run of a key at a time; a duplicate agrees with the
  run; no call waits for ever.
* Handshake: two files and a polling loop amount to one command with one verdict; the
  reported state is the recorded one; the pool thread comes back.
* PTY: all output is saved; the first reason to stop decides the verdict; nobody of the process group
  is forgotten; the call returns.
* Placement: no workspace over its limit; the user gets the workspace back; a launch
  leaves at most the reservation of its window.
* Collector: every output is shown, headers on lines of their own as far as the collector
  knows the terminal; nobody blocks for ever at the end.
* Traversal: a tree within its limits, nothing probed twice, nothing lost.
* DNS: every follow-up asked, up to the limit; the loop ends.
* HTTP: no path that was answered is lost; the list that two workers share is whole when
  it is read.
* SMB, FTP and LDAP: what is recorded of a resource was shown by a command; its
  status fits the command.
* Evidence: nobody's evidence is overwritten or parsed by somebody else, except where
  the paths say so (section 6).
* Classification: every service gets one worker, the right one, and none for the
  evidence of a neighbour.
* Hosts: each replaced file has a backup; names resolve and none is lost, but for those
  that section 6 names.
* Scan: the record and the exit code agree and tell the truth; what was found is kept and
  reaches whom it concerns.

## 2. Modules and the code they stand for

`MCx.tla` extends `x.tla` and gives its constants the values the `.cfg` names.
Operators named `Fault...` are plausible bugs of the definition that follows them;
no action uses one. They show that a property would notice: with the fault in
place of the definition, TLC finds the property violated.

**JobGraph** is the abstract specification of a dependency-aware scheduler: a
job begins only when all it depends on succeeded (`Launch`), is given up when one
of them went bad (`GiveUp`), ends (`Conclude`) and may be tried again
(`TryAgain`), at most `Slots` at a time. No threads, futures or order of a scan.

**Scheduler** is `Scheduler.run`. `dep` is `Task.dependencies`, chosen in `Init`;
`EnterScan` takes the snapshot of the pending tasks, `Skip`, `Submit` and
`PassOver` are the three ways through the loop body, `NothingRuns` the blocked
error, `Wait` and `Pop`/`Retry`/`Finish` the reaping of futures. `Interrupt` is Ctrl-C
between two steps of the `try` block, `InterruptSubmit` within `pool.submit`, after the item was
queued and before its future was stored (`lost`); `CancelFutures` and `Drain` are the
handler and the join at the end of the `with` block, `InterruptHandler` and `InterruptJoin` a
further Ctrl-C in either, after which `run()` raises while pool threads work on. `ctrlC` counts
them. The pool threads are `Begin`, `Assign` and `Return`: `Assign` is what `CommandRunner.run` and
`TerminalManager.execute` do to `Task.state` before they return. `JG` is the
refinement mapping to JobGraph.

**ResourceTraversal** is `ResourceTraversal.traverse`. `Accept` and `Reject` are the outcomes
of one call of `offer` with all its limits, `Submit` and `Wait` fill the
pool and wait for it, `Reap` takes one future in, with the listing or the failure
it holds, `Enumerate` is the callback in a pool thread. The namespace is chosen in
`Init`: what every resource lists, which may be itself or an ancestor.

**Enumeration** extends ResourceTraversal: `Probe` is the callback of the three
modules, `_enumerate_resource`, `_inspect_file` and `_enumerate`. A native command
brings an exit status, what the patterns find in its output and perhaps a file
(`Answers`); `SmbAccess`, `FtpAccess` and `LdapAccess` make the record of access of it,
`SmbFate`, `FtpFate` and `LdapFate` the status and whether anything is listed. A child
starts with what the listing of its parent says (`Fresh`), which is also what
`probe_blocked` reads. `DirectoryRead` is the LDAP module's verdict on the directory.

**Evidence** is the life of an output file: `Begin` is the `open` that empties it,
`Write` a chunk at the offset of the command's own descriptor, `End`, and `ReadBack`, with
which the module parses what is there. `PathOf` is the key each module hashes
(`PortInKey` tells those that name the port; no key names the transport). `Turn` orders the commands of one worker:
one at a time under `_inline_lock`, the pool of the traversal between two stretches of
the main thread.

**Collector** extends Evidence with `CollectorServer` and `collect`: `Send` may find the
queue full (it blocks) or closed (the error is swallowed); `Check`, `Recv`,
`RecvNothing`, `Measure`, `Show` and `Recall` are the server thread, which opens the file
twice, once to print it and once for its last byte. `Stream` is what reaches the main terminal
without the lock of `collect()`: the live output of commands that a worker or discovery runs
inline, their suggestions, and installations; it may happen at any time and leaves the cursor
(`cursor`) where nobody knows. `CloseSend`, `CloseFlag`,
`CloseJoin` and `CloseSocket` are `close()`, in its order.

**TerminalDedup** is `TerminalManager.execute`: `Claim` looks into the table under
its lock, `Start`, `End` and `Unlock` run the command (inline ones under the class
lock), `Publish` puts the task and its state into the entry and sets the event; a duplicate wakes
(`Wake`), gives up (`Expire`) or copies (`Copy`).

**RemoteRun** is the abstract specification of a command in a terminal of its own: one
of two runners starts it (`Start`), the other only when the first is given up for lost
(`GiveUp`: it had its time, or its terminal failed); who ends leaves a verdict (`Finish`),
`Cancelled` only if it was stopped (`Stop`), though who was stopped may still leave another; the
caller is told what was left (`Answer`) or runs the command itself (`FinishAndAnswer`), and may
be interrupted in it (`FinishAndRaise`). No files, signals or polling.

**WorkerHandshake** is one `_execute_once`: the poller (`Launch`, which may fail or raise,
`CheckMeta`, `CheckLauncher`, `CheckDeadline`, `ReadMeta`), the inline fallback (`InlineStart`,
`InlineEnd`: a command that was cancelled may still record how it ended or timed out), the worker
(`WritePid`, `RunCommand`, `WriteMeta`, `UnlinkPid`; `WorkerRaises` and `Die` leave no metadata,
`Die` also the pidfile), and the terminal (`TerminalOpens`, `TerminalEnds` with any code at any
time, `TypedCtrlC`, `HangUp`). `CancelWorkers` is `cancel_workers`; `KeyboardInterrupt` says what a
signal does to the worker by where it is. `onMain` tells discovery, which runs in the
main thread and gets the KeyboardInterrupt itself, within the `try` of `_execute_once`
(`Interrupt`, then `Raise`) or outside it (`InterruptOutside`), from service tasks in the pool.
`RR` is the refinement mapping to RemoteRun: the metadata file is the record; the start deadline,
or a launcher that ended with an error, gives the first runner up for lost.

**PtyRun** is the loop of `run_pty`: `CheckTimeout`, `CheckCancel`, `CheckKill`,
`Read`, `Finished` as the code orders them, the `finally` block, and `OnInterrupt`
and `Break` with handlers of their own. Around it: processes that fork, write, close the
terminal, ignore SIGTERM, end, or live in a session of their own. `told` remembers who
was in the group when the verdict was set, `found` which reasons to stop the tests of the loop
have met. Its variables and actions carry names of their
own (`ptyVars`, `PtySpec`), as those of WorkerHandshake (`handVars`, `HandSpec`),
HttpDiscovery (`httpVars`, `HttpSpec`), DependencyInstall (`DepSpec`) and JobGraph
(`JobSpec`) do, so that one proof module can extend several.

**WorkspacePlacement** is `launch()` over `WorkspaceManager`, in several processes that
each count their own reservations (`held[p]`). Every question to the compositor is a
step, because the user, other windows and the other processes act between two. `None`
answers stand for any failed question, a disabled manager included. Hyprland's
`movetoworkspace` takes the focus along with the window and Sway's `move` does not;
`Place` leaves it open. `setting` bounds the launches of each process and tells the mood
of the desktop (calm, busy, rough), `preferred` is the configured list; both are chosen
in `Init`. `opened` remembers which windows came after the recheck of a launch, `placed`
how many launches of a process put their window where they meant to.

**HostsFile** is `apply()`: `Read`, `Backup`, `Replace`, `Sync`, an error or a
crash before each, in any number of scans that overlap as they like. The file is the set
of its active lines; a name may stand on several lines with several addresses. `Orphan` names the
one case in which `apply()` drops a name it was asked for. `disturbed` remembers under which
scans the file was replaced.

**DependencyInstall** is `ensure` and `ensure_service`: `Check`, the download of
RustScan (`TryRelease`), `RunManager`, `Verify`. The package manager is external:
it holds one lock, gives up when another run holds it, and installs all it was asked
for or nothing.

**DnsPivot** is `DNSModule.run`: `Identify` (the name of the target), `SurveyDomain`
(zone queries over both transports), `Follow` (one pass of the follow-up loop),
`Finish`. The server is a relation chosen in `Init`; it may answer UDP and TCP
differently and fail any first query.

**HttpDiscovery** is `run()` of the HTTP module and `bounded_copy` of the word
lists: `Base`, `Fuzz`, `FuzzFiles`, `Save`, then `Truncate`, `Copy`, `ReadBack`,
`StartFfuf`, `EndFfuf`, `RecordHosts` for virtual hosts.

**Discovery** is what the parsers make of the logs: `ExtractPorts` of the tokens of a port
scan, `ScriptHttp`, `Renamed`, `Module` and `Classify` of a row of nmap and the block
below it, `Identity` of what nmap says of names. The regular expressions that find tokens
and rows in the text are left out; every combination of what they find is an input.

**Scan** is `main()` with `run_services`: `ScanPorts` and `Identify` with the operators of
Discovery, `Dispatch` (all manifests at once, the choice among LDAP ports), `Start`/`Skip`,
`Discover`, `SaveResult`, `WorkerFails` in the workers, `Merge`. `Finish` and `Fails` (a
RuntimeError) end the services or the discovery, `Interrupt`, `Stop` and `InterruptJoin` are a
first Ctrl-C, the join of the pool and a second Ctrl-C in it; `Record` writes `scan.json` and
`Leave` returns. `Escapes` is an exception that `main()` does not catch, `InterruptMain` a Ctrl-C
outside its `try` block; both end in a traceback (`Abort`). Here a worker starts when a pool thread
is free, submission and start in one step: how it starts, runs and ends is what Scheduler,
DependencyInstall, WorkerHandshake and PtyRun are about, so a step of Scan leaves open every end
that those modules allow.

## 3. Runs

There is one run for each module, so that every property of a module is checked
together with the behaviours that threaten the others; Enumeration is run with the
traversal it extends, Collector with Evidence, Scan with Discovery. Deadlock is checked for
Scheduler, Enumeration, Collector, WorkerHandshake, TerminalDedup and PtyRun,
whose `Over` and `Quiet` steps name the only states in which they may rest. The other
configurations say `CHECK_DEADLOCK FALSE`: a finished DNS walk, a machine whose scans
are over or a desktop after the last launch simply stop.

The runs check liveness, which is not proved, and every safety property that says something
of more than a type or a bound, so that each is seen to break under a plausible bug; every
safety property of a run is also a theorem. The type invariants of the
modules with a proof module, and the bounds `PoolBound`, `LimitsHold`, `DiscoveryTree`,
`DependencyOrder` and `QueriesBounded`, are theorems (section 5) and not run.

| Run | Instance | Properties |
|---|---|---|
| `sched_graphs` | all 512 graphs on 3 tasks, one of them retriable, 2 threads, every kind of return (exceptions and foreign objects too); Ctrl-C between any two steps of the `try` block and within `submit`, a second one in the handler, a second or third in the join; in the graph without edges `execute` assigns `Task.state` itself, which is what `run_services` submits | `CleanReturn`, `IdleUnlessForced`, `BlockedIsStuck`, `ImplementsJobGraph`, `Termination` |
| `trav_links` | each of the three modules over 18 ways to link 3 directories, 2 files and a share or LDAP entry, with cycles, self-links and shared children; any exit status, with and without a refusal in the output, a download that is missing, an exception; limits of depth 2, 4 tasks, 1 file, 2 directories | `ProbedOnce`, `Complete`, `RecordTrue`, `VerdictTrue`, `Termination` |
| `coll_close` | SMB workers on 139 and 445, one or both in terminals; their share lists, which go to one path, and the listing of a share; outputs of up to 2 pieces, with and without a last newline, over the line limit, unreadable; a queue of 1; live output of others between any two steps | `EvidenceKept`, `OnlyBacklogIsLost`, `HeaderOnFreshLine`, `EverybodyReturns` |
| `hand_faults` | discovery or service task; a terminal that opens late or never and ends with any code, a worker that is killed or raises anywhere; one Ctrl-C of the scan at any step of the poller, those typed in the terminal at any step of the worker; the deadline before or after any of it | `ImplementsRemoteRun`, `ResultIsTrue`, `Returns` |
| `dedup_table` | 3 calls of a key, 1 of another, two of them inline, waits may expire | `OneRunPerKey`, `DuplicateAgrees`, `EveryCallReturns` |
| `pty_loop` | a leader and `Kids`, one of them in a session of its own (`Strays`); any set of them ignores SIGTERM; timeout, cancel, KeyboardInterrupt, write errors; at most `MaxUnread` = 2 unread chunks | `NobodyForgotten`, `OutputSaved`, `FirstReasonStands`, `Ends` |
| `place_fits` | one process that launches twice, on a calm desktop and where any question fails and the user never rests; two processes that launch once each, at the same time; an app window, workspaces of 1, 6 of them, with and without a list | `OneReservationEach`, `LaunchFits`, `FocusReturns` |
| `hosts_scans` | 3 scans in any overlap over all files that give each of 3 names none, one or both of 2 addresses, on lines of their own or one line for each address; each scan may fail or crash at any step | `BackedUp`, `NamesResolve`, `NoNameLost` |
| `deps_pool` | 4 services with the tool lists of their `dependencies.py`, 4 threads, any set of installed tools, installs may be refused or fail | `StartsEquipped`, `SkippedForCause` |
| `dns_limit` | all 32 combinations of the parts of a zone, with and without failing first queries, limit 24 | `FollowUpsDone`, `Returns` |
| `http_lists` | 2 workers, lists of 3 words, every end of `ffuf`, an interrupt anywhere | `WholeListTried`, `PathsKept` |
| `scan_merge` | every set of six LDAP ports beside SMB and Kerberos, up to 3 of SMB on 445 and 139, LDAP and DNS, and all pairs of nine web and vague services, as nmap prints them; three port scans with tokens that are no open ports; 2 workers at a time, any step failing, escaping or interrupted, a second Ctrl-C in the join or in `main()` | `RecordHonest`, `DiscoveriesKept`, `ServicesServed` |

### Why these bounds

* *Three tasks, two threads.* A chain with a task between two others, a cycle with
  a task that depends on it, a full pool with a task waiting, and a retry that
  meets a free slot all fit; every graph over three tasks is taken, so none is
  chosen by hand. The theorems of section 5 drop the bound for all but liveness.
* *Six resources.* Two parents of one child, a child listed by two running
  enumerations, links back and cycles fit in three directories; the others make each
  limit bind while another is still open. One file is wanted, the other is not; the
  sixth is a share for SMB and an entry for LDAP.
* *Three commands, one shared path, a queue of one.* The second writer finds the file
  empty, half written, complete, sent, printed or parsed; senders block, the stop
  datagram queues behind an output, and an output is sent while it does. Two pieces with
  a line limit of one tell a short output from a long one and an offset from an append.
* *The last output of discovery ends with a newline* (`Discovered`), to keep the run short; the
  theorem covers one that does not.
* *One handshake.* `_execute_once` shares no state with another call but the
  machine; its interleavings are those of one poller, one worker and one canceller.
* *Four calls, two keys, both kinds.* An owner, a duplicate that wakes, a duplicate
  that expires, and a stranger that competes for the inline lock.
* *Two unread chunks* are enough to make a read leave something behind.
* *Workspaces of one* instead of four windows: the code compares counts with the
  limit and nothing else. Six workspaces leave room for the reservations that launches
  leave behind; the search for a free one, which the code does not bound, is cut by `Bounded`
  where none is left below `Spaces`, and `Launches` = 2 bounds `round`. Two launches are what a reservation needs to be left over and counted,
  two processes what it needs to be overlooked.
* *Three scans, two addresses, three names.* One repeated target, one other target, a
  name they share, a name only one knows, and in the file each of them with the right address,
  the wrong one, both or none; a third scan may replace the file between
  the reading and the writing of a second that disturbs the first.
* *Tool lists are the code's own*, for the service with a required tool, the one
  with alternatives, the one with optional tools, and RustScan, which has a
  download in place of a package.
* *A zone of five hosts* has every record type that `followup_queries` pivots on,
  a circular pair, and a zone transfer that reveals more than any query. The loop
  of `run()` stops at 200 queries; 24 bites in the follow-ups of the larger zones
  and leaves the smaller ones alone.
* *Three words*: one that names a host, one that names a path, and one that names
  both, so that the findings differ from the list and from each other.
* *Nine rows beside those of LDAP and SMB*: a name that is HTTP, guessed, over TLS, vague
  with its own fingerprint, with that of a neighbour only, and with none, and the two
  kinds of product that take a port from HTTP.
* *Three services* are one more than there are workers at a time; SMB on two ports
  makes two workers share a key of the facts.

## 4. Fairness

Modules whose properties include liveness are run under `FairSpec`, which adds weak
fairness of exactly these; it takes no behaviour from the safety properties:

| Module | Fair | Because |
|---|---|---|
| Scheduler | `Main`; `Begin(t)`, `Return(t)` of every task | the main thread never sleeps but in `wait`; a pool thread takes the next queued task; every `execute` ends because every command has a timeout |
| Enumeration | `Main`, `Probe(r)` | as above: a probe is one command with a timeout |
| Collector | `Server`, `Close`, `Workers` | the server thread wakes at least every socket timeout; the workers together always have a step to take, for every command ends and `send` returns when the queue has room or the socket is gone |
| TerminalDedup | each step of each call but `Expire` | a thread that holds no lock runs; the command has a timeout. The answer is not owed to the expiry of a wait |
| WorkerHandshake | `Poller`, `Command`, `Tick` | the poller sleeps 50 ms between looks, the command has a timeout, time passes. No terminal is owed to open, no worker to reach its pidfile |
| PtyRun | `Main`, `Lapse`, `Due`, `DieOfSigTerm(p)` | the loop selects with a timeout; the deadline and the half second after SIGTERM pass; a process that was sent SIGTERM and does not ignore it dies. Nothing else obliges a process to end |
| DnsPivot | `Next` | one thread; every query has a timeout |

A user, an operator that presses Ctrl-C, a crash, a failing call, another scan and
another window are never fair: no property relies on them. Two liveness properties
name the ends that the code does not have. `Returns` of WorkerHandshake exempts
`Orphaned`, a killed worker that left its pidfile. `Ends` of PtyRun exempts a process in a
session of its own that keeps the terminal open, and the drain after
KeyboardInterrupt, which a surviving child can keep busy.

## 5. Proofs

The proofs hold for every value of the constants that satisfies the module's
`ASSUME`. Each theorem follows from an inductive invariant, which TLC checked on the
instances above before it was proved. Every safety property of a run and both refinements
are theorems; a proof module may hold the theorems of several components.

**`SchedulerProofs`** (Scheduler, JobGraph): `Typing`, `PoolIsBounded`, `RunEndsIdle`
for any execute; `ReturnIsClean`, `DependenciesOrder`, `BlockedForCause`, `Refinement` under
`Isolated`. The invariant has three parts. `Sets` relates the three sets of the main thread:
pending, futures and what a Ctrl-C kept out of futures are disjoint, the snapshot never runs
ahead of the pending tasks, only the last two occupy pool threads, at most `MaxWorkers` of
them; and by the step of the interrupt how many Ctrl-C there were and who can still be queued or
running, which is what makes `RunEndsIdle` inductive. `Accounts` says of a task what it
has been through by the set it is in (`Waiting`, `InFlight`, `Concluded`): how often it was
started and retried and which states it may show. Without it `CleanReturn` is not inductive:
that a task ended once says nothing of the one that goes back to waiting. `Rested` adds that
the dependencies of a task that was started are over and succeeded. `Isolated` says that
`execute` leaves `Task.state` alone or that no task has dependencies, which is what
`run_services` submits. `DependencyOrder` fails without it (section 6). For
`BlockedIsStuck`, `PassedOver` remembers of a scan that starts nothing why it left each task
waiting: a dependency is pending still, or was skipped after the scan had passed. Where there is
no such late skip, all that is pending waits for something pending, and is the knot itself. The
`Refinement` step maps every action to an action of `JobGraph` or to a stutter. Of the
abstract graph: `JobTypes`, `JobsOrdered`, `KnotsStay` (jobs on a cycle never begin).

**`ResourceTraversalProofs`** (ResourceTraversal, Enumeration): `Typing`, `Limits`, `Tree`,
`NoSecondProbe`, for every namespace. The invariant: `Line` (a queued resource is accepted and
stands in the queue once), `Pooled` (queue, futures and finished ones are apart), `Counted`
(the counters the limits are compared with are the cardinalities of the accepted
resources of each kind), `Offered` (what is being offered is what the resource
lists), `Unprobed` (a resource is enumerated only after it was queued). `NothingMissed` proves
`Complete` from two more parts: `Settled` ties the status of a resource to its probe
and to the queue or the pool it is in, and `Followed` says that a child of a reaped
resource is accepted, excused by a limit, or still to be offered: the limits never come
to admit what they once excluded. `Traverses` shows that Enumeration is such a traversal, so
that all of these hold of the SMB, FTP and LDAP modules; `Records` proves `RecordTrue` of them.
Its invariant `Asked` says which resources have an answer, and that only a resource whose
command went through has children. `Verdicts` proves `VerdictTrue`, with `Judged` relating
work and status to the answer.

**`CommandProofs`** (TerminalDedup, WorkerHandshake, PtyRun). For any number of calls and keys:
`Typing`, `Deduplication`, `Agreement`. `Owners` gives each key at most one call between `Claim`
and `Publish`, `Entries` relates the table to it, `Waits` relates a waiting duplicate to the
entry it waits on. For any processes behind the terminal: `AllIsSaved`, `NobodyLeftBehind`,
`FirstDecides`. `Signalled` is what makes the first two inductive: whoever was in the group at the
verdict is signalled, ignores it or is gone, by the step the loop is at; `Drained` says what an
end of file means, `Judged` which verdict the loop carries, and `Met` relates that verdict to the
reasons the tests have met: one that met the cancellation sets it, one that met the deadline too,
or the leader was gone. Of the handshake: `ResultHolds` and
`OneRunOneVerdict`, the refinement of RemoteRun. `Runs` says who is running by the state of
worker and poller (and that nobody runs the command inline but after the deadline, a failed
launcher or no terminal at all), `Verdicts` whose verdict the metadata holds and what the caller
was told of it, and `Stopping` that CANCELLED is left by who was stopped, and by the worker always
when it was.

**`CollectorProofs`** (Evidence, Collector): for any commands, paths, queue length and number of
pieces, with `FilesSound` and `CollectorSound` the invariants themselves. `Solitary` says
that a command nobody disturbed has its file to itself, and that the file is what it wrote;
`EvidenceStays` adds from `Turn` who the disturber can be. `Handed` says that the
queue and the server's hands hold only outputs of commands that have ended; `Accounted`, that what
was handed over before `close()` began is shown, in hand, or was queued then. `LossIsBounded` follows. `Cursor` relates the server's idea of the line
to the last byte of what it printed; the file is opened a second time for that byte, so
`HeadersFresh` needs `Solitary` too. `Stream` keeps all of it, for the cursor is anywhere then.

**`PlacementProofs`** (WorkspacePlacement): for any number of processes, windows, workspaces and
launches, any limit and list, in every mood. `NoLeak`: `Kept` bounds the reservations of
a process by the windows it placed and, by the step of its launch, the one it is about to use.
`WindowsFit`: `Rechecked` says where the window of a launch is from the recheck on, `Room`
that its workspace holds at most `Limit` windows apart from `opened`, while the
window is still to be moved one fewer, and `Arrivals` that a window not yet launched is nowhere,
so that every arrival is seen. `FocusComesBack`: `Away` says by the step of a launch on
a calm desktop whether the focus is at home or on the workspace it chose. That the minimum of a set of
workspaces exists (`Minimum`) is proved from the well-foundedness of the naturals, since
nothing bounds how far the search goes.

**`HostProofs`** (HostsFile, DependencyInstall): `Typing`, `Backups` for any number of scans in
any overlap, with crashes and failures; `Resolving` and `Keeping` on every original file, of
which nothing is assumed. `Own` says that a scan nobody overtook still has before it the
file it read, and that the backup it made holds it; `UpdateSettles` says what one update makes of
the names of its scan, whatever the lines: each leads to the target alone, or was an `Orphan` and
leads nowhere; `Landed` carries that from the replacement to the report. `DepTyping`,
`Equipped`, `Causes`, with any number of threads that install at the same time: `Met` keeps what a
started service had when it was checked, which no other thread takes away; `Owed` ties a
missing tool to the refusal, failure or missing package behind it.

**`ServiceProofs`** (DnsPivot, HttpDiscovery): `Typing`, `Bound`, `Closure`, for every zone and
limit. `Stages` bounds the queries asked before the loop, `Line` says of every follow-up of
every record taken up that it was asked or is pending, and the lemmas on `Asked` show that
both transports of a query are asked together. `WholeListGiven`, `PathsSaved`,
for any number of workers on the shared list and any words: `Covered` says that a word
missing from the list is one that some worker is still to copy, whoever truncated it, and
`Copied` that this holds from a worker's first copy on; `Reports` says by the stage of a worker
that what it kept is among what it is about to save, and then among what it saved.

**`ScanProofs`** (Scan, Discovery): `Typing` (which includes that no more workers run than the
pool has threads), `NothingForgotten`, `RecordIsHonest`, `ServicesAreServed`, for any host and any
findings. `Fresh` says that no worker has started before the dispatch, `Dispatched` that only
tasks start, so that the set of tasks no longer changes once one has; with these a merge can only
add to what an earlier one left. For `RecordIsHonest`, `Recorded`, `Signalled` and `Quiescent` say by
the step of `main()` what `scan.json` holds, how many Ctrl-C there were, and whether a worker can
still run. `Asked` says
that nmap reports on open ports only. The rest of `ServicesAreServed` is about the operators: a
name belongs to one module (`OneSpeaker`), so the `CHOOSE` of `Module` is decided
(`LdapRows`, `WebRows`); the order of `Sooner` has a least element (`SoonestExists`), so of any
LDAP services exactly one is taken (`OneLdap`). `ScanAssumption` says of a report what the
command of nmap makes true: every port is of TCP and has one row.

*Only model-checked:* the liveness properties (`Termination` of Scheduler and Enumeration,
`EverybodyReturns`, `EveryCallReturns`, `Ends`, and `Returns` of WorkerHandshake and DnsPivot),
which need fairness. *Out of the prover's reach:* liveness, `ENABLED`, and induction over
data, so nothing is said of what a loop over a text or a list computes for every input.

## 6. Where code and documents disagree

Each of these was met while the modules were written, and each module has the
behaviour. The properties state what does hold, and name the exception. The sentence the
code departs from is quoted with its place.

*Scheduler.* "Dependency-aware concurrent scheduler with retry and failure isolation"
(`scr/core/scheduler.py:1`): a scan that skips the middle of an acyclic chain after it
passed its last task has started nothing, and `run()` raises the cycle error. The
second disjunct of `BlockedIsStuck` is exactly that. "Independent service tasks run
concurrently; dependencies define ordering" (`agent/MEMORY.md:8`): when `execute` writes
`SUCCESS` to `Task.state` itself, a dependent task starts before it has returned; this
is why `DependencyOrder` needs `Isolated`. Neither happens with the tasks
`run_services` submits today. A second Ctrl-C while the pool is joined makes `run()` raise with
tasks still running, which `IdleUnlessForced` excepts ("Ctrl-C cancels worker process trees",
`agent/ARCHITECTURE.md:13`).

*Handshake.* "One terminal worker per service task; active native commands are
deduplicated" (`agent/TASK.md:23`): a worker that misses the startup deadline runs its
command a second time, and so does one whose terminal ends with an error when its pidfile is not
there yet, or, having ended, just not there any more (`scr/core/terminal.py:187`; `Start` of
RemoteRun after `GiveUp`). "One failed worker does not stop unrelated
tasks", "Ctrl-C cancels worker process trees" (`agent/ARCHITECTURE.md:13`): a killed
worker leaves its pidfile and the poller waits for ever (`Orphaned`); a terminal still
opening at Ctrl-C starts its command afterwards. A worker that is interrupted outside the `try`
of `CommandRunner.run` leaves no metadata, so its command runs once more at the deadline, and a
command in the pool thread that is cancelled as it ends records SUCCESS, FAILED or TIMEOUT:
`ResultIsTrue` says CANCELLED of none but stopped commands, not of all of them.

*Deduplication.* `scr/tests/core/test_execution.py:182` names a duplicate that "reuses
raw output": one whose wait expires returns QUEUED or RUNNING with half an output.
`DuplicateAgrees` holds for the others.

*PTY.* "process-group timeout/cancellation" (`README.md:21`): a process in a session of
its own keeps `run_pty` waiting after the timeout, and KeyboardInterrupt after the
leader has ended leaves its children alone. `Ends` exempts both; `NobodyForgotten` says
that otherwise the whole group is signalled.

*Collector.* "Completed native output is appended to the main terminal"
(`README.md:29`): `close()` stops the server with outputs still queued.
`OnlyBacklogIsLost` says that nothing else is missing. The live output of an inline command takes
no lock, so that a header may follow in the middle of one of its lines, which
`HeaderOnFreshLine` excepts (`cursor` is "anywhere").

*Placement.* "places each new worker only where the total remains at or below four"
(`README.md:29`): a full configured list is overfilled (`LaunchFits` says nothing of
lists), and two processes reserve the same place, for reservations are in memory; the
recheck of the later one repairs it, unless its window opens after the recheck of the
other, which is what `opened` sets apart. A launch that placed its window keeps its
reservation, so a workspace counts it twice and takes two workers instead of the four that
`scr/tests/core/test_workspace.py:111` expects; `OneReservationEach` says that it is never
more than one for each window placed, and that a launch that failed leaves none.

*Hosts file.* "`/etc/hosts` updates are backed up and atomic" (`README.md:29`): two scans
at the same time lose an update that no backup holds (the second disjunct of `BackedUp`,
and the first one in `NoNameLost`). `scr/tests/core/test_hosts.py:38` is called
"conflicting_duplicate_is_commented_even_if_correct_mapping_exists": with the right line and a
wrong one for a name, `scr/core/hosts.py:66` comments both out and counts the name as
mapped, so that `apply()` answers "updated" and the name leads nowhere; the assertion that the right
line is there (line 45) finds it behind the "# ". `Orphan` is that case, the only one that
`NamesResolve` and `NoNameLost` except of the names of the scan itself. A second target of one
domain costs the first its name.

*Dependencies.* "Missing declared tools are installed when the configured package
manager is available" (`README.md:11`): two pool threads run the package manager and one
is refused; one unknown package fails all others of the run. Both are among the
causes of `SkippedForCause`.

*DNS.* "target/domain SOA/NS/record follow-ups over UDP and TCP" (`agent/SERVICES.md:12`):
what only TCP answered is recorded and never followed; `FollowUpsDone` speaks of `Seen`.

*HTTP.* "Evidence-based hostname/domain context" (`agent/TASK.md:26`): a virtual-host
search that times out turns the whole word list into hostnames with source `ffuf`; two
web servers share `metadata/http-vhosts-active.txt`, and one truncates what the `ffuf`
of the other is about to read. `WholeListTried` names the second. No property speaks of the first: the
code does what one would forbid, and one that holds of the code would only repeat its assignment.
`agent/SERVICES.md:11` describes seed paths, a soft-404 baseline, link recursion and a
fallback to curl; `run()` does none of them, `_enumerate()` has no caller outside the
tests.

*Scan.* `scr/tests/modules/test_dns.py:62` tests a "domain discovered by another
service": manifests are written before the first worker starts, so what one service
found never reaches another within a scan (`Start` takes the names of `manifest`).
`scan.json` stays RUNNING when an exception other than RuntimeError, or a Ctrl-C outside the
`try` block of `main()`, ends the program before the record is written. After a second
Ctrl-C during the join it says CANCELLED, or RUNNING after a third, while workers run.
`RecordHonest` allows exactly these.

*Evidence files.* "Worker output is forwarded as it arrives and saved byte-for-byte"
(`README.md:29`): the keys of the SMB host commands, FTP, DNS, MQTT and Kerberos leave the
port out, so that the workers of SMB on 139 and 445 write to one file, each may parse the
other's shares, and the report may print one of them twice and glue a header to an
unterminated line. `EvidenceKept` names exactly these commands; no key names the transport, so that
it says of the others that only a worker of the same port over another transport, which no
scan has, could do the same. The summaries
(`smb-resources.json`, `http-resources.json`) are replaced as a whole; the last worker of a
service wins.

*SMB.* The status of a file is SUCCESS whatever its download came to
(`scr/modules/smb/module.py:146` sets none, and the traversal fills it in); the record of
access tells. FTP calls every failure INACCESSIBLE. `VerdictTrue` names both.

*Classification.* A web server whose product is Tomcat, Jetty, Jenkins, GitLab, Docker or
WebDAV gets no HTTP worker, for a product comes before the name of the service and has
no module, although it is a web server and "HTTP/HTTPS" is among the
"implemented initial workers" (`agent/SERVICES.md:5`). `unimplemented` services pass
the test for `unknown` and end at the factory, which has no module for them.
`ServicesServed` speaks of rows without a product.

## 7. Not modelled

* *SSH, Kerberos, MQTT*: a few commands in a row whose results are stored; their output
  files are in Evidence, nothing else is.
* *The text of logs*: the regular expressions that find ports, rows, fingerprints, shares,
  entries, paths and records in outputs, and the suggestions. The models take every
  result they can return where a later step depends on it (`Outputs` and `Reports` in
  Scan, `Namespaces` and `Answers` in Enumeration, `Zones` in DnsPivot).
* *The commands that precede an SMB or LDAP walk* (smbmap, the share list, the RootDSE):
  which roots they yield is chosen in `Init`; their output files are in Evidence. So are
  the hostnames that LDAP entries add to the context.
* *The summaries of a service*, which are written once, atomically, by each worker.
* *UDP*: no command the program builds asks for UDP ports, so no instance has one;
  the operators of Discovery treat the transports as the code does.
* *Terminal shell, choice of a terminal program, configuration, colours and layout of
  reports, entry scripts*: no decision of another part depends on them.
* *RDP, Redis, SNMP, WinRM, Docker, `engine/rules.py`, `engine/decisions.py`,
  `core/events.py`*: no code that runs.
* *External:* the package manager, the compositor, DNS servers, `ffuf` and the
  processes behind a PTY are modelled from how the code uses them.

What a model leaves out of a part it has: the text of names, commands and output
(model values, or numbered pieces); clock values (a deadline has passed or not);
the attributes of `/etc/hosts` such as owner and mode; TIMEOUT and CANCELLED of a
worker are one outcome in Scan, and `get_context` is its initial state: a Ctrl-C as it
returns, which leaves RUNNING as well, is left out.

## 8. Plan

Done, in this order, most important first: Scheduler with JobGraph; the execution of a
command (WorkerHandshake, TerminalDedup, PtyRun, Collector); ResourceTraversal;
WorkspacePlacement; HostsFile; DependencyInstall; the modules (DnsPivot,
HttpDiscovery); Scan; the proof modules; Enumeration over ResourceTraversal; Evidence
under Collector; RemoteRun above WorkerHandshake; Discovery under Scan; overlapping scans
in HostsFile and several processes in WorkspacePlacement.

Next, models:

1. **Execution**: TerminalDedup over WorkerHandshake over PtyRun, so that RemoteRun is
   refined by all three together.
2. **Cancellation**: Ctrl-C through Scan, Scheduler, `cancel_workers` and the workers
   of a service worker, which the single handshake cannot show.
3. **Summaries**: the files each worker of a service replaces as a whole.
4. Runs that show the disagreements of section 6 as counterexamples, foremost the
   shared output paths of Evidence and overlapping scans in HostsFile.

Next, proofs: with 1., that RemoteRun is refined by the three together; with 2., that no worker
outlives a cancelled scan but the ones `Orphaned` names. The safety properties of every run and
both refinements are proved (section 5).

## 9. Running it

    tlc -config Sched_graphs.cfg MCScheduler.tla
    tlapm SchedulerProofs.tla

`PROJECT.json` names the module and configuration of every run. All runs together
take about twelve minutes on two cores; the longest are `place_fits` and `coll_close`, at two
minutes each, and `dns_limit`, at a minute and a half.
