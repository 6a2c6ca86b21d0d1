-------------------------- MODULE DependencyInstall ------------------------
(***************************************************************************)
(* DependencyManager.ensure and ensure_service (src/scr/dependencies/       *)
(* manager.py), called by the pool threads that are about to start a        *)
(* service (execute() in src/scr/core/orchestrator.py).  The threads share  *)
(* the machine: the installed tools, and the lock of the package manager,   *)
(* which gives up at once when another run holds it and installs all the    *)
(* packages it was asked for or none.  shutil.which() is never cached.      *)
(* Definitions named Fault... are plausible bugs that no action uses.       *)
(***************************************************************************)
EXTENDS FiniteSets, Integers

CONSTANTS Service, Tool,
          Required, Optional,   \* REQUIRED_ and OPTIONAL_EXECUTABLES of a service
          Primary, Spare,       \* FALLBACKS: tools with alternatives, and those
          Registered,           \* tools of EXECUTABLE_PACKAGES
          InRepository,         \* tools whose package the repositories have
          Release,              \* tools with a release to download (RustScan)
          Installs,             \* install_missing_dependencies
          Workers,              \* max_workers
          Failures              \* downloads and installations may fail

Free == "free"

ASSUME DependencyAssumption ==
  /\ Free \notin Service
  /\ {Required, Optional, Primary, Spare} \subseteq [Service -> SUBSET Tool]
  /\ {Registered, InRepository, Release} \subseteq SUBSET Tool
  /\ \A s \in Service : \A t, u \in Primary[s] : t = u
  /\ {Installs, Failures} \subseteq BOOLEAN /\ Workers \in Nat \ {0}

VARIABLES available,   \* the tools on the PATH
          lock,        \* the service whose thread runs the package manager
          at,          \* the step of a thread inside ensure(), or around it
          call,        \* which ensure() of ensure_service() or execute() it is in
          wanting,     \* missing, as the thread last read it
          lacking,     \* missing of the DependencyResult of ensure_service()
          hindered     \* the package manager refused, or failed, a run of this service

depVars == <<available, lock, at, call, wanting, lacking, hindered>>

Steps == {"waiting", "check", "release", "install", "installing", "verify", "ran", "skipped"}

DepTypeOK ==
  /\ available \subseteq Tool /\ lock \in Service \cup {Free} /\ at \in [Service -> Steps]
  /\ call \in [Service -> {"required", "primary", "optional"}]
  /\ {wanting, lacking} \subseteq [Service -> SUBSET Tool]
  /\ hindered \in [Service -> BOOLEAN]
  /\ \A s \in Service : lock = s <=> at[s] = "installing"

DepInit ==
  /\ available \in SUBSET Tool /\ lock = Free
  /\ at = [s \in Service |-> "waiting"] /\ call = [s \in Service |-> "required"]
  /\ wanting = [s \in Service |-> {}] /\ lacking = wanting
  /\ hindered = [s \in Service |-> FALSE]

-----------------------------------------------------------------------------
Busy == {s \in Service : at[s] \notin {"waiting", "ran", "skipped"}}
To(s, step) == at' = [at EXCEPT ![s] = step]

Asked(s) == CASE call[s] = "required" -> Required[s]
              [] call[s] = "primary" -> Primary[s]
              [] call[s] = "optional" -> Optional[s]
Missing(s) == Asked(s) \ available

(* The packages of one run of the package manager.                          *)
Packages(s) == wanting[s] \cap Registered

Spared(s) == Spare[s] \cap available # {}

(* ensure() returns: what is lacking after it decides what execute() does.  *)
Returned(s, missing) ==
  LET short == CASE call[s] = "required" -> missing
                 [] call[s] = "primary" -> lacking[s] \cup (IF Spared(s) THEN {} ELSE missing)
                 [] call[s] = "optional" -> {}
      decided == IF short = {} THEN "ran" ELSE "skipped"
  IN /\ lacking' = [lacking EXCEPT ![s] = short]
     /\ \/ /\ call[s] = "required" /\ Primary[s] # {} /\ To(s, "check")
           /\ call' = [call EXCEPT ![s] = "primary"]
        \/ /\ call[s] # "optional" /\ ~(call[s] = "required" /\ Primary[s] # {})
           /\ short = {} /\ Optional[s] # {}
           /\ To(s, "check") /\ call' = [call EXCEPT ![s] = "optional"]
        \/ /\ ~(call[s] = "required" /\ Primary[s] # {})
           /\ call[s] = "optional" \/ short # {} \/ Optional[s] = {}
           /\ To(s, decided) /\ UNCHANGED call

Begin(s) ==
  /\ at[s] = "waiting" /\ Cardinality(Busy) < Workers /\ To(s, "check")
  /\ UNCHANGED <<available, lock, call, wanting, lacking, hindered>>

Check(s) ==
  /\ at[s] = "check" /\ wanting' = [wanting EXCEPT ![s] = Missing(s)]
  /\ \/ (Missing(s) = {} \/ ~Installs) /\ Returned(s, Missing(s))
     \/ /\ Installs /\ Missing(s) # {}
        /\ To(s, IF Missing(s) \cap Release # {} THEN "release" ELSE "install")
        /\ UNCHANGED <<call, lacking>>
  /\ UNCHANGED <<available, lock, hindered>>

(* _install_rustscan_release(), and what is missing after it.  Discovery is *)
(* its only caller and runs alone: no other run of a package manager is met. *)
TryRelease(s) ==
  /\ at[s] = "release" /\ To(s, "install")
  /\ \E got \in {wanting[s] \cap Release, {}} :
       /\ got = {} => Failures
       /\ available' = available \cup got
       /\ wanting' = [wanting EXCEPT ![s] = Asked(s) \ (available \cup got)]
       /\ hindered' = [hindered EXCEPT ![s] = @ \/ got = {}]
  /\ UNCHANGED <<lock, call, lacking>>

RunManager(s) ==
  /\ at[s] = "install"
  /\ \/ Packages(s) = {} /\ To(s, "verify") /\ UNCHANGED <<lock, hindered>>
     \/ /\ Packages(s) # {} /\ lock = Free
        /\ lock' = s /\ To(s, "installing") /\ UNCHANGED hindered
     \/ /\ Packages(s) # {} /\ lock # Free /\ To(s, "verify")
        /\ hindered' = [hindered EXCEPT ![s] = TRUE] /\ UNCHANGED lock
  /\ UNCHANGED <<available, call, wanting, lacking>>

Installed(s) ==
  /\ at[s] = "installing" /\ lock' = Free /\ To(s, "verify")
  /\ \/ /\ Packages(s) \subseteq InRepository
        /\ available' = available \cup Packages(s) /\ UNCHANGED hindered
     \/ /\ Failures \/ ~(Packages(s) \subseteq InRepository)
        /\ hindered' = [hindered EXCEPT ![s] = TRUE] /\ UNCHANGED available
  /\ UNCHANGED <<call, wanting, lacking>>

FaultVerify(s) ==
  /\ at[s] = "verify" /\ Returned(s, wanting[s])
  /\ UNCHANGED <<available, lock, wanting, hindered>>

FaultVerifyTrusting(s) ==
  /\ at[s] = "verify" /\ Returned(s, wanting[s] \ Registered)
  /\ UNCHANGED <<available, lock, wanting, hindered>>

Verify(s) ==
  /\ at[s] = "verify" /\ Returned(s, Missing(s))
  /\ UNCHANGED <<available, lock, wanting, hindered>>

DepNext == \E s \in Service : Begin(s) \/ Check(s) \/ TryRelease(s) \/ RunManager(s)
                           \/ Installed(s) \/ Verify(s)

DepSpec == DepInit /\ [][DepNext]_depVars

-----------------------------------------------------------------------------
(* A service is started with every tool it requires, and with one tool for  *)
(* each use that has alternatives (execute() after ensure_service()).       *)
StartsEquipped ==
  \A s \in Service :
    at[s] = "ran" => Required[s] \subseteq available
                     /\ (Primary[s] \subseteq available \/ Spared(s))

(* With installation enabled a service is skipped only for a tool that has  *)
(* no package, or after a run of the package manager that was refused or    *)
(* failed.                                                                  *)
SkippedForCause ==
  \A s \in Service :
    at[s] = "skipped" /\ Installs => hindered[s] \/ ~(lacking[s] \subseteq Registered)

=============================================================================
