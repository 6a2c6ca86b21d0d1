------------------------------ MODULE RemoteRun ------------------------------
(***************************************************************************)
(* What running a command in a terminal of its own promises, with no files, *)
(* signals, polling or process states: one of two runners runs the command, *)
(* the other only when the first is given up for lost; whoever ends leaves  *)
(* a verdict, which the caller is told; Cancelled is left by none but a     *)
(* runner that was stopped; and the verdict is replaced only if both ran.   *)
(* WorkerHandshake.tla is shown to implement this module.                   *)
(***************************************************************************)
CONSTANTS Runner, Verdict, Cancelled, None

VARIABLES begun,    \* the runners that have started the command
          stopped,  \* those among them that were told to stop
          lost,     \* the first runner had its time, or its terminal failed
          record,   \* the verdict left behind
          told,     \* the verdict the caller got
          raised    \* the caller was interrupted, or met an error

rvars == <<begun, stopped, lost, record, told, raised>>

RunInit == begun = {} /\ stopped = {} /\ lost = FALSE /\ record = None /\ told = None /\ raised = FALSE

Start(r) == /\ r \notin begun /\ (begun = {} \/ lost)
            /\ begun' = begun \cup {r} /\ stopped' \in {stopped, stopped \cup {r}}
            /\ UNCHANGED <<lost, record, told, raised>>

Free == told = None /\ ~raised

(* Any runners are told to stop; the caller may raise with them.            *)
Stop == /\ stopped' \in SUBSET begun /\ stopped \subseteq stopped'
        /\ raised' \in IF Free THEN BOOLEAN ELSE {raised}
        /\ UNCHANGED <<begun, lost, record, told>>

Mine(r) == r \in begun /\ (record = None \/ begun = Runner)

Leaves(r, v) == /\ Mine(r) /\ v \in Verdict /\ (v = Cancelled => r \in stopped)
                /\ record' = v

Finish(r) == (\E v \in Verdict : Leaves(r, v)) /\ UNCHANGED <<begun, stopped, lost, told, raised>>

GiveUp == lost' = TRUE /\ UNCHANGED <<begun, stopped, record, told, raised>>

Answer == /\ Free /\ record # None /\ told' = record
          /\ UNCHANGED <<begun, stopped, lost, record, raised>>

(* The caller runs the command itself, and is the first to know.            *)
FinishAndAnswer(r) == /\ Free /\ \E v \in Verdict : Leaves(r, v) /\ told' = v
                      /\ UNCHANGED <<begun, stopped, lost, raised>>

(* Or is interrupted in it.                                                 *)
FinishAndRaise(r) == /\ Free /\ Mine(r) /\ record' \in Verdict /\ raised' = TRUE
                     /\ stopped' \in SUBSET begun /\ stopped \cup {r} \subseteq stopped'
                     /\ UNCHANGED <<begun, lost, told>>

RunNext == \/ \E r \in Runner : Start(r) \/ Finish(r) \/ FinishAndAnswer(r) \/ FinishAndRaise(r)
           \/ Stop \/ GiveUp \/ Answer

RunSpec == RunInit /\ [][RunNext]_rvars
=============================================================================
