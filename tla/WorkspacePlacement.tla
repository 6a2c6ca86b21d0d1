------------------------- MODULE WorkspacePlacement ------------------------
(***************************************************************************)
(* Where a worker's terminal window goes: TerminalManager.launch            *)
(* (src/scr/core/terminal.py) over WorkspaceManager (src/scr/core/          *)
(* workspace.py).  The class locks serialise the launches of one process;   *)
(* the main process and every service worker are processes of their own,    *)
(* each with its own reservations: two of them may reserve the same place.  *)
(* Every question put to the compositor is a step of its own: the user and  *)
(* the other processes act between two.                                     *)
(* A launch with the manager disabled asks nothing: it is the one whose     *)
(* every question fails.                                                    *)
(* Definitions named Fault... are plausible bugs that no action uses.       *)
(***************************************************************************)
EXTENDS Naturals, FiniteSets, FiniteSetsExt, SequencesExt

CONSTANTS Process,    \* processes that launch workers
          Launches,   \* bound on the launches of a process
          Settings,   \* how many launches each process makes, with the mood of the desktop
          App,        \* windows of other applications
          Spaces,     \* bound on the workspaces: 1..Spaces
          Limit,      \* workspace_window_limit
          Lists       \* what terminal_workspaces may be, <<>> when not configured

(* "calm": no question fails, and the user and the other processes rest     *)
(* during a launch; "busy": the processes do not rest; "rough": the user    *)
(* does not rest either, and any question may fail.                         *)
Mood == {"calm", "busy", "rough"}

ASSUME PlacementAssumption ==
  /\ {Spaces, Limit} \subseteq Nat \ {0} /\ Launches \in Nat /\ Lists \subseteq Seq(1..Spaces)
  /\ Settings \subseteq [launches : [Process -> 0..Launches], mood : Mood]
  /\ IsFiniteSet(Process) /\ IsFiniteSet(App) /\ App \cap (Process \X (1..Launches)) = {}

Space == 1..Spaces
None == 0
Window == App \cup (Process \X (1..Launches))

VARIABLES at,        \* the workspace a window is shown on, None when it is not
          opening,   \* windows of workers whose terminal has been started
          focus,     \* the active workspace
          home,      \* when calm, the user's workspace: chosen last, or active when a launch began
          held,      \* _global_reservations, one table per process
          pc, round, \* the step of launch() and how many launches there were
          orig, ws,  \* original and workspace of launch()
          again,     \* reserve() is called a second time
          target,    \* repair_overflow: where the window was, then where it goes
          preferred, \* terminal_workspaces
          setting,   \* the launches of each process, and what may disturb one
          checked,   \* the recheck found room, or made some
          opened,    \* windows that opened, or another process placed, since the recheck
          placed     \* how many launches placed their window

world == <<at, opening, focus, home, preferred, setting, placed>>
mine == <<orig, ws, again, target, checked>>
vars == <<at, opening, focus, home, preferred, setting, placed, held, pc, round, orig, ws, again, target, checked, opened>>

Win(p) == <<p, round[p]>>
calm == setting.mood = "calm"
rough == setting.mood = "rough"

Init ==
  /\ focus \in 1..2 /\ home = focus /\ opening = {}
  /\ preferred \in Lists /\ setting \in Settings
  /\ at \in {[x \in Window |-> IF x \in App THEN a[x] ELSE None] : a \in [App -> 0..2]}
  /\ held = [p \in Process |-> [w \in Space |-> 0]]
  /\ pc = [p \in Process |-> "idle"] /\ round = [p \in Process |-> 0]
  /\ orig = [p \in Process |-> None] /\ ws = orig /\ target = orig
  /\ again = [p \in Process |-> FALSE] /\ checked = again
  /\ opened = [p \in Process |-> {}] /\ placed = [p \in Process |-> 0]

-----------------------------------------------------------------------------
(* WorkspaceManager's arithmetic.                                           *)

Windows(w) == Cardinality({x \in Window : at[x] = w})
Load(p, w) == Windows(w) + held[p][w]

Rank(w) == CHOOSE i \in DOMAIN preferred : preferred[i] = w

(* min(..., key): the least weight, the earlier of the preferred on a tie.  *)
Least(S, Weight(_)) ==
  CHOOSE w \in S : \A v \in S :
    \/ Weight(w) < Weight(v)
    \/ Weight(w) = Weight(v) /\ Rank(w) <= Rank(v)

Free(p, w0) == {w \in Space : w >= w0 /\ Load(p, w) < Limit}
FirstFree(p, w0) == Min(Free(p, w0))

(* The search, which the code does not bound, ends before Spaces.           *)
Bounded(p, w0) == preferred = <<>> => Free(p, w0) # {}

Reservable(p, active) ==
  IF preferred = <<>> THEN FirstFree(p, active)
  ELSE LET available == {w \in ToSet(preferred) : Load(p, w) < Limit} IN
       Least(IF available # {} THEN available ELSE ToSet(preferred), LAMBDA w : Load(p, w))

OverflowTarget(p, w) ==
  IF preferred = <<>> THEN FirstFree(p, w + 1)
  ELSE Least(ToSet(preferred), Windows)

Reserved(p, w) == [held EXCEPT ![p][w] = @ + 1]
Released(p, w) == IF w = None \/ held[p][w] = 0 THEN held ELSE [held EXCEPT ![p][w] = @ - 1]

-----------------------------------------------------------------------------
(* TerminalManager.launch, one step for every call that leaves the process. *)

At(p, step) == pc[p] = step
To(p, step) == pc' = [pc EXCEPT ![p] = step]
Asked == {TRUE} \cup IF rough THEN {FALSE} ELSE {}

Resting == \A p \in Process : At(p, "idle")

Original(p) ==
  /\ At(p, "idle") /\ round[p] < setting.launches[p] /\ (~calm \/ Resting)
  /\ \E ok \in Asked : orig' = [orig EXCEPT ![p] = IF ok THEN focus ELSE None]
  /\ round' = [round EXCEPT ![p] = @ + 1] /\ To(p, "active")
  /\ again' = [again EXCEPT ![p] = FALSE] /\ checked' = [checked EXCEPT ![p] = FALSE]
  /\ ws' = [ws EXCEPT ![p] = None] /\ target' = [target EXCEPT ![p] = None]
  /\ home' = IF calm THEN focus ELSE home
  /\ UNCHANGED <<at, opening, focus, preferred, setting, placed, held, opened>>

(* reserve() asks for the active workspace, then for the windows.           *)
ReserveActive(p) ==
  /\ At(p, "active")
  /\ \E ok \in Asked : /\ ws' = [ws EXCEPT ![p] = IF ok THEN focus ELSE None]
                       /\ To(p, IF ok THEN "count" ELSE "switch")
  /\ UNCHANGED <<world, held, round, orig, again, target, checked, opened>>

ReserveCount(p) ==
  /\ At(p, "count")
  /\ \/ LET w == Reservable(p, ws[p]) IN
        /\ Bounded(p, ws[p]) /\ ws' = [ws EXCEPT ![p] = w] /\ held' = Reserved(p, w)
        /\ To(p, IF preferred = <<>> THEN "room" ELSE "switch")
     \/ rough /\ ws' = [ws EXCEPT ![p] = None] /\ To(p, "switch") /\ UNCHANGED held
  /\ UNCHANGED <<world, round, orig, again, target, checked, opened>>

(* has_capacity(): one more reserve() when it says no, and none after that. *)
HasCapacity(p) ==
  /\ At(p, "room")
  /\ \/ Windows(ws[p]) < Limit /\ To(p, "switch") /\ UNCHANGED <<held, ws, again>>
     \/ /\ rough \/ Windows(ws[p]) >= Limit
        /\ held' = Released(p, ws[p]) /\ ws' = [ws EXCEPT ![p] = None]
        /\ again' = [again EXCEPT ![p] = TRUE]
        /\ To(p, IF again[p] THEN "switch" ELSE "active")
  /\ UNCHANGED <<world, round, orig, target, checked, opened>>

SwitchTo(p) ==
  /\ At(p, "switch") /\ To(p, "spawn")
  /\ \/ ws[p] \in {None, orig[p]} /\ UNCHANGED <<focus, held, ws>>
     \/ ws[p] \notin {None, orig[p]} /\ focus' = ws[p] /\ UNCHANGED <<held, ws>>
     \/ /\ rough /\ ws[p] \notin {None, orig[p]}
        /\ held' = Released(p, ws[p]) /\ ws' = [ws EXCEPT ![p] = None] /\ UNCHANGED focus
  /\ UNCHANGED <<at, opening, home, preferred, setting, placed, round, orig, again, target, checked, opened>>

(* No terminal emulator, or Popen raised: the caller runs the command itself. *)
FaultNoTerminal(p) ==
  /\ At(p, "spawn") /\ held' = Released(p, ws[p]) /\ To(p, "idle")
  /\ UNCHANGED <<world, round, mine, opened>>

NoTerminal(p) ==
  /\ At(p, "spawn") /\ held' = Released(p, ws[p]) /\ To(p, "back")
  /\ UNCHANGED <<world, round, mine, opened>>

Spawn(p) ==
  /\ At(p, "spawn") /\ opening' = opening \cup {Win(p)} /\ To(p, "show")
  /\ UNCHANGED <<at, focus, home, preferred, setting, placed, held, round, mine, opened>>

(* place(): Hyprland's movetoworkspace takes the focus along, Sway's move   *)
(* does not.                                                                *)
Seen(x, by) == opened' = [p \in Process |-> IF p \in by THEN opened[p] \cup {x} ELSE opened[p]]
Place(p, w) == /\ at' = [at EXCEPT ![Win(p)] = w] /\ focus' \in {focus, w}
               /\ Seen(Win(p), Process \ {p})

(* place_when_visible() found the window: a move that worked is rechecked,  *)
(* and keeps its reservation.                                               *)
PlaceVisible(p) ==
  /\ At(p, "show") /\ ws[p] # None /\ at[Win(p)] # None
  /\ \/ /\ Place(p, ws[p]) /\ placed' = [placed EXCEPT ![p] = @ + 1]
        /\ To(p, "clients") /\ UNCHANGED held
     \/ rough /\ held' = Released(p, ws[p]) /\ To(p, "back") /\ UNCHANGED <<at, focus, opened, placed>>
  /\ UNCHANGED <<opening, home, preferred, setting, round, mine>>

NeverVisible(p) ==
  /\ At(p, "show") /\ \/ ws[p] = None
                      \/ Win(p) \notin opening /\ at[Win(p)] = None  \* closed again
                      \/ rough /\ at[Win(p)] = None
  /\ held' = Released(p, ws[p]) /\ To(p, "back")
  /\ UNCHANGED <<world, round, mine, opened>>

(* repair_overflow(): the window's workspace, then the counts, then a move. *)
RepairClients(p) ==
  /\ At(p, "clients")
  /\ \E ok \in Asked :
       LET found == ok /\ at[Win(p)] # None IN
       /\ target' = [target EXCEPT ![p] = IF found THEN at[Win(p)] ELSE None]
       /\ To(p, IF found THEN "recheck" ELSE "back")
  /\ UNCHANGED <<world, held, round, orig, ws, again, checked, opened>>

FaultRepairCount(p) ==
  /\ At(p, "recheck") /\ To(p, "back") /\ checked' = [checked EXCEPT ![p] = TRUE]
  /\ opened' = [opened EXCEPT ![p] = {}]
  /\ UNCHANGED <<world, held, round, orig, ws, again, target>>

RepairCount(p) ==
  /\ At(p, "recheck")
  /\ \/ /\ Windows(target[p]) <= Limit /\ To(p, "back")
        /\ checked' = [checked EXCEPT ![p] = TRUE] /\ opened' = [opened EXCEPT ![p] = {}]
        /\ UNCHANGED <<held, target>>
     \/ /\ Windows(target[p]) > Limit /\ Bounded(p, target[p] + 1) /\ To(p, "move")
        /\ LET w == OverflowTarget(p, target[p]) IN
             target' = [target EXCEPT ![p] = w] /\ held' = Reserved(p, w)
        /\ opened' = [opened EXCEPT ![p] = {}] /\ UNCHANGED checked
     \/ rough /\ To(p, "back") /\ UNCHANGED <<held, target, checked, opened>>
  /\ UNCHANGED <<world, round, orig, ws, again>>

FaultRepairMove(p) ==
  /\ At(p, "move") /\ To(p, "back") /\ UNCHANGED held
  /\ Place(p, target[p]) /\ checked' = [checked EXCEPT ![p] = TRUE]
  /\ UNCHANGED <<opening, home, preferred, setting, placed, round, orig, ws, again, target>>

RepairMove(p) ==
  /\ At(p, "move") /\ held' = Released(p, target[p]) /\ To(p, "back")
  /\ \E moved \in {at[Win(p)] # None} \cup (IF rough THEN {FALSE} ELSE {}) :
       /\ IF moved THEN Place(p, target[p]) ELSE UNCHANGED <<at, focus, opened>>
       /\ checked' = [checked EXCEPT ![p] = moved]
  /\ UNCHANGED <<opening, home, preferred, setting, placed, round, orig, ws, again, target>>

SwitchBack(p) ==
  /\ At(p, "back") /\ To(p, "idle") /\ orig' = [orig EXCEPT ![p] = None]
  /\ \/ orig[p] \notin {None, ws[p]} /\ focus' = orig[p]
     \/ (rough \/ orig[p] \in {None, ws[p]}) /\ UNCHANGED focus
  /\ UNCHANGED <<at, opening, home, preferred, setting, placed, held, round, ws, again, target, checked, opened>>

-----------------------------------------------------------------------------
(* The desktop and its user.  A window opens on the active workspace.       *)

(* Its launch has stopped waiting for the window x.                          *)
GivenUp(x) == Win(x[1]) # x \/ ~At(x[1], "show")

Appear(x) ==
  /\ x \in opening /\ opening' = opening \ {x} /\ at' = [at EXCEPT ![x] = focus]
  /\ Seen(x, IF GivenUp(x) THEN Process ELSE Process \ {x[1]})
  /\ UNCHANGED <<focus, home, preferred, setting, placed, held, pc, round, mine>>

OpenApp(x) ==
  /\ x \in App /\ at[x] = None /\ at' = [at EXCEPT ![x] = focus]
  /\ Seen(x, Process)
  /\ UNCHANGED <<opening, focus, home, preferred, setting, placed, held, pc, round, mine>>

CloseWindow(x) ==
  /\ at[x] # None /\ at' = [at EXCEPT ![x] = None]
  /\ UNCHANGED <<opening, focus, home, preferred, setting, placed, held, pc, round, mine, opened>>

UserSwitch(w) ==
  /\ rough \/ Resting
  /\ focus' = w /\ home' = IF calm THEN w ELSE home
  /\ UNCHANGED <<at, opening, preferred, setting, placed, held, pc, round, mine, opened>>

Next ==
  \/ \E p \in Process :
       \/ Original(p) \/ ReserveActive(p) \/ ReserveCount(p) \/ HasCapacity(p) \/ SwitchTo(p)
       \/ NoTerminal(p) \/ Spawn(p) \/ PlaceVisible(p) \/ NeverVisible(p)
       \/ RepairClients(p) \/ RepairCount(p) \/ RepairMove(p) \/ SwitchBack(p)
  \/ \E x \in Window : Appear(x) \/ OpenApp(x) \/ CloseWindow(x)
  \/ \E w \in 1..2 : UserSwitch(w)

Spec == Init /\ [][Next]_vars

-----------------------------------------------------------------------------
(* Without a list, a worker's window never overfills a workspace (a list    *)
(* whose workspaces are all full is overfilled): once no launch is under    *)
(* way, the workspace of a window whose recheck went through holds no more  *)
(* than Limit windows, but for those that came there after the recheck      *)
(* counted: the user's, one whose launch had stopped waiting for it, and    *)
(* those of another process, which counts nobody's reservations but its own.*)
LaunchFits ==
  preferred = <<>> /\ Resting =>
    \A p \in Process :
      checked[p] /\ at[Win(p)] # None =>
        Cardinality({x \in Window \ opened[p] : at[x] = at[Win(p)]}) <= Limit

(* The reservations that a process holds, on any workspace.                 *)
Reservations(p) == UNION {{w} \X (1..held[p][w]) : w \in Space}

(* A process holds a reservation for each window it placed, and for the     *)
(* launch under way the one of the workspace chosen or, in the recheck, of  *)
(* the workspace that the window goes on to.  A launch that failed leaves   *)
(* none, so no workspace fills up with windows that never came.             *)
OneReservationEach ==
  \A p \in Process :
    Cardinality(Reservations(p)) <= placed[p] +
      IF pc[p] = "move" \/ (pc[p] \in {"room", "switch", "spawn", "show"} /\ ws[p] # None) THEN 1 ELSE 0

(* The user gets the workspace back: when no question failed, the workspace *)
(* that was active when launch() began, or that the user chose since, is    *)
(* active after it returned, whichever way, unless repair_overflow() moved  *)
(* the window on: then the focus may have gone with it.                     *)
FocusReturns ==
  calm /\ Resting /\ (\A p \in Process : target[p] \in {None, ws[p]}) => focus = home

=============================================================================
