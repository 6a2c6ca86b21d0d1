--------------------------- MODULE PlacementProofs --------------------------
(***************************************************************************)
(* What the launches of workers' windows promise, for any processes,        *)
(* windows, workspaces, lists and limits.  The launches of one process      *)
(* follow one another, so each invariant says what holds at every step of   *)
(* launch(), whatever the user and the other processes did in between.      *)
(***************************************************************************)
EXTENDS WorkspacePlacement, FiniteSetTheorems, WellFoundedInduction, TLAPS

Step == {"idle", "active", "count", "room", "switch", "spawn", "show", "clients", "recheck", "move", "back"}

DesktopTypes ==
  /\ at \in [Window -> Nat] /\ focus \in Nat \ {0} /\ home \in Nat \ {0}
  /\ opening \subseteq Process \X (1..Launches)
  /\ preferred \in Lists /\ setting \in Settings

Tables ==
  /\ held \in [Process -> [Space -> Nat]]
  /\ pc \in [Process -> Step] /\ round \in [Process -> Nat] /\ placed \in [Process -> Nat]
  /\ orig \in [Process -> Nat] /\ ws \in [Process -> Nat] /\ target \in [Process -> Nat]
  /\ checked \in [Process -> BOOLEAN] /\ opened \in [Process -> SUBSET Window]

Started(p) ==
  /\ round[p] <= Launches /\ (pc[p] # "idle" => round[p] >= 1)
  /\ pc[p] = "count" \/ ws[p] = None \/ ws[p] \in Space
  /\ pc[p] = "move" => target[p] \in Space

LaunchTypes == Tables /\ \A p \in Process : Started(p)

Types == DesktopTypes /\ LaunchTypes

-----------------------------------------------------------------------------
(* The arithmetic of WorkspaceManager.                                      *)

LEMMA Minimum == ASSUME NEW T, T \subseteq Nat, T # {} PROVE \E x \in T : \A y \in T : x <= y
<1> DEFINE R == {ss \in Nat \X Nat : ss[1] < ss[2]}
<1>1. IsWellFoundedOn(R, Nat)
  BY NatLessThanWellFounded DEF OpToRel
<1>2. \A x, y \in Nat : y < x => <<y, x>> \in R
  OBVIOUS
<1> HIDE DEF R
<1>3. PICK x \in T : \A y \in T : ~ (<<y, x>> \in R)
  BY <1>1, WFMin
<1>4. ASSUME NEW y \in T PROVE x <= y
  <2>1. x \in Nat /\ y \in Nat /\ ~ (<<y, x>> \in R)
    BY <1>3
  <2>2. ~ (y < x)
    BY <1>2, <2>1
  <2>3. QED
    BY <2>1, <2>2
<1>5. QED
  BY <1>4

LEMMA FiniteWindows == IsFiniteSet(Window)
<1>1. IsFiniteSet(1..Launches)
  BY PlacementAssumption, FS_Interval
<1>2. IsFiniteSet(Process \X (1..Launches))
  BY <1>1, PlacementAssumption, FS_Product
<1>3. QED
  BY <1>2, PlacementAssumption, FS_Union DEF Window

LEMMA Counts ==
  ASSUME NEW S, S \subseteq Window
  PROVE  IsFiniteSet(S) /\ Cardinality(S) \in Nat
BY FiniteWindows, FS_Subset, FS_CardinalityType

LEMMA Fewer ==
  ASSUME NEW S, S \subseteq Window, NEW T, T \subseteq S
  PROVE  Cardinality(T) <= Cardinality(S)
BY Counts, FS_Subset

LEMMA Loads ==
  ASSUME Types, NEW p \in Process, NEW w \in Space
  PROVE  Windows(w) \in Nat /\ Load(p, w) \in Nat /\ Windows(w) <= Load(p, w)
<1>1. Windows(w) \in Nat
  BY Counts DEF Windows
<1>2. held[p][w] \in Nat
  BY DEF Types, LaunchTypes, Tables, Started
<1>3. QED
  BY <1>1, <1>2 DEF Load

(* min() of a list finds the first of the least weight.                     *)
LEMMA LeastExists ==
  ASSUME Types, NEW f \in [Space -> Nat], NEW S, S \subseteq ToSet(preferred), S # {}
  PROVE  \E w \in S : \A v \in S : f[w] < f[v] \/ (f[w] = f[v] /\ Rank(w) <= Rank(v))
<1>1. preferred \in Seq(Space)
  BY PlacementAssumption DEF Types, DesktopTypes, Space
<1>2. S \subseteq Space /\ \A w \in S : Rank(w) \in Nat
  <2>1. DOMAIN preferred \subseteq Nat /\ \A i \in DOMAIN preferred : preferred[i] \in Space
    BY <1>1
  <2>2. \A w \in S : \E i \in DOMAIN preferred : preferred[i] = w
    BY DEF ToSet
  <2>3. QED
    BY <2>1, <2>2 DEF Rank
<1>3. PICK a \in S : \A v \in S : f[a] <= f[v]
  <2> DEFINE T == {f[v] : v \in S}
  <2>1. T \subseteq Nat /\ T # {}
    BY <1>2
  <2>2. PICK m \in T : \A y \in T : m <= y
    BY <2>1, Minimum
  <2>3. QED
    BY <2>2
<1> DEFINE B == {w \in S : f[w] = f[a]}
<1>4. PICK w \in B : \A v \in B : Rank(w) <= Rank(v)
  <2> DEFINE T == {Rank(v) : v \in B}
  <2>1. T \subseteq Nat /\ T # {}
    BY <1>2
  <2>2. PICK m \in T : \A y \in T : m <= y
    BY <2>1, Minimum
  <2>3. QED
    BY <2>2
<1>5. ASSUME NEW v \in S PROVE f[w] < f[v] \/ (f[w] = f[v] /\ Rank(w) <= Rank(v))
  <2>1. f[w] = f[a] /\ f[a] <= f[v] /\ f[a] \in Nat /\ f[v] \in Nat
    BY <1>2, <1>3, <1>4
  <2>2. QED
    BY <1>4, <2>1
<1>6. QED
  BY <1>4, <1>5

LEMMA FirstFreeFits ==
  ASSUME Types, NEW p \in Process, NEW w0 \in Nat, Free(p, w0) # {}
  PROVE  FirstFree(p, w0) \in Space /\ FirstFree(p, w0) >= w0 /\ Load(p, FirstFree(p, w0)) < Limit
<1>1. Free(p, w0) \subseteq Nat
  BY DEF Free, Space
<1>2. PICK m \in Free(p, w0) : \A y \in Free(p, w0) : m <= y
  BY <1>1, Minimum
<1>3. FirstFree(p, w0) \in Free(p, w0)
  BY <1>2 DEF FirstFree, Min
<1>4. QED
  BY <1>3 DEF Free

LEMMA ReservableType ==
  ASSUME Types, NEW p \in Process, NEW w0 \in Nat, Bounded(p, w0)
  PROVE  Reservable(p, w0) \in Space
<1>1. CASE preferred = <<>>
  BY <1>1, FirstFreeFits DEF Bounded, Reservable
<1>2. CASE preferred # <<>>
  <2> DEFINE f == [w \in Space |-> Load(p, w)]
             available == {w \in ToSet(preferred) : Load(p, w) < Limit}
             S == IF available # {} THEN available ELSE ToSet(preferred)
  <2>1. preferred \in Seq(Space)
    BY PlacementAssumption DEF Types, DesktopTypes, Space
  <2>2. S # {} /\ S \subseteq ToSet(preferred) /\ ToSet(preferred) \subseteq Space
    BY <1>2, <2>1 DEF ToSet
  <2>3. f \in [Space -> Nat] /\ \A w \in S : f[w] = Load(p, w)
    BY <2>2, Loads
  <2>4. \E w \in S : \A v \in S : f[w] < f[v] \/ (f[w] = f[v] /\ Rank(w) <= Rank(v))
    <3> HIDE DEF f, S
    <3>1. QED
      BY <2>2, <2>3, LeastExists
  <2>5. \E w \in S : \A v \in S : \/ Load(p, w) < Load(p, v)
                                  \/ Load(p, w) = Load(p, v) /\ Rank(w) <= Rank(v)
    <3> HIDE DEF f, S
    <3>1. QED
      BY <2>3, <2>4
  <2>6. Reservable(p, w0) = CHOOSE w \in S : \A v \in S : \/ Load(p, w) < Load(p, v)
                                                          \/ Load(p, w) = Load(p, v) /\ Rank(w) <= Rank(v)
    BY <1>2 DEF Reservable, Least
  <2>7. QED
    <3> HIDE DEF S
    <3>1. QED
      BY <2>2, <2>5, <2>6
<1>3. QED
  BY <1>1, <1>2

LEMMA OverflowType ==
  ASSUME Types, NEW p \in Process, NEW w0 \in Nat, Bounded(p, w0 + 1)
  PROVE  /\ OverflowTarget(p, w0) \in Space
         /\ preferred = <<>> => /\ OverflowTarget(p, w0) >= w0 + 1
                                /\ Load(p, OverflowTarget(p, w0)) < Limit
<1>1. CASE preferred = <<>>
  <2>1. w0 + 1 \in Nat
    OBVIOUS
  <2>2. QED
    BY <1>1, <2>1, FirstFreeFits DEF Bounded, OverflowTarget
<1>2. CASE preferred # <<>>
  <2>1. preferred \in Seq(Space)
    BY PlacementAssumption DEF Types, DesktopTypes, Space
  <2>0. ToSet(preferred) # {} /\ ToSet(preferred) \subseteq Space
    <3>1. 1 \in DOMAIN preferred
      BY <1>2, <2>1
    <3>2. QED
      BY <2>1, <3>1 DEF ToSet
  <2> DEFINE f == [w \in Space |-> Windows(w)]
             S == ToSet(preferred)
  <2>2. S # {} /\ S \subseteq Space
    BY <2>0
  <2>3. f \in [Space -> Nat] /\ \A w \in S : f[w] = Windows(w)
    BY <2>2, Loads
  <2>4. \E w \in S : \A v \in S : f[w] < f[v] \/ (f[w] = f[v] /\ Rank(w) <= Rank(v))
    <3>1. S \subseteq ToSet(preferred)
      OBVIOUS
    <3> HIDE DEF f, S
    <3>2. QED
      BY <2>2, <2>3, <3>1, LeastExists
  <2>5. \E w \in S : \A v \in S : \/ Windows(w) < Windows(v)
                                  \/ Windows(w) = Windows(v) /\ Rank(w) <= Rank(v)
    <3> HIDE DEF f, S
    <3>1. QED
      BY <2>3, <2>4
  <2>6. OverflowTarget(p, w0) = CHOOSE w \in S : \A v \in S : \/ Windows(w) < Windows(v)
                                                              \/ Windows(w) = Windows(v) /\ Rank(w) <= Rank(v)
    BY <1>2 DEF OverflowTarget, Least
  <2>7. QED
    <3> HIDE DEF S
    <3>1. QED
      BY <1>2, <2>2, <2>5, <2>6
<1>3. QED
  BY <1>1, <1>2

-----------------------------------------------------------------------------
(* Types.                                                                   *)

LEMMA Settled == ASSUME Types, NEW p \in Process PROVE setting.launches[p] \in 0..Launches
BY PlacementAssumption DEF Types, DesktopTypes

LEMMA WinType ==
  ASSUME Types, NEW p \in Process, pc[p] # "idle"
  PROVE  Win(p) \in Process \X (1..Launches) /\ Win(p) \in Window
<1>1. round[p] \in 1..Launches
  BY PlacementAssumption DEF Types, LaunchTypes, Tables, Started
<1>2. QED
  BY <1>1 DEF Win, Window

LEMMA ReservedType ==
  ASSUME Types, NEW p \in Process, NEW w \in Space
  PROVE  Reserved(p, w) \in [Process -> [Space -> Nat]]
BY DEF Types, LaunchTypes, Tables, Started, Reserved

LEMMA ReleasedType ==
  ASSUME Types, NEW p \in Process, NEW w \in Nat, w = None \/ w \in Space
  PROVE  Released(p, w) \in [Process -> [Space -> Nat]]
<1>1. CASE w = None \/ held[p][w] = 0
  BY <1>1 DEF Types, LaunchTypes, Tables, Started, Released
<1>2. CASE ~(w = None \/ held[p][w] = 0)
  <2>1. w \in Space /\ held[p][w] \in Nat \ {0} /\ held \in [Process -> [Space -> Nat]]
    BY <1>2 DEF Types, LaunchTypes, Tables, Started
  <2>2. held[p][w] - 1 \in Nat
    BY <2>1
  <2>3. [held EXCEPT ![p][w] = @ - 1] \in [Process -> [Space -> Nat]]
    BY <2>1, <2>2
  <2>4. QED
    BY <1>2, <2>3 DEF Released
<1>3. QED
  BY <1>1, <1>2

LEMMA SeenType ==
  ASSUME Types, NEW x \in Window, NEW by \in SUBSET Process, Seen(x, by)
  PROVE  opened' \in [Process -> SUBSET Window]
BY DEF Types, LaunchTypes, Tables, Started, Seen

Act(p) ==
  \/ Original(p) \/ ReserveActive(p) \/ ReserveCount(p) \/ HasCapacity(p) \/ SwitchTo(p)
  \/ NoTerminal(p) \/ Spawn(p) \/ PlaceVisible(p) \/ NeverVisible(p)
  \/ RepairClients(p) \/ RepairCount(p) \/ RepairMove(p) \/ SwitchBack(p)

LEMMA ActTypes == ASSUME Types, NEW p \in Process, Act(p) PROVE Types'
<1> USE DEF Types, At, To, world, mine
<1>a. None = 0 /\ Space \subseteq Nat \ {0} /\ Launches \in Nat
  BY PlacementAssumption DEF None, Space
<1>b. pc[p] # "count" => Released(p, ws[p]) \in [Process -> [Space -> Nat]] /\ (ws[p] = None \/ ws[p] \in Space)
  BY ReleasedType DEF LaunchTypes, Tables, Started
<1>1. CASE Original(p)
  <2>0. setting.launches[p] \in 0..Launches /\ round[p] + 1 \in Nat
    BY Settled DEF LaunchTypes, Tables
  <2>1. DesktopTypes'
    BY <1>a, <1>b, <1>1, <2>0 DEF Original, DesktopTypes, LaunchTypes, Tables, Started
  <2>2. Tables'
    <3>1. held' \in [Process -> [Space -> Nat]]
      BY <1>a, <1>b, <1>1, <2>0 DEF Original, LaunchTypes, Tables
    <3>2. pc' \in [Process -> Step] /\ round' \in [Process -> Nat] /\ placed' \in [Process -> Nat]
      BY <1>1, <2>0 DEF Original, LaunchTypes, Tables, Step
    <3>3. orig' \in [Process -> Nat] /\ ws' \in [Process -> Nat] /\ target' \in [Process -> Nat]
      BY <1>a, <1>1, <2>0 DEF Original, LaunchTypes, Tables, DesktopTypes
    <3>4. checked' \in [Process -> BOOLEAN] /\ opened' \in [Process -> SUBSET Window]
      BY <1>1, <2>0 DEF Original, LaunchTypes, Tables
    <3>5. QED
      BY <3>1, <3>2, <3>3, <3>4 DEF Tables
  <2>3. \A q \in Process : Started(q)'
    <3>1. \A q \in Process \ {p} : Started(q)'
      BY <1>1 DEF Original, LaunchTypes, Tables, Started
    <3>2. round'[p] = round[p] + 1 /\ round[p] + 1 <= Launches /\ pc'[p] = "active" /\ ws'[p] = None
      BY <1>a, <1>1, <2>0 DEF Original, LaunchTypes, Tables, Started
    <3>3. Started(p)'
      BY <1>a, <2>0, <3>2 DEF Started, LaunchTypes, Tables
    <3>4. QED
      BY <3>1, <3>3
  <2>4. QED
    BY <2>1, <2>2, <2>3 DEF LaunchTypes
<1>2. CASE ReserveActive(p)
  <2>1. DesktopTypes'
    BY <1>a, <1>b, <1>2 DEF ReserveActive, DesktopTypes, LaunchTypes, Tables, Started
  <2>2. Tables'
    <3>1. held' \in [Process -> [Space -> Nat]]
      BY <1>a, <1>b, <1>2 DEF ReserveActive, LaunchTypes, Tables
    <3>2. pc' \in [Process -> Step] /\ round' \in [Process -> Nat] /\ placed' \in [Process -> Nat]
      BY <1>2 DEF ReserveActive, LaunchTypes, Tables, Step
    <3>3. orig' \in [Process -> Nat] /\ ws' \in [Process -> Nat] /\ target' \in [Process -> Nat]
      BY <1>a, <1>2 DEF ReserveActive, LaunchTypes, Tables, DesktopTypes
    <3>4. checked' \in [Process -> BOOLEAN] /\ opened' \in [Process -> SUBSET Window]
      BY <1>2 DEF ReserveActive, LaunchTypes, Tables
    <3>5. QED
      BY <3>1, <3>2, <3>3, <3>4 DEF Tables
  <2>3. \A q \in Process : Started(q)'
    BY <1>b, <1>2 DEF ReserveActive, LaunchTypes, Tables, Started
  <2>4. QED
    BY <2>1, <2>2, <2>3 DEF LaunchTypes
<1>3. CASE ReserveCount(p)
  <2>0. Bounded(p, ws[p]) => /\ Reservable(p, ws[p]) \in Space
                            /\ Reserved(p, Reservable(p, ws[p])) \in [Process -> [Space -> Nat]]
    BY ReservableType, ReservedType DEF LaunchTypes, Tables
  <2>1. DesktopTypes'
    BY <1>a, <1>b, <1>3, <2>0 DEF ReserveCount, DesktopTypes, LaunchTypes, Tables, Started
  <2>2. Tables'
    <3>1. held' \in [Process -> [Space -> Nat]]
      BY <1>a, <1>b, <1>3, <2>0 DEF ReserveCount, LaunchTypes, Tables
    <3>2. pc' \in [Process -> Step] /\ round' \in [Process -> Nat] /\ placed' \in [Process -> Nat]
      BY <1>3, <2>0 DEF ReserveCount, LaunchTypes, Tables, Step
    <3>3. orig' \in [Process -> Nat] /\ ws' \in [Process -> Nat] /\ target' \in [Process -> Nat]
      <4>1. PICK w \in Nat : ws' = [ws EXCEPT ![p] = w]
        BY <1>a, <1>3, <2>0 DEF ReserveCount
      <4>2. QED
        BY <1>3, <4>1 DEF ReserveCount, LaunchTypes, Tables
    <3>4. checked' \in [Process -> BOOLEAN] /\ opened' \in [Process -> SUBSET Window]
      BY <1>3, <2>0 DEF ReserveCount, LaunchTypes, Tables
    <3>5. QED
      BY <3>1, <3>2, <3>3, <3>4 DEF Tables
  <2>3. \A q \in Process : Started(q)'
    BY <1>b, <1>3, <2>0 DEF ReserveCount, LaunchTypes, Tables, Started
  <2>4. QED
    BY <2>1, <2>2, <2>3 DEF LaunchTypes
<1>4. CASE HasCapacity(p)
  <2>1. DesktopTypes'
    BY <1>a, <1>b, <1>4 DEF HasCapacity, DesktopTypes, LaunchTypes, Tables, Started
  <2>2. Tables'
    <3>1. held' \in [Process -> [Space -> Nat]]
      BY <1>a, <1>b, <1>4 DEF HasCapacity, LaunchTypes, Tables
    <3>2. pc' \in [Process -> Step] /\ round' \in [Process -> Nat] /\ placed' \in [Process -> Nat]
      BY <1>4 DEF HasCapacity, LaunchTypes, Tables, Step
    <3>3. orig' \in [Process -> Nat] /\ ws' \in [Process -> Nat] /\ target' \in [Process -> Nat]
      BY <1>a, <1>4 DEF HasCapacity, LaunchTypes, Tables, DesktopTypes
    <3>4. checked' \in [Process -> BOOLEAN] /\ opened' \in [Process -> SUBSET Window]
      BY <1>4 DEF HasCapacity, LaunchTypes, Tables
    <3>5. QED
      BY <3>1, <3>2, <3>3, <3>4 DEF Tables
  <2>3. \A q \in Process : Started(q)'
    BY <1>b, <1>4 DEF HasCapacity, LaunchTypes, Tables, Started
  <2>4. QED
    BY <2>1, <2>2, <2>3 DEF LaunchTypes
<1>5. CASE SwitchTo(p)
  <2>1. DesktopTypes'
    BY <1>a, <1>b, <1>5 DEF SwitchTo, DesktopTypes, LaunchTypes, Tables, Started
  <2>2. Tables'
    <3>1. held' \in [Process -> [Space -> Nat]]
      BY <1>a, <1>b, <1>5 DEF SwitchTo, LaunchTypes, Tables
    <3>2. pc' \in [Process -> Step] /\ round' \in [Process -> Nat] /\ placed' \in [Process -> Nat]
      BY <1>5 DEF SwitchTo, LaunchTypes, Tables, Step
    <3>3. orig' \in [Process -> Nat] /\ ws' \in [Process -> Nat] /\ target' \in [Process -> Nat]
      <4>1. ws' \in [Process -> Nat]
        BY <1>a, <1>5 DEF SwitchTo, LaunchTypes, Tables
      <4>2. QED
        BY <1>5, <4>1 DEF SwitchTo, LaunchTypes, Tables
    <3>4. checked' \in [Process -> BOOLEAN] /\ opened' \in [Process -> SUBSET Window]
      BY <1>5 DEF SwitchTo, LaunchTypes, Tables
    <3>5. QED
      BY <3>1, <3>2, <3>3, <3>4 DEF Tables
  <2>3. \A q \in Process : Started(q)'
    BY <1>b, <1>5 DEF SwitchTo, LaunchTypes, Tables, Started
  <2>4. QED
    BY <2>1, <2>2, <2>3 DEF LaunchTypes
<1>6. CASE NoTerminal(p)
  <2>1. DesktopTypes'
    BY <1>a, <1>b, <1>6 DEF NoTerminal, DesktopTypes, LaunchTypes, Tables, Started
  <2>2. Tables'
    <3>1. held' \in [Process -> [Space -> Nat]]
      BY <1>a, <1>b, <1>6 DEF NoTerminal, LaunchTypes, Tables
    <3>2. pc' \in [Process -> Step] /\ round' \in [Process -> Nat] /\ placed' \in [Process -> Nat]
      BY <1>6 DEF NoTerminal, LaunchTypes, Tables, Step
    <3>3. orig' \in [Process -> Nat] /\ ws' \in [Process -> Nat] /\ target' \in [Process -> Nat]
      BY <1>a, <1>6 DEF NoTerminal, LaunchTypes, Tables, DesktopTypes
    <3>4. checked' \in [Process -> BOOLEAN] /\ opened' \in [Process -> SUBSET Window]
      BY <1>6 DEF NoTerminal, LaunchTypes, Tables
    <3>5. QED
      BY <3>1, <3>2, <3>3, <3>4 DEF Tables
  <2>3. \A q \in Process : Started(q)'
    BY <1>b, <1>6 DEF NoTerminal, LaunchTypes, Tables, Started
  <2>4. QED
    BY <2>1, <2>2, <2>3 DEF LaunchTypes
<1>7. CASE Spawn(p)
  <2>0. Win(p) \in Process \X (1..Launches)
    BY <1>7, WinType DEF Spawn
  <2>1. DesktopTypes'
    BY <1>a, <1>b, <1>7, <2>0 DEF Spawn, DesktopTypes, LaunchTypes, Tables, Started
  <2>2. Tables'
    <3>1. held' \in [Process -> [Space -> Nat]]
      BY <1>a, <1>b, <1>7, <2>0 DEF Spawn, LaunchTypes, Tables
    <3>2. pc' \in [Process -> Step] /\ round' \in [Process -> Nat] /\ placed' \in [Process -> Nat]
      BY <1>7, <2>0 DEF Spawn, LaunchTypes, Tables, Step
    <3>3. orig' \in [Process -> Nat] /\ ws' \in [Process -> Nat] /\ target' \in [Process -> Nat]
      BY <1>a, <1>7, <2>0 DEF Spawn, LaunchTypes, Tables, DesktopTypes
    <3>4. checked' \in [Process -> BOOLEAN] /\ opened' \in [Process -> SUBSET Window]
      BY <1>7, <2>0 DEF Spawn, LaunchTypes, Tables
    <3>5. QED
      BY <3>1, <3>2, <3>3, <3>4 DEF Tables
  <2>3. \A q \in Process : Started(q)'
    BY <1>b, <1>7, <2>0 DEF Spawn, LaunchTypes, Tables, Started
  <2>4. QED
    BY <2>1, <2>2, <2>3 DEF LaunchTypes
<1>8. CASE PlaceVisible(p)
  <2>0. opened' \in [Process -> SUBSET Window]
    BY <1>8, WinType, SeenType DEF PlaceVisible, Place, LaunchTypes, Tables
  <2>1. DesktopTypes'
    <3>1. ws[p] \in Nat \ {0}
      BY <1>a, <1>8 DEF PlaceVisible, LaunchTypes, Tables
    <3>2. at' \in [Window -> Nat] /\ focus' \in Nat \ {0}
      BY <1>8, <3>1 DEF PlaceVisible, Place, DesktopTypes
    <3>3. QED
      BY <1>8, <3>2 DEF PlaceVisible, DesktopTypes
  <2>2. Tables'
    <3>1. held' \in [Process -> [Space -> Nat]]
      BY <1>a, <1>b, <1>8, <2>0 DEF PlaceVisible, LaunchTypes, Tables
    <3>2. pc' \in [Process -> Step] /\ round' \in [Process -> Nat] /\ placed' \in [Process -> Nat]
      <4>1. placed' \in [Process -> Nat]
        <5>1. placed' = placed \/ placed' = [placed EXCEPT ![p] = @ + 1]
          BY <1>8 DEF PlaceVisible
        <5>2. placed \in [Process -> Nat]
          BY DEF LaunchTypes, Tables
        <5>3. QED
          BY <5>1, <5>2
      <4>2. pc' \in [Process -> Step]
        BY <1>8 DEF PlaceVisible, LaunchTypes, Tables, Step
      <4>3. QED
        BY <1>8, <4>1, <4>2 DEF PlaceVisible, LaunchTypes, Tables
    <3>3. orig' \in [Process -> Nat] /\ ws' \in [Process -> Nat] /\ target' \in [Process -> Nat]
      BY <1>a, <1>8, <2>0 DEF PlaceVisible, LaunchTypes, Tables, DesktopTypes
    <3>4. checked' \in [Process -> BOOLEAN] /\ opened' \in [Process -> SUBSET Window]
      BY <1>8, <2>0 DEF PlaceVisible, LaunchTypes, Tables
    <3>5. QED
      BY <3>1, <3>2, <3>3, <3>4 DEF Tables
  <2>3. \A q \in Process : Started(q)'
    BY <1>b, <1>8, <2>0 DEF PlaceVisible, LaunchTypes, Tables, Started
  <2>4. QED
    BY <2>1, <2>2, <2>3 DEF LaunchTypes
<1>9. CASE NeverVisible(p)
  <2>1. DesktopTypes'
    BY <1>a, <1>b, <1>9 DEF NeverVisible, DesktopTypes, LaunchTypes, Tables, Started
  <2>2. Tables'
    <3>1. held' \in [Process -> [Space -> Nat]]
      BY <1>a, <1>b, <1>9 DEF NeverVisible, LaunchTypes, Tables
    <3>2. pc' \in [Process -> Step] /\ round' \in [Process -> Nat] /\ placed' \in [Process -> Nat]
      BY <1>9 DEF NeverVisible, LaunchTypes, Tables, Step
    <3>3. orig' \in [Process -> Nat] /\ ws' \in [Process -> Nat] /\ target' \in [Process -> Nat]
      BY <1>a, <1>9 DEF NeverVisible, LaunchTypes, Tables, DesktopTypes
    <3>4. checked' \in [Process -> BOOLEAN] /\ opened' \in [Process -> SUBSET Window]
      BY <1>9 DEF NeverVisible, LaunchTypes, Tables
    <3>5. QED
      BY <3>1, <3>2, <3>3, <3>4 DEF Tables
  <2>3. \A q \in Process : Started(q)'
    BY <1>b, <1>9 DEF NeverVisible, LaunchTypes, Tables, Started
  <2>4. QED
    BY <2>1, <2>2, <2>3 DEF LaunchTypes
<1>10. CASE RepairClients(p)
  <2>1. DesktopTypes'
    BY <1>a, <1>b, <1>10 DEF RepairClients, DesktopTypes, LaunchTypes, Tables, Started
  <2>2. Tables'
    <3>1. held' \in [Process -> [Space -> Nat]]
      BY <1>a, <1>b, <1>10 DEF RepairClients, LaunchTypes, Tables
    <3>2. pc' \in [Process -> Step] /\ round' \in [Process -> Nat] /\ placed' \in [Process -> Nat]
      BY <1>10 DEF RepairClients, LaunchTypes, Tables, Step
    <3>3. orig' \in [Process -> Nat] /\ ws' \in [Process -> Nat] /\ target' \in [Process -> Nat]
      <4>1. at[Win(p)] \in Nat
        BY <1>10, WinType DEF RepairClients, DesktopTypes
      <4>2. PICK w \in Nat : target' = [target EXCEPT ![p] = w]
        BY <1>a, <1>10, <4>1 DEF RepairClients
      <4>3. QED
        BY <1>10, <4>2 DEF RepairClients, LaunchTypes, Tables
    <3>4. checked' \in [Process -> BOOLEAN] /\ opened' \in [Process -> SUBSET Window]
      BY <1>10 DEF RepairClients, LaunchTypes, Tables
    <3>5. QED
      BY <3>1, <3>2, <3>3, <3>4 DEF Tables
  <2>3. \A q \in Process : Started(q)'
    BY <1>b, <1>10 DEF RepairClients, LaunchTypes, Tables, Started
  <2>4. QED
    BY <2>1, <2>2, <2>3 DEF LaunchTypes
<1>11. CASE RepairCount(p)
  <2>0. LET w == OverflowTarget(p, target[p]) IN
        Bounded(p, target[p] + 1) => /\ w \in Space /\ Reserved(p, w) \in [Process -> [Space -> Nat]]
    BY OverflowType, ReservedType DEF LaunchTypes, Tables
  <2>1. DesktopTypes'
    BY <1>a, <1>b, <1>11, <2>0 DEF RepairCount, DesktopTypes, LaunchTypes, Tables, Started
  <2>2. Tables'
    <3>1. held' \in [Process -> [Space -> Nat]]
      BY <1>a, <1>b, <1>11, <2>0 DEF RepairCount, LaunchTypes, Tables
    <3>2. pc' \in [Process -> Step] /\ round' \in [Process -> Nat] /\ placed' \in [Process -> Nat]
      BY <1>11, <2>0 DEF RepairCount, LaunchTypes, Tables, Step
    <3>3. orig' \in [Process -> Nat] /\ ws' \in [Process -> Nat] /\ target' \in [Process -> Nat]
      <4>1. target' = target \/ \E w \in Space : target' = [target EXCEPT ![p] = w]
        BY <1>11, <2>0 DEF RepairCount
      <4>2. QED
        BY <1>a, <1>11, <4>1 DEF RepairCount, LaunchTypes, Tables
    <3>4. checked' \in [Process -> BOOLEAN] /\ opened' \in [Process -> SUBSET Window]
      BY <1>11, <2>0 DEF RepairCount, LaunchTypes, Tables
    <3>5. QED
      BY <3>1, <3>2, <3>3, <3>4 DEF Tables
  <2>3. \A q \in Process : Started(q)'
    BY <1>b, <1>11, <2>0 DEF RepairCount, LaunchTypes, Tables, Started
  <2>4. QED
    BY <2>1, <2>2, <2>3 DEF LaunchTypes
<1>12. CASE RepairMove(p)
  <2>0. opened' \in [Process -> SUBSET Window]
    BY <1>12, WinType, SeenType DEF RepairMove, Place, LaunchTypes, Tables
  <2>a. target[p] \in Space /\ Released(p, target[p]) \in [Process -> [Space -> Nat]]
    BY <1>12, ReleasedType DEF RepairMove, LaunchTypes, Tables, Started
  <2>1. DesktopTypes'
    <3>1. at' \in [Window -> Nat] /\ focus' \in Nat \ {0}
      BY <1>a, <1>12, <2>a DEF RepairMove, Place, DesktopTypes
    <3>2. QED
      BY <1>12, <3>1 DEF RepairMove, DesktopTypes
  <2>2. Tables'
    <3>1. held' \in [Process -> [Space -> Nat]]
      BY <1>a, <1>b, <1>12, <2>0, <2>a DEF RepairMove, LaunchTypes, Tables
    <3>2. pc' \in [Process -> Step] /\ round' \in [Process -> Nat] /\ placed' \in [Process -> Nat]
      BY <1>12, <2>0, <2>a DEF RepairMove, LaunchTypes, Tables, Step
    <3>3. orig' \in [Process -> Nat] /\ ws' \in [Process -> Nat] /\ target' \in [Process -> Nat]
      BY <1>a, <1>12, <2>0, <2>a DEF RepairMove, LaunchTypes, Tables, DesktopTypes
    <3>4. checked' \in [Process -> BOOLEAN] /\ opened' \in [Process -> SUBSET Window]
      BY <1>12, <2>0, <2>a DEF RepairMove, Place, LaunchTypes, Tables
    <3>5. QED
      BY <3>1, <3>2, <3>3, <3>4 DEF Tables
  <2>3. \A q \in Process : Started(q)'
    BY <1>b, <1>12, <2>0, <2>a DEF RepairMove, LaunchTypes, Tables, Started
  <2>4. QED
    BY <2>1, <2>2, <2>3 DEF LaunchTypes
<1>13. CASE SwitchBack(p)
  <2>1. DesktopTypes'
    BY <1>a, <1>b, <1>13 DEF SwitchBack, DesktopTypes, LaunchTypes, Tables, Started
  <2>2. Tables'
    <3>1. held' \in [Process -> [Space -> Nat]]
      BY <1>a, <1>b, <1>13 DEF SwitchBack, LaunchTypes, Tables
    <3>2. pc' \in [Process -> Step] /\ round' \in [Process -> Nat] /\ placed' \in [Process -> Nat]
      BY <1>13 DEF SwitchBack, LaunchTypes, Tables, Step
    <3>3. orig' \in [Process -> Nat] /\ ws' \in [Process -> Nat] /\ target' \in [Process -> Nat]
      BY <1>a, <1>13 DEF SwitchBack, LaunchTypes, Tables, DesktopTypes
    <3>4. checked' \in [Process -> BOOLEAN] /\ opened' \in [Process -> SUBSET Window]
      BY <1>13 DEF SwitchBack, LaunchTypes, Tables
    <3>5. QED
      BY <3>1, <3>2, <3>3, <3>4 DEF Tables
  <2>3. \A q \in Process : Started(q)'
    BY <1>b, <1>13 DEF SwitchBack, LaunchTypes, Tables, Started
  <2>4. QED
    BY <2>1, <2>2, <2>3 DEF LaunchTypes
<1>14. QED
  BY <1>1, <1>2, <1>3, <1>4, <1>5, <1>6, <1>7, <1>8, <1>9, <1>10, <1>11, <1>12, <1>13 DEF Act

Desktop == (\E x \in Window : Appear(x) \/ OpenApp(x) \/ CloseWindow(x)) \/ (\E w \in 1..2 : UserSwitch(w))

LEMMA NextParts == Next <=> (\E p \in Process : Act(p)) \/ Desktop
BY DEF Next, Act, Desktop

LEMMA DesktopKeepsLaunches ==
  ASSUME Desktop
  PROVE  UNCHANGED <<preferred, setting, placed, held, pc, round, mine>>
BY DEF Desktop, Appear, OpenApp, CloseWindow, UserSwitch

LEMMA DesktopStep == ASSUME Types, Desktop PROVE Types'
<1> USE DEF Types, LaunchTypes, Tables, mine
<1>1. UNCHANGED <<preferred, setting, placed, held, pc, round, mine>>
  BY DesktopKeepsLaunches
<1>2. opened' \in [Process -> SUBSET Window]
  <2>1. ASSUME NEW x \in Window, Appear(x) PROVE opened' \in [Process -> SUBSET Window]
    <3>1. PICK by \in SUBSET Process : Seen(x, by)
      BY <2>1 DEF Appear
    <3>2. QED
      BY <3>1, SeenType
  <2>2. ASSUME NEW x \in Window, OpenApp(x) PROVE opened' \in [Process -> SUBSET Window]
    BY <2>2, SeenType DEF OpenApp
  <2>3. QED
    BY <2>1, <2>2 DEF Desktop, CloseWindow, UserSwitch
<1>3. at' \in [Window -> Nat] /\ focus' \in Nat \ {0} /\ home' \in Nat \ {0}
      /\ opening' \subseteq Process \X (1..Launches)
  <2> USE DEF DesktopTypes
  <2>1. ASSUME NEW x \in Window, Appear(x) PROVE at' \in [Window -> Nat] /\ UNCHANGED <<focus, home>>
    BY <2>1 DEF Appear
  <2>2. ASSUME NEW x \in Window, OpenApp(x) PROVE at' \in [Window -> Nat] /\ UNCHANGED <<focus, home, opening>>
    BY <2>2 DEF OpenApp
  <2>3. ASSUME NEW x \in Window, CloseWindow(x) PROVE at' \in [Window -> Nat] /\ UNCHANGED <<focus, home, opening>>
    BY <2>3 DEF CloseWindow, None
  <2>4. ASSUME NEW w \in 1..2, UserSwitch(w)
        PROVE  focus' \in Nat \ {0} /\ home' \in Nat \ {0} /\ UNCHANGED <<at, opening>>
    BY <2>4 DEF UserSwitch
  <2>5. opening' \subseteq opening
    BY DEF Desktop, Appear, OpenApp, CloseWindow, UserSwitch
  <2>6. QED
    BY <2>1, <2>2, <2>3, <2>4, <2>5 DEF Desktop
<1>4. QED
  BY <1>1, <1>2, <1>3 DEF DesktopTypes, Started

LEMMA TypesStart == Init => Types
<1> SUFFICES ASSUME Init PROVE Types
  OBVIOUS
<1> USE DEF Init
<1>1. DesktopTypes
  BY DEF DesktopTypes, None
<1>2. held \in [Process -> [Space -> Nat]]
  OBVIOUS
<1>3. /\ pc \in [Process -> Step] /\ round \in [Process -> Nat] /\ placed \in [Process -> Nat]
      /\ orig \in [Process -> Nat] /\ ws \in [Process -> Nat] /\ target \in [Process -> Nat]
  BY DEF Step, None
<1>4. checked \in [Process -> BOOLEAN] /\ opened \in [Process -> SUBSET Window]
  OBVIOUS
<1>5. \A p \in Process : Started(p)
  BY PlacementAssumption DEF Started
<1>6. QED
  BY <1>1, <1>2, <1>3, <1>4, <1>5 DEF Types, LaunchTypes, Tables

LEMMA TypesStep == Types /\ [Next]_vars => Types'
<1>1. Types /\ UNCHANGED vars => Types'
  BY DEF Types, DesktopTypes, LaunchTypes, Tables, Started, vars
<1>2. QED
  BY <1>1, ActTypes, DesktopStep, NextParts

-----------------------------------------------------------------------------
(* The focus.                                                               *)

(* When calm one launch is under way at most: the workspace that the user   *)
(* was on is the one it goes back to, and the focus has followed its window *)
(* at most.                                                                 *)
Strayed(p) == target[p] \notin {None, ws[p]}

Away(p) ==
  pc[p] # "idle" =>
    /\ orig[p] = home
    /\ \A q \in Process \ {p} : pc[q] = "idle"
    /\ focus \in {home, ws[p]} \/ (pc[p] = "back" /\ Strayed(p))
    /\ pc[p] \in {"active", "count", "room", "switch"} => focus = home

FocusInv ==
  calm => /\ \A p \in Process : Away(p)
          /\ Resting => focus = home \/ \E p \in Process : Strayed(p)

LEMMA ActFocus == ASSUME Types, FocusInv, NEW p \in Process, Act(p), calm PROVE FocusInv'
<1> USE DEF Types, LaunchTypes, Tables, At, To, world, mine, calm, rough, Asked, Mood
<1>1. setting' = setting /\ ~rough
  BY DEF Act, Original, ReserveActive, ReserveCount, HasCapacity, SwitchTo, NoTerminal, Spawn, PlaceVisible,
         NeverVisible, RepairClients, RepairCount, RepairMove, SwitchBack
<1>2. CASE Original(p)
  <2>1. orig'[p] = focus /\ home' = focus /\ focus' = focus /\ pc' = [pc EXCEPT ![p] = "active"] /\ Resting
    BY <1>1, <1>2 DEF Original
  <2>2. Away(p)' /\ ~Resting'
    BY <2>1 DEF Away, Resting
  <2>3. \A q \in Process \ {p} : pc'[q] = "idle"
    BY <2>1 DEF Resting
  <2>4. QED
    BY <1>1, <2>2, <2>3 DEF FocusInv, Away
<1>3. ASSUME pc[p] # "idle", \A q \in Process \ {p} : pc'[q] = pc[q],
             UNCHANGED <<orig, home>>, pc'[p] # "idle",
             \/ focus' \in {home, ws'[p]}
             \/ pc'[p] = "back" /\ Strayed(p)',
             pc'[p] \in {"active", "count", "room", "switch"} => focus' = home
      PROVE  FocusInv'
  <2>1. Away(p)
    BY DEF FocusInv
  <2>2. \A q \in Process \ {p} : pc'[q] = "idle"
    BY <1>3, <2>1 DEF Away
  <2>3. Away(p)'
    BY <1>3, <2>1, <2>2 DEF Away
  <2>4. ~Resting'
    BY <1>3 DEF Resting
  <2>5. QED
    BY <1>1, <2>2, <2>3, <2>4 DEF FocusInv, Away
<1>4. pc[p] # "idle" => /\ focus \in {home, ws[p]} \/ (pc[p] = "back" /\ Strayed(p))
                        /\ orig[p] = home /\ home # None
                        /\ pc[p] \in {"active", "count", "room", "switch"} => focus = home
  BY DEF FocusInv, Away, DesktopTypes, None
<1>5. CASE ReserveActive(p)
  BY <1>1, <1>3, <1>4, <1>5 DEF ReserveActive, Strayed
<1>6. CASE ReserveCount(p)
  BY <1>1, <1>3, <1>4, <1>6 DEF ReserveCount, Strayed
<1>7. CASE HasCapacity(p)
  BY <1>1, <1>3, <1>4, <1>7 DEF HasCapacity, Strayed
<1>8. CASE SwitchTo(p)
  BY <1>1, <1>3, <1>4, <1>8 DEF SwitchTo, Strayed
<1>9. CASE NoTerminal(p)
  BY <1>1, <1>3, <1>4, <1>9 DEF NoTerminal, Strayed
<1>10. CASE Spawn(p)
  BY <1>1, <1>3, <1>4, <1>10 DEF Spawn, Strayed
<1>11. CASE PlaceVisible(p)
  BY <1>1, <1>3, <1>4, <1>11 DEF PlaceVisible, Place, Strayed
<1>12. CASE NeverVisible(p)
  BY <1>1, <1>3, <1>4, <1>12 DEF NeverVisible, Strayed
<1>13. CASE RepairClients(p)
  BY <1>1, <1>3, <1>4, <1>13 DEF RepairClients, Strayed
<1>14. CASE RepairCount(p)
  BY <1>1, <1>3, <1>4, <1>14 DEF RepairCount, Strayed
<1>15. CASE RepairMove(p)
  <2>1. target[p] # None /\ pc[p] = "move" /\ pc' = [pc EXCEPT ![p] = "back"]
        /\ UNCHANGED <<orig, home, ws, target>>
    BY <1>15 DEF RepairMove, Started, Space, None
  <2>2. focus' \in {focus, target[p]}
    BY <1>15 DEF RepairMove, Place
  <2>3. QED
    BY <1>3, <1>4, <2>1, <2>2 DEF Strayed
<1>16. CASE SwitchBack(p)
  <2>1. pc' = [pc EXCEPT ![p] = "idle"] /\ UNCHANGED <<home, target, ws>> /\ pc[p] = "back"
    BY <1>16 DEF SwitchBack
  <2>2. \A q \in Process : pc'[q] = "idle"
    BY <2>1 DEF FocusInv, Away
  <2>3. focus' = home \/ Strayed(p)'
    BY <1>1, <1>4, <1>16, <2>1 DEF SwitchBack, Strayed
  <2>4. QED
    BY <1>1, <2>1, <2>2, <2>3 DEF FocusInv, Away
<1>17. QED
  BY <1>2, <1>5, <1>6, <1>7, <1>8, <1>9, <1>10, <1>11, <1>12, <1>13, <1>14, <1>15, <1>16 DEF Act

LEMMA FocusStep == Types /\ FocusInv /\ [Next]_vars => FocusInv'
<1> SUFFICES ASSUME Types, FocusInv, [Next]_vars PROVE FocusInv'
  OBVIOUS
<1>1. setting' = setting
  BY DEF Next, vars, world, Original, ReserveActive, ReserveCount, HasCapacity, SwitchTo, NoTerminal, Spawn,
         PlaceVisible, NeverVisible, RepairClients, RepairCount, RepairMove, SwitchBack, Appear, OpenApp,
         CloseWindow, UserSwitch
<1>2. CASE ~calm
  BY <1>1, <1>2 DEF calm, FocusInv
<1>3. CASE calm /\ Desktop
  <2>1. UNCHANGED <<pc, orig, ws, target>>
    BY <1>3, DesktopKeepsLaunches DEF mine
  <2>2. UNCHANGED <<focus, home>> \/ (Resting /\ focus' = home')
    BY <1>3 DEF Desktop, Appear, OpenApp, CloseWindow, UserSwitch, calm, rough
  <2>3. CASE UNCHANGED <<focus, home>>
    BY <1>3, <2>1, <2>3 DEF FocusInv, Away, Strayed, Resting, At
  <2>4. CASE Resting /\ focus' = home'
    BY <1>3, <2>1, <2>4 DEF FocusInv, Away, Resting, At
  <2>5. QED
    BY <2>2, <2>3, <2>4
<1>4. CASE UNCHANGED vars
  BY <1>4 DEF vars, FocusInv, Away, Strayed, Resting, At, calm
<1>5. QED
  BY <1>2, <1>3, <1>4, ActFocus, NextParts

(* When no question failed, launch() gives the user the workspace back,     *)
(* whichever way it returned (TerminalManager.launch's switches), unless    *)
(* repair_overflow moved the window on and the focus with it.               *)
THEOREM FocusComesBack == Spec => []FocusReturns
<1>1. Init => Types /\ FocusInv
  BY TypesStart DEF Init, FocusInv, Away
<1>2. Types /\ FocusInv /\ [Next]_vars => (Types /\ FocusInv)'
  BY TypesStep, FocusStep
<1>3. FocusInv => FocusReturns
  BY DEF FocusInv, FocusReturns, Strayed
<1>4. QED
  BY <1>1, <1>2, <1>3, PTL DEF Spec

-----------------------------------------------------------------------------
(* The room.                                                                *)

(* A window is nowhere until it appears, and is not started before its      *)
(* launch gets to it.                                                       *)
Fresh(p, k) == k > round[p] \/ (k = round[p] /\ pc[p] \in {"active", "count", "room", "switch", "spawn"})

Arrivals ==
  /\ \A x \in opening : at[x] = None
  /\ \A p \in Process : \A k \in 1..Launches : Fresh(p, k) => at[<<p, k>>] = None /\ <<p, k>> \notin opening

(* The window of a launch that rechecks is there or gone for good, and it   *)
(* is where the recheck found it.                                           *)
Rechecked(p) ==
  /\ pc[p] \in {"clients", "recheck", "move"} \/ checked[p] => Win(p) \notin opening /\ round[p] >= 1
  /\ pc[p] = "recheck" => at[Win(p)] \in {None, target[p]}
  /\ checked[p] => pc[p] \in {"back", "idle"}

Crowd(p, w) == {x \in Window \ opened[p] : at[x] = w}

(* The room that the recheck counted is not taken by what it could see.     *)
Room(p) ==
  preferred = <<>> =>
    /\ checked[p] /\ at[Win(p)] # None => Cardinality(Crowd(p, at[Win(p)])) <= Limit
    /\ pc[p] = "move" => Cardinality(Crowd(p, target[p]) \ {Win(p)}) < Limit

RoomInv == Types /\ Arrivals /\ \A p \in Process : Rechecked(p) /\ Room(p)

(* What another process or the desktop does to the windows of a launch.     *)
LEMMA Undisturbed ==
  ASSUME Types, NEW p \in Process, Rechecked(p), Room(p),
         UNCHANGED <<pc[p], round[p], checked[p], target[p], preferred>>,
         opened[p] \subseteq opened'[p],
         \A x \in Window : at'[x] \in {at[x], None} \/ x \in opened'[p],
         \/ at'[Win(p)] \in {at[Win(p)], None} /\ (Win(p) \in opening' => Win(p) \in opening)
         \/ ~(pc[p] \in {"clients", "recheck", "move"} \/ checked[p])
  PROVE  Rechecked(p)' /\ Room(p)'
<1>1. Win(p)' = Win(p)
  BY DEF Win
<1>3. Rechecked(p)'
  BY <1>1 DEF Rechecked
<1>4. CASE ~(pc[p] \in {"clients", "recheck", "move"} \/ checked[p])
  BY <1>3, <1>4 DEF Room
<1>5. CASE (pc[p] = "move" \/ checked[p]) /\ at'[Win(p)] \in {at[Win(p)], None}
  <2>1. Win(p) \in Window
    BY <1>5, PlacementAssumption DEF Rechecked, Win, Window, Types, LaunchTypes, Tables, Started
  <2>2. at[Win(p)] \in Nat /\ target[p] \in Nat /\ (pc[p] = "move" => target[p] # None) /\ Limit \in Nat
    BY <2>1, PlacementAssumption DEF Types, DesktopTypes, LaunchTypes, Tables, Started, Space, None
  <2>3. ASSUME NEW w \in Nat, preferred = <<>>, checked[p], w # None, w = at'[Win(p)]
        PROVE  Cardinality(Crowd(p, w)') <= Limit
    <3>1. w = at[Win(p)] /\ Cardinality(Crowd(p, w)) <= Limit
      BY <1>5, <2>3 DEF Room
    <3>2. Crowd(p, w)' \subseteq Crowd(p, w) /\ Crowd(p, w) \subseteq Window
      BY <2>3 DEF Crowd
    <3>3. QED
      BY <2>2, <3>1, <3>2, Fewer, Counts
  <2>4. ASSUME preferred = <<>>, pc[p] = "move" PROVE Cardinality(Crowd(p, target[p])' \ {Win(p)}) < Limit
    <3>1. Cardinality(Crowd(p, target[p]) \ {Win(p)}) < Limit
      BY <2>4 DEF Room
    <3>2. Crowd(p, target[p])' \ {Win(p)} \subseteq Crowd(p, target[p]) \ {Win(p)}
          /\ Crowd(p, target[p]) \ {Win(p)} \subseteq Window
      BY <2>2, <2>4 DEF Crowd
    <3>3. QED
      BY <2>2, <3>1, <3>2, Fewer, Counts
  <2>5. Room(p)'
    <3>1. at'[Win(p)] \in Nat
      BY <1>5, <2>2 DEF None
    <3>2. preferred = <<>> /\ checked[p] /\ at'[Win(p)] # None => Cardinality(Crowd(p, at[Win(p)]))' <= Limit
      BY <1>1, <2>3, <3>1
    <3>3. preferred = <<>> /\ pc[p] = "move" => Cardinality(Crowd(p, target[p]) \ {Win(p)})' < Limit
      BY <1>1, <2>4
    <3>4. QED
      BY <1>1, <3>2, <3>3 DEF Room
  <2>6. QED
    BY <1>3, <2>5
<1>6. CASE pc[p] \notin {"move"} /\ ~checked[p]
  BY <1>3, <1>6 DEF Room
<1>7. QED
  BY <1>4, <1>5, <1>6

LEMMA ActArrivals == ASSUME Types, Arrivals, NEW p \in Process, Act(p) PROVE Arrivals'
<1> USE DEF At, To, world, mine
<1>1. \A q \in Process, k \in 1..Launches : <<q, k>> \in Window /\ (<<q, k>> = Win(p) => q = p /\ k = round[p])
  BY DEF Window, Win
<1>2. pc \in [Process -> Step] /\ round \in [Process -> Nat] /\ at \in [Window -> Nat]
  BY DEF Types, DesktopTypes, LaunchTypes, Tables
<1>3. (IF pc[p] = "idle" THEN round' = [round EXCEPT ![p] = @ + 1] ELSE UNCHANGED round)
      /\ \A q \in Process \ {p} : pc'[q] = pc[q]
  BY <1>2 DEF Act, Original, ReserveActive, ReserveCount, HasCapacity, SwitchTo, NoTerminal, Spawn, PlaceVisible,
              NeverVisible, RepairClients, RepairCount, RepairMove, SwitchBack
<1>4. pc'[p] \in {"active", "count", "room", "switch", "spawn"}
        => pc[p] \in {"idle", "active", "count", "room", "switch"}
  BY <1>2 DEF Act, Original, ReserveActive, ReserveCount, HasCapacity, SwitchTo, NoTerminal, Spawn, PlaceVisible,
              NeverVisible, RepairClients, RepairCount, RepairMove, SwitchBack
<1>5. \/ UNCHANGED <<at, opening>>
      \/ UNCHANGED at /\ pc[p] = "spawn" /\ opening' = opening \cup {Win(p)}
      \/ UNCHANGED opening /\ pc[p] \in {"show", "move"} /\ at[Win(p)] # None /\ \E w : at' = [at EXCEPT ![Win(p)] = w]
  BY DEF Act, Original, ReserveActive, ReserveCount, HasCapacity, SwitchTo, NoTerminal, Spawn, PlaceVisible,
         NeverVisible, RepairClients, RepairCount, RepairMove, SwitchBack, Place
<1>6. ASSUME NEW q \in Process, NEW k \in 1..Launches, Fresh(q, k)' PROVE Fresh(q, k)
  <2>1. CASE q # p
    BY <1>2, <1>3, <1>6, <2>1 DEF Fresh
  <2>2. CASE q = p /\ pc[p] = "idle"
    BY <1>2, <1>3, <1>6, <2>2 DEF Fresh
  <2>3. CASE q = p /\ pc[p] # "idle"
    BY <1>2, <1>3, <1>4, <1>6, <2>3 DEF Fresh
  <2>4. QED
    BY <2>1, <2>2, <2>3
<1>7. pc[p] # "idle" => Win(p) = <<p, round[p]>> /\ round[p] \in 1..Launches
  BY WinType DEF Win
<1>8. pc[p] = "spawn" => at[Win(p)] = None
  BY <1>7 DEF Arrivals, Fresh
<1>9. \A x \in opening' : at'[x] = None
  <2>1. opening \subseteq Window
    BY DEF Types, DesktopTypes, Window
  <2>2. QED
    BY <1>2, <1>5, <1>8, <2>1 DEF Arrivals
<1>10. ASSUME NEW q \in Process, NEW k \in 1..Launches, Fresh(q, k)'
       PROVE  at'[<<q, k>>] = None /\ <<q, k>> \notin opening'
  <2>1. at[<<q, k>>] = None /\ <<q, k>> \notin opening
    BY <1>6, <1>10 DEF Arrivals
  <2>2. <<q, k>> = Win(p) => pc[p] # "spawn"
    <3>1. SUFFICES ASSUME q = p, k = round[p], pc[p] = "spawn" PROVE FALSE
      BY <1>1
    <3>2. pc'[p] \in {"show", "back"} /\ UNCHANGED round
      BY <1>2, <3>1 DEF Act, Original, ReserveActive, ReserveCount, HasCapacity, SwitchTo, NoTerminal, Spawn,
                        PlaceVisible, NeverVisible, RepairClients, RepairCount, RepairMove, SwitchBack
    <3>3. QED
      BY <1>2, <1>10, <3>1, <3>2 DEF Fresh
  <2>3. QED
    BY <1>1, <1>2, <1>5, <2>1, <2>2
<1>11. QED
  BY <1>9, <1>10 DEF Arrivals

LEMMA DesktopArrivals == ASSUME Types, Arrivals, Desktop PROVE Arrivals'
<1>1. UNCHANGED <<pc, round>> /\ opening' \subseteq opening
  BY DesktopKeepsLaunches DEF Desktop, Appear, OpenApp, CloseWindow, UserSwitch
<1>2. \A q \in Process, k \in 1..Launches : <<q, k>> \in Window /\ <<q, k>> \notin App
  BY PlacementAssumption DEF Window
<1>3. opening \subseteq Window /\ opening \cap App = {} /\ at \in [Window -> Nat]
  BY PlacementAssumption DEF Types, DesktopTypes, Window
<1>4. \A x \in Window : \/ at'[x] \in {at[x], None}
                        \/ x \in opening /\ x \notin opening'
                        \/ x \in App
  BY <1>3 DEF Desktop, Appear, OpenApp, CloseWindow, UserSwitch
<1>5. \A x \in opening' : at'[x] = None
  BY <1>1, <1>3, <1>4 DEF Arrivals
<1>6. \A q \in Process, k \in 1..Launches : Fresh(q, k)' => Fresh(q, k)
  BY <1>1 DEF Fresh
<1>7. \A q \in Process, k \in 1..Launches : Fresh(q, k) => at'[<<q, k>>] = None /\ <<q, k>> \notin opening'
  BY <1>1, <1>2, <1>4 DEF Arrivals
<1>8. QED
  BY <1>5, <1>6, <1>7 DEF Arrivals

(* A launch of one process, seen by another.                                *)
LEMMA OthersRoom ==
  ASSUME RoomInv, NEW p \in Process, Act(p), NEW q \in Process \ {p}
  PROVE  Rechecked(q)' /\ Room(q)'
<1> USE DEF At, To, world, mine
<1>1. UNCHANGED <<pc[q], round[q], checked[q], target[q], preferred>>
  BY DEF RoomInv, Types, LaunchTypes, Tables, Act, Original, ReserveActive, ReserveCount, HasCapacity, SwitchTo, NoTerminal, Spawn, PlaceVisible,
         NeverVisible, RepairClients, RepairCount, RepairMove, SwitchBack
<1>2. \/ UNCHANGED <<at, opening, opened>>
      \/ UNCHANGED <<at, opening>> /\ opened' = [opened EXCEPT ![p] = {}]
      \/ UNCHANGED <<at, opened>> /\ opening' = opening \cup {Win(p)}
      \/ UNCHANGED opening /\ (\E w : at' = [at EXCEPT ![Win(p)] = w]) /\ Seen(Win(p), Process \ {p})
  BY DEF Act, Original, ReserveActive, ReserveCount, HasCapacity, SwitchTo, NoTerminal, Spawn, PlaceVisible,
         NeverVisible, RepairClients, RepairCount, RepairMove, SwitchBack, Place
<1>3. at \in [Window -> Nat] /\ opened \in [Process -> SUBSET Window] /\ Win(p) # Win(q)
  BY DEF RoomInv, Types, DesktopTypes, LaunchTypes, Tables, Win
<1>4. opened[q] \subseteq opened'[q]
  BY <1>2, <1>3 DEF Seen
<1>5. \A x \in Window : at'[x] \in {at[x], None} \/ x \in opened'[q]
  BY <1>2, <1>3 DEF Seen
<1>6. Win(q) \in opening' => Win(q) \in opening
  BY <1>2, <1>3
<1>7. Rechecked(q) /\ Room(q)
  BY DEF RoomInv
<1>8. CASE ~(pc[q] \in {"clients", "recheck", "move"} \/ checked[q])
  BY <1>1, <1>4, <1>5, <1>7, <1>8, Undisturbed DEF RoomInv
<1>9. CASE pc[q] \in {"clients", "recheck", "move"} \/ checked[q]
  <2>1. Win(q) \in Window
    BY <1>7, <1>9, PlacementAssumption DEF Rechecked, Win, Window, RoomInv, Types, LaunchTypes, Tables, Started
  <2>2. at'[Win(q)] = at[Win(q)]
    BY <1>2, <1>3, <2>1
  <2>3. QED
    BY <1>1, <1>4, <1>5, <1>6, <1>7, <2>2, Undisturbed DEF RoomInv
<1>10. QED
  BY <1>8, <1>9

(* What the user and the compositor do, seen by a launch.                   *)
LEMMA DesktopRoom ==
  ASSUME RoomInv, Desktop, NEW q \in Process
  PROVE  Rechecked(q)' /\ Room(q)'
<1>1. UNCHANGED <<pc[q], round[q], checked[q], target[q], preferred>>
  BY DesktopKeepsLaunches DEF mine
<1>2. at \in [Window -> Nat] /\ opened \in [Process -> SUBSET Window] /\ opening \subseteq Process \X (1..Launches)
      /\ Rechecked(q) /\ Room(q)
  BY DEF RoomInv, Types, DesktopTypes, LaunchTypes, Tables
<1>3. CASE \E x \in Window : CloseWindow(x) \/ (OpenApp(x) /\ x # Win(q))
  <2>1. opened[q] \subseteq opened'[q]
    BY <1>2, <1>3 DEF CloseWindow, OpenApp, Seen
  <2>2. \A x \in Window : at'[x] \in {at[x], None} \/ x \in opened'[q]
    BY <1>2, <1>3 DEF CloseWindow, OpenApp, Seen
  <2>3. opening' = opening /\ (Win(q) \in Window => at'[Win(q)] \in {at[Win(q)], None})
    BY <1>2, <1>3 DEF CloseWindow, OpenApp
  <2>4. pc[q] \in {"clients", "recheck", "move"} \/ checked[q] => Win(q) \in Window
    BY <1>2, PlacementAssumption DEF Rechecked, Win, Window, RoomInv, Types, LaunchTypes, Tables, Started
  <2>5. QED
    BY <1>1, <1>2, <2>1, <2>2, <2>3, <2>4, Undisturbed DEF RoomInv
<1>4. ASSUME NEW x \in Window, OpenApp(x) PROVE x # Win(q) \/ ~(pc[q] \in {"clients", "recheck", "move"} \/ checked[q])
  <2>1. pc[q] \in {"clients", "recheck", "move"} \/ checked[q] => Win(q) \in Process \X (1..Launches)
    BY <1>2, PlacementAssumption DEF Rechecked, Win, RoomInv, Types, LaunchTypes, Tables, Started
  <2>2. QED
    BY <1>4, <2>1, PlacementAssumption DEF OpenApp
<1>5. ASSUME NEW x \in Window, OpenApp(x), ~(pc[q] \in {"clients", "recheck", "move"} \/ checked[q])
      PROVE  Rechecked(q)' /\ Room(q)'
  BY <1>1, <1>5 DEF Rechecked, Room
<1>6. ASSUME NEW x \in Window, Appear(x) PROVE Rechecked(q)' /\ Room(q)'
  <2>1. CASE ~(pc[q] \in {"clients", "recheck", "move"} \/ checked[q])
    BY <1>1, <2>1 DEF Rechecked, Room
  <2>2. CASE pc[q] \in {"clients", "recheck", "move"} \/ checked[q]
    <3>1. x # Win(q) /\ ~At(q, "show")
      BY <1>2, <1>6, <2>2 DEF Rechecked, Appear, At
    <3>2. PICK by \in SUBSET Process : Seen(x, by) /\ q \in by
      BY <1>6, <3>1 DEF Appear, GivenUp
    <3>3. opened[q] \subseteq opened'[q] /\ x \in opened'[q]
      BY <1>2, <3>2 DEF Seen
    <3>4. (\A y \in Window : at'[y] \in {at[y], None} \/ y \in opened'[q]) /\ opening' \subseteq opening
      BY <1>2, <1>6, <3>3 DEF Appear
    <3>5. Win(q) \in Window => at'[Win(q)] = at[Win(q)]
      BY <1>2, <1>6, <3>1 DEF Appear
    <3>6. Win(q) \in Window
      BY <1>2, <2>2, PlacementAssumption DEF Rechecked, Win, Window, RoomInv, Types, LaunchTypes, Tables, Started
    <3>7. QED
      BY <1>1, <1>2, <3>3, <3>4, <3>5, <3>6, Undisturbed DEF RoomInv
  <2>3. QED
    BY <2>1, <2>2
<1>7. ASSUME NEW w \in 1..2, UserSwitch(w) PROVE Rechecked(q)' /\ Room(q)'
  BY <1>1, <1>2, <1>7, Undisturbed DEF UserSwitch, RoomInv
<1>8. QED
  BY <1>3, <1>4, <1>5, <1>6, <1>7 DEF Desktop

(* A step of the launch itself.                                             *)
LEMMA OwnRoom ==
  ASSUME RoomInv, NEW p \in Process, Act(p)
  PROVE  Rechecked(p)' /\ Room(p)'
<1> USE DEF At, To, world, mine
<1>1. /\ pc \in [Process -> Step] /\ round \in [Process -> Nat] /\ target \in [Process -> Nat]
      /\ checked \in [Process -> BOOLEAN] /\ opened \in [Process -> SUBSET Window]
      /\ at \in [Window -> Nat] /\ Started(p) /\ Rechecked(p) /\ Room(p)
  BY DEF RoomInv, Types, DesktopTypes, LaunchTypes, Tables
<1>2. pc[p] # "idle" => Win(p) \in Window /\ round[p] >= 1
  BY WinType DEF RoomInv, Types, LaunchTypes, Started
<1>3. pc[p] \notin {"back", "idle"} => ~checked[p]
  BY <1>1 DEF Rechecked
(* Before the recheck nothing has been counted.                             *)
<1>4. ASSUME ~checked'[p], pc'[p] \notin {"clients", "recheck", "move"} PROVE Rechecked(p)' /\ Room(p)'
  BY <1>4 DEF Rechecked, Room
<1>5. CASE \/ Original(p) \/ ReserveActive(p) \/ ReserveCount(p) \/ HasCapacity(p) \/ SwitchTo(p)
           \/ NoTerminal(p) \/ Spawn(p) \/ NeverVisible(p)
  <2>1. ~checked'[p]
    BY <1>1, <1>3, <1>5 DEF Original, ReserveActive, ReserveCount, HasCapacity, SwitchTo, NoTerminal, Spawn,
                            NeverVisible
  <2>2. pc'[p] \notin {"clients", "recheck", "move"}
    BY <1>1, <1>5 DEF Original, ReserveActive, ReserveCount, HasCapacity, SwitchTo, NoTerminal, Spawn,
                      NeverVisible
  <2>3. QED
    BY <1>4, <2>1, <2>2
<1>6. CASE PlaceVisible(p)
  <2>1. CASE pc'[p] = "back"
    BY <1>1, <1>3, <1>4, <1>6, <2>1 DEF PlaceVisible
  <2>2. CASE pc'[p] # "back"
    <3>1. pc'[p] = "clients" /\ UNCHANGED <<opening, round, checked>> /\ pc[p] = "show" /\ at[Win(p)] # None
      BY <1>1, <1>6, <2>2 DEF PlaceVisible
    <3>2. Win(p) \notin opening
      BY <3>1 DEF RoomInv, Arrivals
    <3>3. QED
      BY <1>2, <1>3, <3>1, <3>2 DEF Rechecked, Room, Win
  <2>3. QED
    BY <2>1, <2>2
<1>7. CASE RepairClients(p)
  <2>1. pc[p] = "clients" /\ UNCHANGED <<at, opening, round, checked>>
    BY <1>7 DEF RepairClients
  <2>2. (pc'[p] = "recheck" /\ target'[p] = at[Win(p)]) \/ pc'[p] = "back"
    BY <1>1, <1>7 DEF RepairClients
  <2>3. QED
    BY <1>1, <1>2, <1>3, <1>4, <2>1, <2>2 DEF Rechecked, Room, Win
<1>8. CASE RepairCount(p)
  <2>1. pc[p] = "recheck" /\ UNCHANGED <<at, opening, round, preferred>> /\ Win(p)' = Win(p)
    BY <1>8 DEF RepairCount, Win
  <2>2. Win(p) \notin opening /\ at[Win(p)] \in {None, target[p]} /\ Limit \in Nat
    BY <1>1, <2>1, PlacementAssumption DEF Rechecked
  <2>3. CASE Windows(target[p]) <= Limit /\ pc'[p] = "back" /\ checked'[p] /\ UNCHANGED target
    <3>1. Rechecked(p)'
      BY <1>2, <2>1, <2>2, <2>3 DEF Rechecked
    <3>2. ASSUME at[Win(p)] # None PROVE Cardinality(Crowd(p, at[Win(p)])') <= Limit
      <4>1. Crowd(p, at[Win(p)])' \subseteq {x \in Window : at[x] = target[p]}
        BY <2>1, <2>2, <3>2 DEF Crowd
      <4>2. QED
        BY <2>2, <2>3, <4>1, Fewer, Counts DEF Windows
    <3>3. QED
      BY <2>1, <2>3, <3>1, <3>2 DEF Room
  <2>4. CASE pc'[p] = "move" /\ Bounded(p, target[p] + 1) /\ target'[p] = OverflowTarget(p, target[p]) /\ UNCHANGED checked
    <3>1. Rechecked(p)'
      BY <1>2, <1>3, <2>1, <2>2, <2>4 DEF Rechecked
    <3>2. target[p] \in Nat
      BY <1>1
    <3>3. ASSUME preferred = <<>> PROVE Cardinality(Crowd(p, target[p])' \ {Win(p)}) < Limit
      <4>1. target'[p] \in Space /\ Load(p, target'[p]) < Limit
        BY <2>4, <3>2, <3>3, OverflowType DEF RoomInv
      <4>2. Windows(target'[p]) <= Load(p, target'[p]) /\ Windows(target'[p]) \in Nat /\ Load(p, target'[p]) \in Nat
        BY <4>1, Loads DEF RoomInv
      <4>3. Crowd(p, target[p])' \ {Win(p)} \subseteq {x \in Window : at[x] = target'[p]}
        BY <2>1 DEF Crowd
      <4>4. QED
        BY <2>2, <4>1, <4>2, <4>3, Fewer, Counts DEF Windows
    <3>4. QED
      BY <1>3, <2>1, <2>4, <3>1, <3>3 DEF Room
  <2>5. CASE pc'[p] = "back" /\ UNCHANGED checked
    BY <1>3, <1>4, <2>1, <2>5
  <2>6. QED
    BY <1>1, <1>8, <2>3, <2>4, <2>5 DEF RepairCount
<1>9. CASE RepairMove(p)
  <2>1. pc[p] = "move" /\ pc'[p] = "back" /\ UNCHANGED <<opening, round, preferred, target>> /\ Win(p)' = Win(p)
    BY <1>1, <1>9 DEF RepairMove, Win
  <2>2. CASE ~checked'[p]
    BY <1>4, <2>1, <2>2
  <2>3. CASE checked'[p]
    <3>1. at' = [at EXCEPT ![Win(p)] = target[p]] /\ opened'[p] = opened[p]
      BY <1>1, <1>9, <2>3 DEF RepairMove, Place, Seen
    <3>2. Rechecked(p)'
      BY <1>1, <2>1, <2>3 DEF Rechecked
    <3>3. at'[Win(p)] = target[p]
      BY <1>1, <1>2, <2>1, <3>1
    <3>4. ASSUME preferred = <<>> PROVE Cardinality(Crowd(p, target[p])') <= Limit
      <4> DEFINE S == Crowd(p, target[p]) \ {Win(p)}
      <4>1. Cardinality(S) < Limit /\ Limit \in Nat
        BY <1>1, <2>1, <3>4, PlacementAssumption DEF Room
      <4>2. S \subseteq Window /\ S \cup {Win(p)} \subseteq Window
        BY <1>2, <2>1 DEF Crowd
      <4>3. Crowd(p, target[p])' \subseteq S \cup {Win(p)}
        BY <1>1, <2>1, <3>1 DEF Crowd
      <4> HIDE DEF S
      <4>4. Cardinality(S) \in Nat /\ Cardinality(S \cup {Win(p)}) \in Nat /\ IsFiniteSet(S)
        BY <4>2, Counts
      <4>5. Cardinality(S \cup {Win(p)}) <= Cardinality(S) + 1
        BY <4>4, FS_AddElement
      <4>6. Cardinality(Crowd(p, target[p])') <= Cardinality(S \cup {Win(p)})
        BY <4>2, <4>3, Fewer
      <4>7. Cardinality(Crowd(p, target[p])') \in Nat
        BY <4>2, <4>3, Counts
      <4>8. QED
        BY <4>1, <4>4, <4>5, <4>6, <4>7
    <3>5. preferred = <<>> => Cardinality(Crowd(p, at[Win(p)]))' <= Limit
      BY <2>1, <3>3, <3>4
    <3>6. QED
      BY <2>1, <3>2, <3>5 DEF Room
  <2>4. QED
    BY <2>2, <2>3
<1>10. CASE SwitchBack(p)
  <2>1. UNCHANGED <<at, opening, preferred, round, target, checked, opened>> /\ pc[p] = "back" /\ pc'[p] = "idle"
    BY <1>1, <1>10 DEF SwitchBack
  <2>2. Win(p)' = Win(p)
    BY <2>1 DEF Win
  <2>3. QED
    BY <1>1, <2>1, <2>2 DEF Rechecked, Room, Crowd
<1>11. QED
  BY <1>5, <1>6, <1>7, <1>8, <1>9, <1>10 DEF Act

LEMMA RoomStep == RoomInv /\ [Next]_vars => RoomInv'
<1> SUFFICES ASSUME RoomInv, [Next]_vars PROVE RoomInv'
  OBVIOUS
<1>1. Types'
  BY TypesStep DEF RoomInv
<1>2. CASE \E p \in Process : Act(p)
  <2>1. PICK p \in Process : Act(p)
    BY <1>2
  <2>2. \A q \in Process : Rechecked(q)' /\ Room(q)'
    BY <2>1, OwnRoom, OthersRoom
  <2>3. QED
    BY <1>1, <2>1, <2>2, ActArrivals DEF RoomInv
<1>3. CASE Desktop
  BY <1>1, <1>3, DesktopArrivals, DesktopRoom DEF RoomInv
<1>4. CASE UNCHANGED vars
  <2>1. Arrivals'
    BY <1>4 DEF RoomInv, Arrivals, Fresh, vars
  <2>2. \A q \in Process : Rechecked(q)' /\ Room(q)'
    BY <1>4 DEF RoomInv, Rechecked, Room, Crowd, Win, vars
  <2>3. QED
    BY <1>1, <2>1, <2>2 DEF RoomInv
<1>5. QED
  BY <1>2, <1>3, <1>4, NextParts

(* Without a list, the workspace of a window that was rechecked holds no    *)
(* more than Limit windows, but for those that came after the recheck       *)
(* (WorkspaceManager.repair_overflow and reserve).                          *)
THEOREM WindowsFit == Spec => []LaunchFits
<1>1. Init => RoomInv
  <2> SUFFICES ASSUME Init PROVE RoomInv
    OBVIOUS
  <2>1. Arrivals
    <3>1. \A p \in Process, k \in 1..Launches : <<p, k>> \in Window /\ <<p, k>> \notin App
      BY PlacementAssumption DEF Window
    <3>2. QED
      BY <3>1 DEF Init, Arrivals
  <2>2. \A p \in Process : Rechecked(p) /\ Room(p)
    BY DEF Init, Rechecked, Room
  <2>3. QED
    BY <2>1, <2>2, TypesStart DEF RoomInv
<1>2. RoomInv => LaunchFits
  BY DEF RoomInv, Room, Crowd, LaunchFits
<1>3. QED
  BY <1>1, <1>2, RoomStep, PTL DEF Spec

-----------------------------------------------------------------------------
(* The reservations.                                                        *)

Heap(h) == UNION {{w} \X (1..h[w]) : w \in Space}

LEMMA HeapType ==
  ASSUME NEW h \in [Space -> Nat]
  PROVE  /\ IsFiniteSet(Heap(h)) /\ Cardinality(Heap(h)) \in Nat
         /\ \A w, k : <<w, k>> \in Heap(h) <=> w \in Space /\ k \in 1..h[w]
         /\ \A x \in Heap(h) : x = <<x[1], x[2]>>
<1>1. \A w \in Space : IsFiniteSet({w} \X (1..h[w]))
  <2> TAKE w \in Space
  <2>1. IsFiniteSet(1..h[w])
    BY FS_Interval
  <2>2. IsFiniteSet({w})
    BY FS_Singleton
  <2>3. QED
    BY <2>1, <2>2, FS_Product
<1>2. IsFiniteSet(Space)
  BY PlacementAssumption, FS_Interval DEF Space
<1> DEFINE Piles == {{w} \X (1..h[w]) : w \in Space}
<1>3. IsFiniteSet(Piles)
  <2> DEFINE f == [w \in Space |-> {w} \X (1..h[w])]
  <2>1. f \in Surjection(Space, Piles)
    BY DEF Surjection
  <2> HIDE DEF f, Piles
  <2>2. QED
    BY <1>2, <2>1, FS_Surjection
<1>4. IsFiniteSet(UNION Piles)
  <2>1. \A T \in Piles : IsFiniteSet(T)
    BY <1>1
  <2> HIDE DEF Piles
  <2>2. QED
    BY <1>3, <2>1, FS_UNION
<1>5. IsFiniteSet(Heap(h)) /\ Cardinality(Heap(h)) \in Nat
  BY <1>4, FS_CardinalityType DEF Heap
<1>6. \A w, k : <<w, k>> \in Heap(h) <=> w \in Space /\ k \in 1..h[w]
  BY DEF Heap
<1>7. \A x \in Heap(h) : x = <<x[1], x[2]>>
  BY DEF Heap
<1>8. QED
  BY <1>5, <1>6, <1>7

LEMMA HeapUp ==
  ASSUME NEW h \in [Space -> Nat], NEW w \in Space, NEW g \in [Space -> Nat],
         g[w] = h[w] + 1, \A v \in Space \ {w} : g[v] = h[v]
  PROVE  Cardinality(Heap(g)) = Cardinality(Heap(h)) + 1
<1> DEFINE x == <<w, h[w] + 1>>
<1>1. x \notin Heap(h)
  BY HeapType
<1>2. \A v, k : <<v, k>> \in Heap(g) <=> <<v, k>> \in Heap(h) \/ <<v, k>> = x
  <2> TAKE v, k
  <2>1. <<v, k>> \in Heap(g) <=> v \in Space /\ k \in 1..g[v]
    BY HeapType
  <2>2. <<v, k>> \in Heap(h) <=> v \in Space /\ k \in 1..h[v]
    BY HeapType
  <2>3. CASE v = w
    BY <2>1, <2>2, <2>3
  <2>4. CASE v # w
    BY <2>1, <2>2, <2>4
  <2>5. QED
    BY <2>3, <2>4
<1>3. Heap(g) = Heap(h) \cup {x}
  <2>1. \A y \in Heap(g) : y = <<y[1], y[2]>>
    BY HeapType
  <2>2. \A y \in Heap(h) : y = <<y[1], y[2]>>
    BY HeapType
  <2>3. \A y \in Heap(g) : y \in Heap(h) \cup {x}
    BY <1>2, <2>1
  <2>4. \A y \in Heap(h) : y \in Heap(g)
    BY <1>2, <2>2
  <2>5. x \in Heap(g)
    BY <1>2
  <2>6. QED
    BY <2>3, <2>4, <2>5
<1>4. IsFiniteSet(Heap(h))
  BY HeapType
<1> HIDE DEF x
<1>5. QED
  BY <1>1, <1>3, <1>4, FS_AddElement

LEMMA ReserveCounts ==
  ASSUME held \in [Process -> [Space -> Nat]], NEW p \in Process, NEW w \in Space, held' = Reserved(p, w)
  PROVE  /\ Cardinality(Reservations(p)') = Cardinality(Reservations(p)) + 1
         /\ held'[p][w] >= 1
<1>1. held'[p] \in [Space -> Nat] /\ held'[p][w] = held[p][w] + 1 /\ \A v \in Space \ {w} : held'[p][v] = held[p][v]
  BY DEF Reserved
<1>2. Reservations(p) = Heap(held[p]) /\ Reservations(p)' = Heap(held'[p])
  BY DEF Reservations, Heap
<1>3. held[p] \in [Space -> Nat]
  OBVIOUS
<1>4. Cardinality(Heap(held'[p])) = Cardinality(Heap(held[p])) + 1
  BY <1>1, <1>3, HeapUp
<1>5. QED
  BY <1>1, <1>2, <1>3, <1>4

LEMMA ReleaseCounts ==
  ASSUME held \in [Process -> [Space -> Nat]], NEW p \in Process, NEW w \in Space, held' = Released(p, w)
  PROVE  IF held[p][w] >= 1 THEN Cardinality(Reservations(p)) = Cardinality(Reservations(p)') + 1
         ELSE Cardinality(Reservations(p)') = Cardinality(Reservations(p))
<1>1. held[p][w] \in Nat /\ w # None
  BY PlacementAssumption DEF Space, None
<1>2. Reservations(p) = Heap(held[p]) /\ Reservations(p)' = Heap(held'[p])
  BY DEF Reservations, Heap
<1>3. CASE held[p][w] = 0
  BY <1>1, <1>2, <1>3 DEF Released
<1>4. CASE held[p][w] # 0
  <2>1. held' = [held EXCEPT ![p][w] = @ - 1]
    BY <1>1, <1>4 DEF Released
  <2>2. held'[p][w] = held[p][w] - 1 /\ \A v \in Space \ {w} : held[p][v] = held'[p][v]
    BY <2>1
  <2>a. held[p][w] = held'[p][w] + 1 /\ held'[p][w] \in Nat
    BY <1>1, <1>4, <2>2
  <2>3. held'[p] \in [Space -> Nat] /\ held[p] \in [Space -> Nat]
    BY <2>1, <2>a
  <2>4. Cardinality(Heap(held[p])) = Cardinality(Heap(held'[p])) + 1
    BY <2>2, <2>a, <2>3, HeapUp
  <2>5. QED
    BY <1>1, <1>2, <1>4, <2>4
<1>5. QED
  BY <1>3, <1>4

(* Until its window is placed a launch keeps one reservation, of ws, and it *)
(* has none when ws is None; the recheck's is the one of target.            *)
Choosing == {"room", "switch", "spawn", "show"}

Kept(p, n) ==
  /\ pc[p] \notin Choosing \cup {"move"} => n <= placed[p]
  /\ pc[p] \in Choosing => IF ws[p] = None THEN n <= placed[p]
                           ELSE n <= placed[p] + 1 /\ held[p][ws[p]] >= 1
  /\ pc[p] = "move" => n <= placed[p] + 1 /\ held[p][target[p]] >= 1

KeptInv == Types /\ \A p \in Process : Kept(p, Cardinality(Reservations(p)))

LEMMA OneLess == ASSUME NEW a \in Nat, NEW b \in Nat, NEW c \in Nat, a + 1 = b, b <= c + 1 PROVE a <= c
OBVIOUS

LEMMA OwnKept ==
  ASSUME KeptInv, Types', NEW p \in Process, Act(p)
  PROVE  Kept(p, Cardinality(Reservations(p)))'
<1> USE DEF At, To, world, mine
<1> DEFINE n == Cardinality(Reservations(p))
<1>1. /\ pc \in [Process -> Step] /\ placed \in [Process -> Nat] /\ target \in [Process -> Nat]
      /\ ws \in [Process -> Nat] /\ Started(p) /\ Kept(p, n) /\ Types
  BY DEF KeptInv, Types, LaunchTypes, Tables
<1>2. n \in Nat /\ n' \in Nat
  <2>1. held[p] \in [Space -> Nat] /\ held'[p] \in [Space -> Nat]
    BY DEF KeptInv, Types, LaunchTypes, Tables
  <2>2. Reservations(p) = Heap(held[p]) /\ Reservations(p)' = Heap(held'[p])
    BY DEF Reservations, Heap
  <2>3. QED
    BY <2>1, <2>2, HeapType
<1>3. UNCHANGED held => n' = n
  BY DEF Reservations
<1>4. ASSUME NEW w \in Space, held' = Reserved(p, w) PROVE n' = n + 1 /\ held'[p][w] >= 1
  BY <1>1, <1>4, ReserveCounts DEF Types, LaunchTypes, Tables
<1>5. ASSUME NEW w \in Space, held' = Released(p, w) PROVE n' <= n /\ (held[p][w] >= 1 => n' + 1 = n)
  BY <1>1, <1>2, <1>5, ReleaseCounts DEF Types, LaunchTypes, Tables
<1>6. held' = Released(p, None) => n' = n
  BY <1>3 DEF Released
<1>a. None = 0 /\ Space \subseteq Nat \ {0}
  BY PlacementAssumption DEF None, Space
<1>d. placed[p] \in Nat
  BY <1>1
<1>b. pc[p] = "count" \/ ws[p] = None \/ ws[p] \in Space
  BY <1>1 DEF Started
<1>c. ASSUME pc[p] # "count", held' = Released(p, ws[p])
      PROVE  n' <= n /\ (ws[p] # None /\ held[p][ws[p]] >= 1 => n' + 1 = n)
  <2>1. CASE ws[p] = None
    BY <1>2, <1>6, <1>c, <2>1
  <2>2. CASE ws[p] \in Space
    BY <1>5, <1>c, <2>2
  <2>3. QED
    BY <1>b, <1>c, <2>1, <2>2
<1> HIDE DEF n
<1>7. CASE Original(p)
  <2>1. Kept(p, n)'
    BY <1>1, <1>2, <1>3, <1>4, <1>5, <1>6, <1>7 DEF Original, Kept, Choosing, Started
  <2>2. QED
    BY <2>1 DEF n
<1>8. CASE ReserveActive(p)
  <2>1. Kept(p, n)'
    BY <1>1, <1>2, <1>3, <1>4, <1>5, <1>6, <1>8 DEF ReserveActive, Kept, Choosing, Started
  <2>2. QED
    BY <2>1 DEF n
<1>9. CASE ReserveCount(p)
  <2>1. Kept(p, n)'
    <3>1. CASE \E w \in Space : /\ ws' = [ws EXCEPT ![p] = w] /\ held' = Reserved(p, w)
                               /\ pc[p] = "count" /\ pc'[p] \in {"room", "switch"} /\ UNCHANGED placed
      <4>1. PICK w \in Space : /\ ws' = [ws EXCEPT ![p] = w] /\ held' = Reserved(p, w)
                               /\ pc[p] = "count" /\ pc'[p] \in {"room", "switch"} /\ UNCHANGED placed
        BY <3>1
      <4>2. n' = n + 1 /\ held'[p][w] >= 1 /\ ws'[p] = w /\ w # None
        BY <1>1, <1>4, <1>a, <4>1
      <4>3. n <= placed[p]
        BY <1>1, <4>1 DEF Kept, Choosing
      <4>4. QED
        BY <1>1, <1>2, <4>1, <4>2, <4>3 DEF Kept, Choosing
    <3>2. CASE ws' = [ws EXCEPT ![p] = None] /\ UNCHANGED held /\ pc'[p] = "switch" /\ pc[p] = "count" /\ UNCHANGED placed
      BY <1>1, <1>2, <1>3, <3>2 DEF Kept, Choosing
    <3>3. Bounded(p, ws[p]) => Reservable(p, ws[p]) \in Space
      BY <1>1, ReservableType
    <3>4. QED
      BY <1>1, <1>9, <3>1, <3>2, <3>3 DEF ReserveCount
  <2>2. QED
    BY <2>1 DEF n
<1>10. CASE HasCapacity(p)
  <2>1. Kept(p, n)'
    <3>1. CASE UNCHANGED <<held, ws, placed>> /\ pc[p] = "room" /\ pc'[p] = "switch"
      BY <1>1, <1>2, <1>3, <3>1 DEF Kept, Choosing
    <3>2. CASE /\ held' = Released(p, ws[p]) /\ ws' = [ws EXCEPT ![p] = None] /\ UNCHANGED placed
               /\ pc[p] = "room" /\ pc'[p] \in {"switch", "active"}
      <4>1. n' <= placed[p] /\ ws'[p] = None
        BY <1>1, <1>2, <1>c, <3>2 DEF Kept, Choosing
      <4>2. QED
        BY <1>1, <1>2, <3>2, <4>1 DEF Kept, Choosing
    <3>3. QED
      BY <1>1, <1>10, <3>1, <3>2 DEF HasCapacity
  <2>2. QED
    BY <2>1 DEF n
<1>11. CASE SwitchTo(p)
  <2>1. Kept(p, n)'
    BY <1>1, <1>2, <1>3, <1>4, <1>5, <1>6, <1>11 DEF SwitchTo, Kept, Choosing, Started
  <2>2. QED
    BY <2>1 DEF n
<1>12. CASE NoTerminal(p)
  <2>1. Kept(p, n)'
    <3>1. held' = Released(p, ws[p]) /\ pc[p] \in {"spawn", "show"} /\ pc'[p] = "back" /\ UNCHANGED placed
      BY <1>1, <1>12 DEF NoTerminal
    <3>2. IF ws[p] = None THEN n <= placed[p] ELSE n <= placed[p] + 1 /\ held[p][ws[p]] >= 1
      BY <1>1, <3>1 DEF Kept, Choosing
    <3>3. n' <= n /\ (ws[p] # None => n' + 1 = n)
      BY <1>c, <3>1, <3>2
    <3>4. n' <= placed[p]
      <4>1. CASE ws[p] = None
        BY <1>2, <1>d, <3>2, <3>3, <4>1
      <4>2. CASE ws[p] # None
        <5>1. n' + 1 = n /\ n <= placed[p] + 1
          BY <3>2, <3>3, <4>2
        <5>2. QED
          BY <1>2, <1>d, <5>1, OneLess
      <4>3. QED
        BY <4>1, <4>2
    <3>5. n' <= placed'[p] /\ pc'[p] \notin Choosing \cup {"move"}
      BY <3>1, <3>4 DEF Choosing
    <3>6. QED
      BY <3>5 DEF Kept
  <2>2. QED
    BY <2>1 DEF n
<1>13. CASE Spawn(p)
  <2>1. Kept(p, n)'
    BY <1>1, <1>2, <1>3, <1>4, <1>5, <1>6, <1>13 DEF Spawn, Kept, Choosing, Started
  <2>2. QED
    BY <2>1 DEF n
<1>14. CASE PlaceVisible(p)
  <2>1. Kept(p, n)'
    <3>1. pc[p] = "show" /\ ws[p] # None /\ pc'[p] \in {"clients", "back"}
      BY <1>1, <1>14 DEF PlaceVisible
    <3>2. n <= placed[p] + 1 /\ held[p][ws[p]] >= 1
      BY <1>1, <3>1 DEF Kept, Choosing
    <3>3. CASE UNCHANGED held /\ placed'[p] = placed[p] + 1
      BY <1>1, <1>3, <3>1, <3>2, <3>3 DEF Kept, Choosing
    <3>4. CASE held' = Released(p, ws[p]) /\ UNCHANGED placed
      <4>1. n' + 1 = n
        BY <1>c, <3>1, <3>2, <3>4
      <4>2. n' <= placed[p]
        BY <1>2, <1>d, <3>2, <4>1, OneLess
      <4>3. QED
        BY <3>1, <3>4, <4>2 DEF Kept, Choosing
    <3>5. QED
      BY <1>1, <1>14, <3>3, <3>4 DEF PlaceVisible
  <2>2. QED
    BY <2>1 DEF n
<1>15. CASE NeverVisible(p)
  <2>1. Kept(p, n)'
    <3>1. held' = Released(p, ws[p]) /\ pc[p] \in {"spawn", "show"} /\ pc'[p] = "back" /\ UNCHANGED placed
      BY <1>1, <1>15 DEF NeverVisible
    <3>2. IF ws[p] = None THEN n <= placed[p] ELSE n <= placed[p] + 1 /\ held[p][ws[p]] >= 1
      BY <1>1, <3>1 DEF Kept, Choosing
    <3>3. n' <= n /\ (ws[p] # None => n' + 1 = n)
      BY <1>c, <3>1, <3>2
    <3>4. n' <= placed[p]
      <4>1. CASE ws[p] = None
        BY <1>2, <1>d, <3>2, <3>3, <4>1
      <4>2. CASE ws[p] # None
        <5>1. n' + 1 = n /\ n <= placed[p] + 1
          BY <3>2, <3>3, <4>2
        <5>2. QED
          BY <1>2, <1>d, <5>1, OneLess
      <4>3. QED
        BY <4>1, <4>2
    <3>5. n' <= placed'[p] /\ pc'[p] \notin Choosing \cup {"move"}
      BY <3>1, <3>4 DEF Choosing
    <3>6. QED
      BY <3>5 DEF Kept
  <2>2. QED
    BY <2>1 DEF n
<1>16. CASE RepairClients(p)
  <2>1. Kept(p, n)'
    BY <1>1, <1>2, <1>3, <1>4, <1>5, <1>6, <1>16 DEF RepairClients, Kept, Choosing, Started
  <2>2. QED
    BY <2>1 DEF n
<1>17. CASE RepairCount(p)
  <2>1. Kept(p, n)'
    <3>1. CASE UNCHANGED <<held, placed>> /\ pc[p] = "recheck" /\ pc'[p] = "back"
      BY <1>1, <1>2, <1>3, <3>1 DEF Kept, Choosing
    <3>2. CASE \E w \in Space : /\ target' = [target EXCEPT ![p] = w] /\ held' = Reserved(p, w)
                               /\ pc[p] = "recheck" /\ pc'[p] = "move" /\ UNCHANGED placed
      <4>1. PICK w \in Space : /\ target' = [target EXCEPT ![p] = w] /\ held' = Reserved(p, w)
                               /\ pc[p] = "recheck" /\ pc'[p] = "move" /\ UNCHANGED placed
        BY <3>2
      <4>2. n' = n + 1 /\ held'[p][w] >= 1 /\ target'[p] = w
        BY <1>1, <1>4, <4>1
      <4>3. QED
        BY <1>1, <1>2, <4>1, <4>2 DEF Kept, Choosing
    <3>3. Bounded(p, target[p] + 1) => OverflowTarget(p, target[p]) \in Space
      BY <1>1, OverflowType
    <3>4. QED
      BY <1>1, <1>17, <3>1, <3>2, <3>3 DEF RepairCount
  <2>2. QED
    BY <2>1 DEF n
<1>18. CASE RepairMove(p)
  <2>1. Kept(p, n)'
    <3>1. held' = Released(p, target[p]) /\ pc[p] = "move" /\ pc'[p] = "back" /\ UNCHANGED placed
      BY <1>1, <1>18 DEF RepairMove
    <3>2. target[p] \in Space /\ held[p][target[p]] >= 1 /\ n <= placed[p] + 1
      BY <1>1, <3>1 DEF Kept, Choosing, Started
    <3>3. n' + 1 = n
      BY <1>5, <3>1, <3>2
    <3>4. n' <= placed[p]
      BY <1>2, <1>d, <3>2, <3>3
    <3>5. n' <= placed'[p] /\ pc'[p] \notin Choosing \cup {"move"}
      BY <3>1, <3>4 DEF Choosing
    <3>6. QED
      BY <3>5 DEF Kept
  <2>2. QED
    BY <2>1 DEF n
<1>19. CASE SwitchBack(p)
  <2>1. Kept(p, n)'
    BY <1>1, <1>2, <1>3, <1>4, <1>5, <1>6, <1>19 DEF SwitchBack, Kept, Choosing, Started
  <2>2. QED
    BY <2>1 DEF n
<1>20. QED
  BY <1>7, <1>8, <1>9, <1>10, <1>11, <1>12, <1>13, <1>14, <1>15, <1>16, <1>17, <1>18, <1>19 DEF Act

LEMMA ActIsMine ==
  ASSUME Types, NEW p \in Process, Act(p), NEW q \in Process \ {p}
  PROVE  UNCHANGED <<held[q], pc[q], placed[q], ws[q], target[q]>>
<1> USE DEF At, To, world, mine, Types, LaunchTypes, Tables
<1>1. UNCHANGED <<pc[q], placed[q], ws[q], target[q]>>
  BY DEF Act, Original, ReserveActive, ReserveCount, HasCapacity, SwitchTo, NoTerminal, Spawn, PlaceVisible,
         NeverVisible, RepairClients, RepairCount, RepairMove, SwitchBack
<1>2. held' = held \/ \E w : held' \in {Reserved(p, w), Released(p, w)}
  BY DEF Act, Original, ReserveActive, ReserveCount, HasCapacity, SwitchTo, NoTerminal, Spawn, PlaceVisible,
         NeverVisible, RepairClients, RepairCount, RepairMove, SwitchBack
<1>3. ASSUME NEW w, held' = Released(p, w) PROVE held'[q] = held[q]
  BY <1>3 DEF Released
<1>4. ASSUME NEW w, held' = Reserved(p, w) PROVE held'[q] = held[q]
  BY <1>4 DEF Reserved
<1>5. QED
  BY <1>1, <1>2, <1>3, <1>4

LEMMA StillKept ==
  ASSUME NEW q \in Process, Kept(q, Cardinality(Reservations(q))),
         UNCHANGED <<held[q], pc[q], placed[q], ws[q], target[q]>>
  PROVE  Kept(q, Cardinality(Reservations(q)))'
<1>1. Reservations(q)' = Reservations(q)
  BY DEF Reservations
<1>2. QED
  BY <1>1 DEF Kept, Choosing

LEMMA KeptStep == KeptInv /\ [Next]_vars => KeptInv'
<1> SUFFICES ASSUME KeptInv, [Next]_vars PROVE KeptInv'
  OBVIOUS
<1>1. Types'
  BY TypesStep DEF KeptInv
<1>2. CASE \E p \in Process : Act(p)
  <2>1. PICK p \in Process : Act(p)
    BY <1>2
  <2>2. Kept(p, Cardinality(Reservations(p)))'
    BY <1>1, <2>1, OwnKept
  <2>3. \A q \in Process \ {p} : Kept(q, Cardinality(Reservations(q)))'
    BY <2>1, ActIsMine, StillKept DEF KeptInv
  <2>4. QED
    BY <1>1, <2>2, <2>3 DEF KeptInv
<1>3. CASE UNCHANGED <<held, pc, placed, ws, target>>
  BY <1>1, <1>3, StillKept DEF KeptInv
<1>4. Desktop \/ UNCHANGED vars => UNCHANGED <<held, pc, placed, ws, target>>
  BY DesktopKeepsLaunches DEF vars, mine
<1>5. QED
  BY <1>2, <1>3, <1>4, NextParts

(* reserve(), release() and repair_overflow() leave a reservation behind    *)
(* only for a window that was placed, whatever failed.                      *)
THEOREM NoLeak == Spec => []OneReservationEach
<1>1. Init => KeptInv
  <2> SUFFICES ASSUME Init PROVE KeptInv
    OBVIOUS
  <2>1. ASSUME NEW p \in Process PROVE Kept(p, Cardinality(Reservations(p)))
    <3>1. \A w \in Space : 1..held[p][w] = {}
      BY <2>1 DEF Init
    <3>2. Reservations(p) = {}
      BY <3>1 DEF Reservations
    <3>3. Cardinality(Reservations(p)) = 0
      BY <3>2, FS_EmptySet
    <3>4. QED
      BY <2>1, <3>3 DEF Init, Kept, Choosing
  <2>2. QED
    BY <2>1, TypesStart DEF KeptInv
<1>2. KeptInv => OneReservationEach
  <2> SUFFICES ASSUME KeptInv, NEW p \in Process
               PROVE  Cardinality(Reservations(p)) <= placed[p] +
                        IF pc[p] = "move" \/ (pc[p] \in {"room", "switch", "spawn", "show"} /\ ws[p] # None)
                        THEN 1 ELSE 0
    BY DEF OneReservationEach
  <2>1. Kept(p, Cardinality(Reservations(p))) /\ placed[p] \in Nat
    BY DEF KeptInv, Types, LaunchTypes, Tables
  <2>2. QED
    BY <2>1 DEF Kept, Choosing
<1>3. QED
  BY <1>1, <1>2, KeptStep, PTL DEF Spec
=============================================================================
