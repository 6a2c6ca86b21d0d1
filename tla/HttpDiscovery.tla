---------------------------- MODULE HttpDiscovery --------------------------
(***************************************************************************)
(* The HTTP module of the service workers (modules/http/module.py): one    *)
(* request for the base page, ffuf over the words for directories and for  *)
(* files, the resources saved, then ffuf over the words for virtual hosts  *)
(* of a known domain.  Every worker copies the virtual-host list to the     *)
(* same path of the scan before ffuf reads it from there.  A word stands    *)
(* for the part of the list that one write of bounded_copy() carries.       *)
(* Definitions named Fault... are plausible bugs that no action uses.       *)
(***************************************************************************)
EXTENDS Naturals

CONSTANTS Worker,     \* the HTTP workers of the scan
          Words,      \* the words of each list are 1 .. Words
          Served,     \* the words that name a virtual host of the target
          Paths       \* the words that name a path of the target

ASSUME HttpAssumption ==
  Words \in Nat /\ Served \subseteq 1 .. Words /\ Paths \subseteq 1 .. Words

Word == 1 .. Words

VARIABLES stage,       \* where run() of each worker is
          children,    \* the paths ffuf reported to each worker
          kept,        \* those among them that a stage had reported and finished
          resources,   \* what a worker wrote to its resources
          list,        \* the words in metadata/http-vhosts-active.txt
          left,        \* how many words a worker has yet to write to it
          candidates,  \* of _enumerate_vhosts()
          tried,       \* the words the virtual-host ffuf of a worker read
          vhosts       \* the virtual hosts a worker added to its context

httpVars == <<stage, children, kept, resources, list, left, candidates, tried, vhosts>>

Nothing == [w \in Worker |-> {}]

HttpInit ==
  /\ stage = [w \in Worker |-> "base"] /\ left = [w \in Worker |-> 0] /\ list = {}
  /\ children = Nothing /\ kept = Nothing /\ resources = Nothing /\ candidates = Nothing
  /\ tried = Nothing /\ vhosts = Nothing

Goes(w, from, to) == stage[w] = from /\ stage' = [stage EXCEPT ![w] = to]

-----------------------------------------------------------------------------
(* No answer ends the module; a refused page is not searched for paths.     *)
Base(w) ==
  /\ \E to \in {"done", "fuzz", "save"} : Goes(w, "base", to)
  /\ UNCHANGED <<children, kept, resources, list, left, candidates, tried, vhosts>>

(* _fuzz_directory() without ffuf, without words, or with an ffuf that      *)
(* timed out: no children.                                                  *)
FuzzNothing(w) ==
  /\ Goes(w, "fuzz", "save")
  /\ UNCHANGED <<children, kept, resources, list, left, candidates, tried, vhosts>>

Fuzz(w) ==
  /\ \E to \in {"files", "save"} : Goes(w, "fuzz", to)
  /\ \E hits \in SUBSET Paths :
       children' = [children EXCEPT ![w] = hits] /\ kept' = [kept EXCEPT ![w] = hits]
  /\ UNCHANGED <<resources, list, left, candidates, tried, vhosts>>

FaultFuzzFiles(w) ==
  /\ Goes(w, "files", "save")
  /\ children' = [children EXCEPT ![w] = {}]
  /\ UNCHANGED <<kept, resources, list, left, candidates, tried, vhosts>>

(* The list of files: what a timeout loses is its own results alone.        *)
FuzzFiles(w) ==
  /\ Goes(w, "files", "save")
  /\ \E hits \in SUBSET Paths : /\ children' = [children EXCEPT ![w] = @ \cup hits]
                                /\ kept' = [kept EXCEPT ![w] = @ \cup hits]
  /\ UNCHANGED <<resources, list, left, candidates, tried, vhosts>>

(* http-resources.json; without a known domain the module ends here.        *)
Save(w) ==
  /\ \E to \in {"list", "done"} : Goes(w, "save", to)
  /\ resources' = [resources EXCEPT ![w] = children[w]]
  /\ UNCHANGED <<children, kept, list, left, candidates, tried, vhosts>>

-----------------------------------------------------------------------------
(* bounded_copy() opens the shared list for writing.                        *)
Truncate(w) ==
  /\ Goes(w, "list", IF Words = 0 THEN "read" ELSE "copy") /\ list' = {} /\ left' = [left EXCEPT ![w] = Words]
  /\ UNCHANGED <<children, kept, resources, candidates, tried, vhosts>>

FaultCopy(w) ==
  /\ stage[w] = "copy" /\ list' = list \cup {Words - left[w] + 1}
  /\ left' = [left EXCEPT ![w] = IF @ > 2 THEN @ - 1 ELSE 0]
  /\ stage' = [stage EXCEPT ![w] = IF left'[w] = 0 THEN "read" ELSE "copy"]
  /\ UNCHANGED <<children, kept, resources, candidates, tried, vhosts>>

(* A write of bounded_copy(), at the offset of the worker's own descriptor. *)
Copy(w) ==
  /\ stage[w] = "copy" /\ list' = list \cup {Words - left[w] + 1}
  /\ left' = [left EXCEPT ![w] = @ - 1]
  /\ stage' = [stage EXCEPT ![w] = IF left'[w] = 0 THEN "read" ELSE "copy"]
  /\ UNCHANGED <<children, kept, resources, candidates, tried, vhosts>>

(* The list as it is now; without ffuf there are no candidates.             *)
ReadBack(w) ==
  /\ \/ Goes(w, "read", "vhosts") /\ candidates' = [candidates EXCEPT ![w] = list]
     \/ Goes(w, "read", "record") /\ candidates' = [candidates EXCEPT ![w] = {}]
  /\ UNCHANGED <<children, kept, resources, list, left, tried, vhosts>>

(* ffuf starts, and reads the list from the shared path.                    *)
StartFfuf(w) ==
  /\ Goes(w, "vhosts", "fuzzing") /\ tried' = [tried EXCEPT ![w] = list]
  /\ UNCHANGED <<children, kept, resources, list, left, candidates, vhosts>>

(* ffuf ends.  Its report replaces the candidates when it ended well; when  *)
(* it did not, they remain the words of the list, and RecordHosts records   *)
(* every one of them.                                                       *)
EndFfuf(w) ==
  /\ Goes(w, "fuzzing", "record")
  /\ \/ \E hits \in SUBSET (tried[w] \cap Served) : candidates' = [candidates EXCEPT ![w] = hits]
     \/ UNCHANGED candidates
  /\ UNCHANGED <<children, kept, resources, list, left, tried, vhosts>>

(* Every candidate becomes a hostname of the context, with ffuf as source.  *)
RecordHosts(w) ==
  /\ Goes(w, "record", "done") /\ vhosts' = [vhosts EXCEPT ![w] = candidates[w]]
  /\ UNCHANGED <<children, kept, resources, list, left, candidates, tried>>

(* Ctrl-C, or the worker's timeout: KeyboardInterrupt out of run().         *)
Interrupt(w) ==
  /\ stage[w] # "done" /\ stage' = [stage EXCEPT ![w] = "done"]
  /\ UNCHANGED <<children, kept, resources, list, left, candidates, tried, vhosts>>

HttpNext ==
  \E w \in Worker :
    \/ Base(w) \/ FuzzNothing(w) \/ Fuzz(w) \/ FuzzFiles(w) \/ Save(w)
    \/ Truncate(w) \/ Copy(w) \/ ReadBack(w) \/ StartFfuf(w) \/ EndFfuf(w)
    \/ RecordHosts(w) \/ Interrupt(w)

HttpSpec == HttpInit /\ [][HttpNext]_httpVars

-----------------------------------------------------------------------------
(* ffuf is given the whole list, unless a worker is in the middle of its    *)
(* copy to the same path, or was stopped there.                             *)
WholeListTried ==
  (\A w \in Worker : left[w] = 0) => \A w \in Worker : stage[w] = "vhosts" => list = Word

(* What a stage of path discovery found is saved, whatever the stage after  *)
(* it ends in.                                                              *)
PathsKept ==
  \A w \in Worker : stage[w] \notin {"base", "fuzz", "files", "save", "done"} =>
                      kept[w] \subseteq resources[w]

=============================================================================
