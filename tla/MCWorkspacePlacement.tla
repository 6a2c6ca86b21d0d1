------------------------ MODULE MCWorkspacePlacement ------------------------
(* Workspace lists for the runs of WorkspacePlacement.                      *)
EXTENDS WorkspacePlacement

CONSTANTS main, worker

NoneOrTwo == {<<>>, <<2, 1>>}

(* One process that launches twice, or two that launch once.                *)
Twice == [p \in {main, worker} |-> IF p = main THEN 2 ELSE 0]
OneOrTwo == {[launches |-> Twice, mood |-> m] : m \in {"calm", "rough"}}
            \cup {[launches |-> [p \in {main, worker} |-> 1], mood |-> "busy"]}
=============================================================================
