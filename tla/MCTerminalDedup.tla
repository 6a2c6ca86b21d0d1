-------------------------- MODULE MCTerminalDedup ---------------------------
(* Three calls share a key and one has its own; two of the four run inline. *)
EXTENDS TerminalDedup, TLC

CONSTANTS c1, c2, c3, c4, k1, k2

Keys == [c \in {c1, c2, c3} |-> k1] @@ (c4 :> k2)
=============================================================================
