--------------------------- MODULE MCEnumeration ---------------------------
(* A small instance of Enumeration, and with it of ResourceTraversal.       *)
EXTENDS Enumeration

CONSTANTS r1, r2, r3, r4, r5, r6

(* Directories with links up and to the lister itself, two files, and r6,   *)
(* an SMB share or an LDAP entry.                                           *)
Linked == {[r \in Res |-> CASE r = r1 -> a [] r = r2 -> b [] r = r6 -> c [] OTHER -> {}] :
             a \in {{r2, r3}, {r2, r6}, {r1, r2, r4}}, b \in {{}, {r1, r4, r5}, {r3, r6}}, c \in {{}, {r2, r4, r5}}}

Kinds == [r \in Res |-> CASE r \in {r1, r2, r3} -> "directory" [] r \in {r4, r5} -> "file"
                          [] OTHER -> "other"]
=============================================================================
