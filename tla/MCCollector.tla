---------------------------- MODULE MCCollector -----------------------------
(* A host with SMB on two ports.                                            *)
EXTENDS Collector

Smb139 == [service |-> "smb", port |-> 139, transport |-> "tcp"]
Smb445 == [service |-> "smb", port |-> 445, transport |-> "tcp"]

Issue(w, l, r) == [worker |-> w, label |-> l, resource |-> r]

Commands == {Issue(Smb139, "shares", None), Issue(Smb445, "shares", None),
             Issue(Smb445, "list", "docs")}

InTerminals == {{Smb139, Smb445}, {Smb445}}
Terminated == {c \in Commands : c.worker # Smb139}
Lost == {c \in Commands : c.resource # None}
=============================================================================
