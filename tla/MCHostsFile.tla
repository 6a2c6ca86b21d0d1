---------------------------- MODULE MCHostsFile ----------------------------
(* Scans and earlier contents of /etc/hosts for the runs of HostsFile.      *)
EXTENDS HostsFile, Naturals

CONSTANTS i1, i2, a, b, c, s1, s2, s3

Addresses == {i1, i2}
Aliases == {a, b, c}
Scans == {s1, s2, s3}

(* s3 scans the target of s1 again and learns one more name.                *)
ApartIp == [s \in Scans |-> IF s = s2 THEN i2 ELSE i1]
ApartNames == [s \in Scans |-> IF s = s1 THEN {a} ELSE IF s = s2 THEN {c} ELSE {a, b}]

(* Every file that gives each name none, one or both of two addresses, with *)
(* one name on a line, or all names of an address on one line.              *)
Of(f, i) == {x \in Aliases : i \in f[x]}
Plain ==
  UNION {{{[ip |-> p[1], names |-> {p[2]}] : p \in {q \in Addresses \X Aliases : q[1] \in f[q[2]]}},
          {[ip |-> i, names |-> Of(f, i)] : i \in {j \in Addresses : Of(f, j) # {}}}} :
           f \in [Aliases -> SUBSET Addresses]}
=============================================================================
