----------------------------- MODULE MCDnsPivot ----------------------------
(* A domain, its name server, an alias and two addresses.                   *)
EXTENDS DnsPivot

CONSTANTS lab, ns, www, ip1, ip2

Hosts == {lab, ns, www, ip1, ip2}
Addresses == {ip1, ip2}
Labels == {"_ldap._tcp", "_kerberos._tcp"}
Targets == {lab, ip1}

Rec(n, k, v) == [name |-> n, type |-> k, value |-> v]

(* Each part is in a zone or not.  "loop" makes the answers a circle, and   *)
(* "transfer" is a zone with more in its AXFR than in any other answer.     *)
Part == [base |-> {<<lab, "SOA", Rec(lab, "SOA", ns)>>, <<lab, "NS", Rec(lab, "NS", ns)>>},
         hosts |-> {<<lab, "A", Rec(lab, "A", ip1)>>, <<ns, "A", Rec(ns, "A", ip2)>>},
         reverse |-> {<<ip1, "PTR", Rec(ip1, "PTR", lab)>>,
                      <<ip2, "PTR", Rec(ip2, "CNAME", www)>>},
         loop |-> {<<www, "PTR", Rec(www, "CNAME", ip2)>>,
                   <<ip2, "PTR", Rec(ip2, "CNAME", www)>>,
                   <<www, "PTR", Rec(www, "SOA", ns)>>,
                   <<ns, "AAAA", Rec(lab, "SOA", ns)>>},
         transfer |-> {<<lab, "AXFR", Rec(www, "NS", ns)>>,
                       <<lab, "AXFR", Rec(ns, "NS", www)>>}]

On(transports, parts) ==
  {<<<<p[1], p[2], t>>, p[3]>> : p \in UNION {Part[x] : x \in parts}, t \in transports}

Some(transports, failures) ==
  {[answers |-> On(transports, parts), failed |-> f] : parts \in SUBSET DOMAIN Part, f \in failures}

Identifying == {lab, ip1} \X {"SOA", "PTR"} \X Transport
Flaky == Some(Transport, {{}, Identifying})
=============================================================================
