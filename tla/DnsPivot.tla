------------------------------ MODULE DnsPivot -----------------------------
(***************************************************************************)
(* DNSModule.run and _query (src/scr/modules/dns/module.py): one thread     *)
(* asks the target's name server, first for the target's own name, then for *)
(* the domain it learned, and then for what the answers point at            *)
(* (followup_queries in rules.py), until nothing is pending or Limit        *)
(* queries have been asked.  The server is a fixed relation between queries *)
(* and records, which may answer UDP and TCP differently.  pending is a     *)
(* set: the order of the code's list only decides which follow-ups the      *)
(* limit cuts off, and its repetitions ask nothing.                         *)
(* Definitions named Fault... are plausible bugs that no action uses.       *)
(***************************************************************************)
EXTENDS FiniteSets, Integers

CONSTANTS Host,      \* names and addresses a record can point at
          Address,   \* those ipaddress.ip_address() accepts
          Label,     \* the prefixes of the service records asked of a domain
          Target,    \* what the scan may be started with
          Zones,     \* the servers considered
          Limit      \* 200 in the code

NoName == "no name"
Kind == {"SOA", "NS", "A", "AAAA", "MX", "TXT", "SRV", "PTR", "CNAME", "AXFR"}
Surveyed == {"SOA", "NS", "A", "AAAA", "MX", "TXT", "SRV"}

Name == Host \cup (Label \X Host)
Transport == {"udp", "tcp"}
Key == Name \X Kind \X Transport         \* the members of queries
Record == [name : Name, type : Kind, value : Host]
Zone == [answers : SUBSET (Key \X Record), failed : SUBSET Key]

(* What is asked of the target, and of a domain (lines 68-73 and 82-93).    *)
Own(t) == {t} \X {IF t \in Address THEN "PTR" ELSE "SOA"} \X Transport
Survey(d) == ({d} \X Surveyed \X Transport)
             \cup ((Label \X {d}) \X {"SRV"} \X {"udp"}) \cup {<<d, "AXFR", "tcp">>}

ASSUME DnsAssumption ==
  /\ NoName \notin Host /\ Address \subseteq Host /\ Target \subseteq Host
  /\ Zones \subseteq Zone /\ Limit \in Nat
  /\ IsFiniteSet(Label)
  /\ \A t \in Target, d \in Host : Cardinality(Own(t) \cup Survey(d)) =< Limit

VARIABLES zone,      \* the server: its answers, and the queries that fail
          target,
          step,      \* where run() is
          queries, records, names, domains,
          domain,    \* the domain run() works on
          found,     \* the records run() takes follow-ups from
          pending

vars == <<zone, target, step, queries, records, names, domains, domain, found, pending>>

TypeOK ==
  /\ zone \in Zones /\ target \in Target
  /\ step \in {"identify", "survey", "follow", "done"}
  /\ queries \subseteq Key /\ IsFiniteSet(queries)
  /\ records \subseteq Record /\ found \subseteq records
  /\ names \subseteq Name /\ domains \subseteq Name
  /\ domain \in Host \cup {NoName} /\ (step = "identify" => domains \subseteq Host)
  /\ pending \subseteq Name \X (Kind \ {"AXFR"})

Init ==
  /\ zone \in Zones /\ target \in Target /\ step = "identify"
  /\ queries = {} /\ records = {} /\ names = {}
  /\ domains \in {{}} \cup {{h} : h \in Host \ Address}
  /\ domain = NoName /\ found = {} /\ pending = {}

-----------------------------------------------------------------------------
FollowUps(rs) ==
  {<<r.name, k>> : r \in {s \in rs : s.type = "SOA"}, k \in Surveyed \ {"SOA"}}
  \cup {<<r.value, k>> : r \in {s \in rs : s.type = "NS"}, k \in {"A", "AAAA"}}
  \cup {<<r.value, "PTR">> : r \in {s \in rs : s.type \in {"A", "AAAA", "CNAME"}}}

Answers(keys) == {p[2] : p \in {q \in zone.answers : q[1] \in keys}}

(* What _query() returns for keys: nothing for one it has asked before.     *)
Returned(keys) == Answers(keys \ queries)

Learnt(rs) ==
  {r.name : r \in {s \in rs : s.type \in {"A", "AAAA", "CNAME", "NS"}}}
  \cup {r.value : r \in {s \in rs : s.type \in {"CNAME", "NS", "PTR"}}}

(* One _query() for each of the keys, in whatever order; only a successful  *)
(* query adds to the context, and run() adds ns and ds to it.               *)
Query(keys, ns, ds) ==
  LET heard == Answers((keys \ queries) \ zone.failed)
  IN /\ queries' = queries \cup keys
     /\ records' = records \cup Returned(keys)
     /\ names' = names \cup Learnt(heard) \cup ns
     /\ domains' = domains \cup {r.name : r \in {s \in heard : s.type = "SOA"}} \cup ds

Asked(q) == \E t \in Transport : <<q[1], q[2], t>> \in queries

(* Lines 64-79: the target's name, else a domain that other services found, *)
(* else the first PTR record, as long as the query over UDP returned it.    *)
Identify ==
  /\ step = "identify" /\ step' = "survey"
  /\ found' = Returned({k \in Own(target) : k[3] = "udp"})
  /\ LET pointers == {r.value : r \in {s \in found' : s.type = "PTR"}}
     IN \/ /\ target \notin Address
           /\ domain' = target /\ Query(Own(target), {}, {})
        \/ /\ target \in Address /\ domain' \in domains
           /\ Query(Own(target), {}, {})
        \/ /\ target \in Address /\ domains = {} /\ pointers = {}
           /\ domain' = NoName /\ Query(Own(target), {}, {})
        \/ /\ target \in Address /\ domains = {}
           /\ \E ptr \in pointers : /\ domain' = IF ptr \in Address THEN NoName ELSE ptr
                                    /\ Query(Own(target), {ptr}, {})
  /\ UNCHANGED <<zone, target, pending>>

(* Lines 80-94.  Of the queries over TCP only AXFR adds to found.           *)
SurveyDomain ==
  /\ step = "survey" /\ step' = "follow"
  /\ LET keys == IF domain = NoName THEN {} ELSE Survey(domain)
     IN /\ Query(keys, {}, {domain} \ {NoName})
        /\ found' = found \cup Returned({k \in keys : k[3] = "udp" \/ k[2] = "AXFR"})
  /\ pending' = FollowUps(found')
  /\ UNCHANGED <<zone, target, domain>>

Over(q) == {q[1]} \X {q[2]} \X Transport

FaultFollowForgetting ==
  /\ step = "follow" /\ Cardinality(queries) < Limit
  /\ \E q \in pending :
       LET new == {f \in FollowUps(Returned({<<q[1], q[2], "udp">>})) : ~Asked(f)'}
       IN /\ Query(Over(q), {}, {})
          /\ pending' = IF new = {} THEN pending \ {q} ELSE new
  /\ UNCHANGED <<zone, target, step, domain, found>>

FaultFollowKeeping ==
  /\ step = "follow" /\ Cardinality(queries) < Limit
  /\ \E q \in pending :
       /\ Query(Over(q), {}, {})
       /\ pending' = pending \cup FollowUps(Returned({<<q[1], q[2], "udp">>}))
  /\ UNCHANGED <<zone, target, step, domain, found>>

(* One turn of the loop of lines 95-100.                                    *)
Follow ==
  /\ step = "follow" /\ Cardinality(queries) < Limit
  /\ \E q \in pending :
       /\ Query(Over(q), {}, {})
       /\ pending' = (pending \ {q})
                     \cup {f \in FollowUps(Returned({<<q[1], q[2], "udp">>})) : ~Asked(f)'}
  /\ UNCHANGED <<zone, target, step, domain, found>>

Finish ==
  /\ step = "follow" /\ (pending = {} \/ Cardinality(queries) >= Limit)
  /\ step' = "done"
  /\ UNCHANGED <<zone, target, queries, records, names, domains, domain, found, pending>>

Next == Identify \/ SurveyDomain \/ Follow \/ Finish

Spec == Init /\ [][Next]_vars
FairSpec == Spec /\ WF_vars(Next)

-----------------------------------------------------------------------------
(* The limit holds although it is tested once for two queries (line 95).    *)
QueriesBounded == Cardinality(queries) =< Limit + 1

(* The answers run() looks at: those over UDP, and the zone transfer.       *)
Seen == Answers({k \in queries : k[3] = "udp" \/ k[2] = "AXFR"})

(* Unless the limit cut it short, run() ends with every follow-up asked of  *)
(* every answer it looked at, whatever the answers point at (lines 94-100). *)
FollowUpsDone ==
  step = "done" /\ Cardinality(queries) < Limit => \A q \in FollowUps(Seen) : Asked(q)

(* run() returns, also when the answers point at each other in a circle.    *)
Returns == <>(step = "done")

=============================================================================
