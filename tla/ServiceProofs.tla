---------------------------- MODULE ServiceProofs ---------------------------
(***************************************************************************)
(* What two modules of the service workers promise.  DnsPivot, of every     *)
(* server, target and limit: the number of queries is bounded, and no       *)
(* follow-up is lost.  Stages ties queries to the steps before the loop,    *)
(* and Line says that the loop owes nothing that is neither asked nor       *)
(* pending.  HttpDiscovery, of every list and number of workers: the list   *)
(* is read whole, and what was found is saved (HttpInv).                    *)
(***************************************************************************)
EXTENDS DnsPivot, HttpDiscovery, FiniteSetTheorems, TLAPS

Stages ==
  /\ step = "identify" => queries = {}
  /\ step = "survey" => queries = Own(target)

Line ==
  /\ step = "survey" => Seen \subseteq found
  /\ step \in {"follow", "done"} => \A q \in FollowUps(Seen) : Asked(q) \/ q \in pending
  /\ step = "done" => pending = {} \/ Cardinality(queries) >= Limit

(* What is asked of the target and of a domain, and of one follow-up.       *)
LEMMA KeyTypes ==
  /\ \A t \in Host : Own(t) \subseteq Key /\ IsFiniteSet(Own(t))
  /\ \A d \in Host : Survey(d) \subseteq Key /\ IsFiniteSet(Survey(d))
  /\ \A q \in Name \X Kind : Over(q) \subseteq Key /\ IsFiniteSet(Over(q))
                             /\ Cardinality(Over(q)) =< 2
<1> USE DEF Key, Transport
<1>2. ASSUME NEW n, NEW k
      PROVE  /\ {n} \X {k} \X Transport = {<<n, k, "tcp">>, <<n, k, "udp">>}
             /\ IsFiniteSet({n} \X {k} \X Transport)
             /\ Cardinality({n} \X {k} \X Transport) =< 2
  <2>1. {n} \X {k} \X Transport = {<<n, k, "tcp">>, <<n, k, "udp">>}
    OBVIOUS
  <2>2. IsFiniteSet({<<n, k, "tcp">>}) /\ Cardinality({<<n, k, "tcp">>}) = 1
    BY FS_Singleton
  <2> DEFINE over == {<<n, k, "tcp">>, <<n, k, "udp">>}
  <2>3. over = {<<n, k, "tcp">>} \cup {<<n, k, "udp">>}
    OBVIOUS
  <2>4. IsFiniteSet(over) /\ (Cardinality(over) = 1 \/ Cardinality(over) = 1 + 1)
    BY <2>2, <2>3, FS_AddElement
  <2> HIDE DEF over
  <2>5. IsFiniteSet(over) /\ Cardinality(over) =< 2
    BY <2>4
  <2>6. QED
    BY <2>1, <2>5 DEF over
<1>3. ASSUME NEW t \in Host
      PROVE  Own(t) \subseteq Key /\ IsFiniteSet(Own(t))
  BY <1>2 DEF Own, Name, Kind
<1>4. ASSUME NEW d \in Host
      PROVE  Survey(d) \subseteq Key /\ IsFiniteSet(Survey(d))
  <2> DEFINE A == {d} \X Surveyed \X Transport
             L == Label \X {d}
             B == L \X {"SRV"} \X {"udp"}
             C == {<<d, "AXFR", "tcp">>}
  <2>1. A \subseteq Key /\ B \subseteq Key /\ C \subseteq Key
    BY DEF Name, Kind, Surveyed
  <2>2. IsFiniteSet(A)
    <3> DEFINE At(k) == {d} \X {k} \X Transport
    <3>1. A = (((((At("SOA") \cup At("NS")) \cup At("A")) \cup At("AAAA")) \cup At("MX"))
               \cup At("TXT")) \cup At("SRV")
      BY DEF Surveyed
    <3>2. \A k : IsFiniteSet(At(k))
      BY <1>2
    <3>3. \A S, T : IsFiniteSet(S) /\ IsFiniteSet(T) => IsFiniteSet(S \cup T)
      BY FS_Union
    <3> HIDE DEF At, A
    <3>4. IsFiniteSet(((At("SOA") \cup At("NS")) \cup At("A")) \cup At("AAAA"))
      BY <3>2, <3>3
    <3>5. QED
      BY <3>1, <3>2, <3>3, <3>4
  <2>3. IsFiniteSet(B)
    <3>1. IsFiniteSet({d}) /\ IsFiniteSet(Label)
      BY FS_Singleton, DnsAssumption
    <3>2. IsFiniteSet(L)
      BY <3>1, FS_Product
    <3> DEFINE f == [l \in L |-> <<l, "SRV", "udp">>]
    <3>3. f \in [L -> B] /\ \A b \in B : \E l \in L : f[l] = b
      OBVIOUS
    <3> HIDE DEF f, L, B
    <3>4. f \in Surjection(L, B)
      BY <3>3 DEF Surjection
    <3>5. QED
      BY <3>2, <3>4, FS_Surjection
  <2>4. IsFiniteSet(C)
    BY FS_Singleton
  <2>5. IsFiniteSet(A \cup B \cup C)
    BY <2>2, <2>3, <2>4, FS_Union
  <2> HIDE DEF A, B, C
  <2>6. QED
    BY <2>1, <2>5 DEF Survey, A, B, C, L
<1>5. ASSUME NEW q \in Name \X Kind
      PROVE  Over(q) \subseteq Key /\ IsFiniteSet(Over(q)) /\ Cardinality(Over(q)) =< 2
  BY <1>2 DEF Over
<1>6. QED
  BY <1>3, <1>4, <1>5

LEMMA AnswerTypes ==
  ASSUME zone \in Zones, NEW keys
  PROVE  Answers(keys) \subseteq Record
BY DnsAssumption DEF Answers, Zone

LEMMA AnswersUnion ==
  ASSUME NEW A, NEW B
  PROVE  Answers(A \cup B) = Answers(A) \cup Answers(B)
BY DEF Answers

LEMMA FollowUpTypes ==
  ASSUME NEW rs \in SUBSET Record
  PROVE  FollowUps(rs) \subseteq Name \X (Kind \ {"AXFR"})
BY DEF FollowUps, Record, Name, Kind, Surveyed

LEMMA FollowUpsUnion ==
  ASSUME NEW A, NEW B
  PROVE  FollowUps(A \cup B) = FollowUps(A) \cup FollowUps(B)
BY DEF FollowUps

LEMMA LearntTypes ==
  ASSUME NEW rs \in SUBSET Record
  PROVE  Learnt(rs) \subseteq Name
BY DEF Learnt, Record, Name

(* A batch of queries keeps the types, and grows records by what it returns. *)
LEMMA QueryTypes ==
  ASSUME TypeOK, NEW keys \in SUBSET Key, IsFiniteSet(keys),
         NEW ns \in SUBSET Name, NEW ds \in SUBSET Name, Query(keys, ns, ds)
  PROVE  /\ queries' \subseteq Key /\ IsFiniteSet(queries')
         /\ records' \subseteq Record /\ records' = records \cup Returned(keys)
         /\ names' \subseteq Name /\ domains' \subseteq Name
<1> DEFINE heard == Answers((keys \ queries) \ zone.failed)
<1>1. heard \subseteq Record /\ Returned(keys) \subseteq Record
  BY AnswerTypes DEF TypeOK, Returned
<1>2. Learnt(heard) \subseteq Name
  BY <1>1, LearntTypes
<1>3. {r.name : r \in {s \in heard : s.type = "SOA"}} \subseteq Name
  BY <1>1 DEF Record
<1>4. IsFiniteSet(queries \cup keys)
  BY FS_Union DEF TypeOK
<1> HIDE DEF heard
<1>5. QED
  BY <1>1, <1>2, <1>3, <1>4 DEF Query, TypeOK, heard

LEMMA ReturnedGrows ==
  ASSUME NEW A, NEW B, A \subseteq B
  PROVE  Returned(A) \subseteq Returned(B)
BY DEF Returned, Answers

(* Every variable keeps its type.                                           *)
THEOREM Typing == Spec => []TypeOK
<1>1. Init => TypeOK
  BY FS_EmptySet, DnsAssumption DEF Init, TypeOK, Name
<1>2. TypeOK /\ [Next]_vars => TypeOK'
  <2> SUFFICES ASSUME TypeOK, [Next]_vars PROVE TypeOK'
    OBVIOUS
  <2>1. CASE Identify
    <3> DEFINE udp == {k \in Own(target) : k[3] = "udp"}
    <3>1. target \in Host /\ Own(target) \subseteq Key /\ IsFiniteSet(Own(target))
      BY KeyTypes, DnsAssumption DEF TypeOK
    <3>2. Returned(udp) \subseteq Returned(Own(target)) /\ Returned(udp) \subseteq Record
      BY ReturnedGrows, AnswerTypes DEF Returned, TypeOK
    <3>3. PICK ns \in SUBSET Host : Query(Own(target), ns, {}) /\ domain' \in Host \cup {NoName}
      <4>1. \A r \in Record : r.value \in Host
        BY DEF Record
      <4>2. CASE target \notin Address
        BY <2>1, <3>1, <4>2 DEF Identify
      <4>3. CASE domain' \in domains /\ Query(Own(target), {}, {})
        BY <2>1, <4>3 DEF Identify, TypeOK
      <4>4. CASE domain' = NoName /\ Query(Own(target), {}, {})
        BY <4>4
      <4>5. ASSUME NEW ptr \in {r.value : r \in {s \in found' : s.type = "PTR"}},
                   domain' = IF ptr \in Address THEN NoName ELSE ptr,
                   Query(Own(target), {ptr}, {})
            PROVE  \E ns \in SUBSET Host :
                     Query(Own(target), ns, {}) /\ domain' \in Host \cup {NoName}
        BY <2>1, <3>2, <4>1, <4>5 DEF Identify
      <4>6. QED
        BY <2>1, <4>2, <4>3, <4>4, <4>5 DEF Identify
    <3>4. ns \in SUBSET Name /\ {} \in SUBSET Name
      BY DEF Name
    <3>5. /\ queries' \subseteq Key /\ IsFiniteSet(queries')
          /\ records' \subseteq Record /\ records' = records \cup Returned(Own(target))
          /\ names' \subseteq Name /\ domains' \subseteq Name
      BY <3>1, <3>3, <3>4, QueryTypes
    <3>6. found' \subseteq records'
      BY <2>1, <3>2, <3>5 DEF Identify
    <3>7. QED
      BY <2>1, <3>3, <3>5, <3>6 DEF Identify, TypeOK
  <2>2. CASE SurveyDomain
    <3> DEFINE keys == IF domain = NoName THEN {} ELSE Survey(domain)
               looked == {k \in keys : k[3] = "udp" \/ k[2] = "AXFR"}
    <3>1. keys \subseteq Key /\ IsFiniteSet(keys)
      BY KeyTypes, FS_EmptySet DEF TypeOK
    <3>2. Query(keys, {}, {domain} \ {NoName}) /\ found' = found \cup Returned(looked)
      BY <2>2 DEF SurveyDomain
    <3>3. Returned(looked) \subseteq Returned(keys)
      BY ReturnedGrows
    <3>4. {domain} \ {NoName} \in SUBSET Name /\ {} \in SUBSET Name
      BY DEF TypeOK, Name
    <3> HIDE DEF keys, looked
    <3>5. /\ queries' \subseteq Key /\ IsFiniteSet(queries')
          /\ records' \subseteq Record /\ records' = records \cup Returned(keys)
          /\ names' \subseteq Name /\ domains' \subseteq Name
      BY <3>1, <3>2, <3>4, QueryTypes
    <3>6. found' \subseteq records' /\ found' \in SUBSET Record
      BY <3>2, <3>3, <3>5 DEF TypeOK
    <3>7. pending' \subseteq Name \X (Kind \ {"AXFR"})
      BY <2>2, <3>6, FollowUpTypes DEF SurveyDomain
    <3>8. QED
      BY <2>2, <3>5, <3>6, <3>7 DEF SurveyDomain, TypeOK
  <2>3. CASE Follow
    <3>1. PICK q \in pending :
            /\ Query(Over(q), {}, {})
            /\ pending' = (pending \ {q})
                          \cup {f \in FollowUps(Returned({<<q[1], q[2], "udp">>})) : ~Asked(f)'}
      BY <2>3 DEF Follow
    <3>2. Over(q) \subseteq Key /\ IsFiniteSet(Over(q))
      BY KeyTypes DEF TypeOK
    <3>3. FollowUps(Returned({<<q[1], q[2], "udp">>})) \subseteq Name \X (Kind \ {"AXFR"})
      BY AnswerTypes, FollowUpTypes DEF TypeOK, Returned
    <3>4. /\ queries' \subseteq Key /\ IsFiniteSet(queries')
          /\ records' \subseteq Record /\ records' = records \cup Returned(Over(q))
          /\ names' \subseteq Name /\ domains' \subseteq Name
      <4>1. {} \in SUBSET Name
        OBVIOUS
      <4>2. QED
        BY <3>1, <3>2, <4>1, QueryTypes
    <3>5. pending' \subseteq Name \X (Kind \ {"AXFR"})
      BY <3>1, <3>3 DEF TypeOK
    <3>6. QED
      BY <2>3, <3>4, <3>5 DEF Follow, TypeOK
  <2>4. CASE Finish
    BY <2>4 DEF Finish, TypeOK
  <2>5. CASE UNCHANGED vars
    BY <2>5 DEF vars, TypeOK
  <2>6. QED
    BY <2>1, <2>2, <2>3, <2>4, <2>5 DEF Next
<1>3. QED
  BY <1>1, <1>2, PTL DEF Spec

LEMMA Staged == Spec => []Stages
<1>1. Init => Stages
  BY DEF Init, Stages
<1>2. Stages /\ [Next]_vars => Stages'
  <2> SUFFICES ASSUME Stages, [Next]_vars PROVE Stages'
    OBVIOUS
  <2>1. CASE Identify
    BY <2>1 DEF Identify, Stages, Query
  <2>2. CASE SurveyDomain \/ Follow \/ Finish
    BY <2>2 DEF SurveyDomain, Follow, Finish, Stages
  <2>3. CASE UNCHANGED vars
    BY <2>3 DEF vars, Stages
  <2>4. QED
    BY <2>1, <2>2, <2>3 DEF Next
<1>3. QED
  BY <1>1, <1>2, PTL DEF Spec

(* No server makes a scan ask more than one query over the limit.           *)
THEOREM Bound == Spec => []QueriesBounded
<1>1. Init => QueriesBounded
  BY FS_EmptySet, DnsAssumption DEF Init, QueriesBounded
<1>2. TypeOK /\ Stages /\ QueriesBounded /\ [Next]_vars => QueriesBounded'
  <2> SUFFICES ASSUME TypeOK, Stages, QueriesBounded, [Next]_vars PROVE QueriesBounded'
    OBVIOUS
  <2>1. CASE queries' \subseteq Own(target) \cup Survey(domain) /\ domain \in Host
    <3>1. IsFiniteSet(Own(target) \cup Survey(domain))
      BY <2>1, KeyTypes, FS_Union, DnsAssumption DEF TypeOK
    <3>2. Cardinality(queries') =< Cardinality(Own(target) \cup Survey(domain))
      BY <2>1, <3>1, FS_Subset
    <3>3. Cardinality(Own(target) \cup Survey(domain)) =< Limit
      BY <2>1, DnsAssumption DEF TypeOK
    <3>4. Cardinality(queries') \in Nat /\ Cardinality(Own(target) \cup Survey(domain)) \in Nat
      BY <2>1, <3>1, FS_Subset, FS_CardinalityType
    <3>5. QED
      BY <3>2, <3>3, <3>4, DnsAssumption DEF QueriesBounded
  <2>2. CASE Identify
    <3>1. queries' = Own(target) /\ target \in Host
      BY <2>2, DnsAssumption DEF Identify, Query, Stages, TypeOK
    <3>2. Own(target) \subseteq Own(target) \cup Survey(target) /\ IsFiniteSet(Own(target) \cup Survey(target))
      BY <3>1, KeyTypes, FS_Union
    <3>3. Cardinality(queries') =< Cardinality(Own(target) \cup Survey(target))
          /\ Cardinality(queries') \in Nat /\ Cardinality(Own(target) \cup Survey(target)) \in Nat
      BY <3>1, <3>2, FS_Subset, FS_CardinalityType
    <3>4. Cardinality(Own(target) \cup Survey(target)) =< Limit
      BY <3>1, DnsAssumption DEF TypeOK
    <3>5. QED
      BY <3>3, <3>4, DnsAssumption DEF QueriesBounded
  <2>3. CASE SurveyDomain
    <3>1. CASE domain = NoName
      BY <2>3, <3>1 DEF SurveyDomain, Query, QueriesBounded
    <3>2. CASE domain # NoName
      BY <2>1, <2>3, <3>2 DEF SurveyDomain, Query, Stages, TypeOK
    <3>3. QED
      BY <3>1, <3>2
  <2>4. CASE Follow
    <3>1. PICK q \in pending : queries' = queries \cup Over(q)
      BY <2>4 DEF Follow, Query
    <3>2. IsFiniteSet(Over(q)) /\ Cardinality(Over(q)) =< 2 /\ IsFiniteSet(queries)
      BY KeyTypes DEF TypeOK
    <3>3. /\ Cardinality(queries') = Cardinality(queries) + Cardinality(Over(q))
                                      - Cardinality(queries \cap Over(q))
          /\ IsFiniteSet(queries \cap Over(q))
      BY <3>1, <3>2, FS_Union, FS_Intersection
    <3>4. /\ Cardinality(queries) \in Nat /\ Cardinality(Over(q)) \in Nat
          /\ Cardinality(queries \cap Over(q)) \in Nat
      BY <3>2, <3>3, FS_CardinalityType
    <3>5. Cardinality(queries) < Limit
      BY <2>4 DEF Follow
    <3>6. QED
      BY <3>2, <3>3, <3>4, <3>5, DnsAssumption DEF QueriesBounded
  <2>5. CASE Finish \/ UNCHANGED vars
    BY <2>5 DEF Finish, vars, QueriesBounded
  <2>6. QED
    BY <2>2, <2>3, <2>4, <2>5 DEF Next
<1>3. QED
  BY <1>1, <1>2, Typing, Staged, PTL DEF Spec

(* Unless the limit cuts it short, run() asks every follow-up of every      *)
(* answer it looks at, whatever the server says.                            *)
THEOREM Closure == Spec => []FollowUpsDone
<1>1. Init => Line
  BY DEF Init, Line
<1>2. TypeOK /\ Stages /\ Line /\ [Next]_vars => Line'
  <2> SUFFICES ASSUME TypeOK, Stages, Line, [Next]_vars PROVE Line'
    OBVIOUS
  <2>1. CASE Identify
    <3>1. queries' = Own(target) /\ queries = {}
      BY <2>1 DEF Identify, Query, Stages
    <3>2. {k \in Own(target) : k[3] = "udp" \/ k[2] = "AXFR"} = {k \in Own(target) : k[3] = "udp"}
      BY DEF Own
    <3>3. Seen' = Answers({k \in Own(target) : k[3] = "udp"})
      BY <2>1, <3>1, <3>2 DEF Seen, Answers, Identify
    <3>4. {k \in Own(target) : k[3] = "udp"} \ {} = {k \in Own(target) : k[3] = "udp"}
      OBVIOUS
    <3>5. found' = Answers({k \in Own(target) : k[3] = "udp"})
      BY <2>1, <3>1, <3>4 DEF Returned, Identify
    <3>6. QED
      BY <2>1, <3>3, <3>5 DEF Identify, Line
  <2>2. CASE SurveyDomain
    <3> DEFINE keys == IF domain = NoName THEN {} ELSE Survey(domain)
               looked == {k \in keys : k[3] = "udp" \/ k[2] = "AXFR"}
               before == {k \in queries : k[3] = "udp" \/ k[2] = "AXFR"}
               after == {k \in queries' : k[3] = "udp" \/ k[2] = "AXFR"}
    <3>1. queries' = queries \cup keys /\ found' = found \cup Returned(looked)
          /\ pending' = FollowUps(found') /\ step = "survey" /\ step' = "follow" /\ zone' = zone
      BY <2>2 DEF SurveyDomain, Query
    <3>2. after = before \cup (looked \ queries)
      BY <3>1
    <3>3. Seen' = Answers(after) /\ Seen = Answers(before)
      BY <3>1 DEF Seen, Answers
    <3> HIDE DEF after, before, keys, looked
    <3>4. Seen' = Seen \cup Returned(looked)
      BY <3>2, <3>3, AnswersUnion DEF Returned
    <3>5. Seen' \subseteq found'
      BY <3>1, <3>4 DEF Line
    <3>6. FollowUps(Seen') \subseteq pending'
      BY <3>1, <3>5 DEF FollowUps
    <3>7. \A q \in FollowUps(Seen)' : q \in pending'
      BY <3>6 DEF FollowUps
    <3>8. QED
      BY <3>1, <3>7 DEF Line
  <2>3. CASE Follow
    <3>1. PICK q \in pending :
            /\ queries' = queries \cup Over(q)
            /\ pending' = (pending \ {q})
                          \cup {f \in FollowUps(Returned({<<q[1], q[2], "udp">>})) : ~Asked(f)'}
      BY <2>3 DEF Follow, Query
    <3> DEFINE new == {<<q[1], q[2], "udp">>}
               before == {k \in queries : k[3] = "udp" \/ k[2] = "AXFR"}
               after == {k \in queries' : k[3] = "udp" \/ k[2] = "AXFR"}
    <3>2. q \in Name \X Kind /\ q[2] # "AXFR"
      BY DEF TypeOK
    <3>3. after = before \cup (new \ queries)
      BY <3>1, <3>2 DEF Over, Transport
    <3>4. Seen' = Answers(after) /\ Seen = Answers(before)
      BY <2>3 DEF Seen, Answers, Follow
    <3> HIDE DEF after, before, new
    <3>5. FollowUps(Seen)' = FollowUps(Seen) \cup FollowUps(Returned(new))
      <4>1. FollowUps(Seen)' = FollowUps(Seen')
        BY DEF FollowUps
      <4>2. Seen' = Seen \cup Returned(new)
        BY <3>3, <3>4, AnswersUnion DEF Returned
      <4>3. QED
        BY <4>1, <4>2, FollowUpsUnion
    <3>6. ASSUME NEW f \in FollowUps(Seen)' PROVE Asked(f)' \/ f \in pending'
      <4>1. CASE f \in FollowUps(Returned(new))
        BY <3>1, <4>1 DEF new
      <4>2. CASE f \in FollowUps(Seen) /\ Asked(f)
        BY <3>1, <4>2 DEF Asked
      <4>3. CASE f \in pending /\ f # q
        BY <3>1, <4>3
      <4>4. CASE f = q
        BY <3>1, <3>2, <4>4 DEF Asked, Over, Transport
      <4>5. QED
        BY <2>3, <3>5, <3>6, <4>1, <4>2, <4>3, <4>4 DEF Line, Follow
    <3>7. QED
      BY <2>3, <3>6 DEF Line, Follow
  <2>4. CASE Finish
    <3>1. FollowUps(Seen)' = FollowUps(Seen) /\ \A q : Asked(q)' <=> Asked(q)
      BY <2>4 DEF Finish, FollowUps, Seen, Answers, Asked
    <3>2. QED
      BY <2>4, <3>1 DEF Finish, Line
  <2>5. CASE UNCHANGED vars
    <3>1. Seen' = Seen /\ FollowUps(Seen)' = FollowUps(Seen) /\ \A q : Asked(q)' <=> Asked(q)
      BY <2>5 DEF vars, FollowUps, Seen, Answers, Asked
    <3>2. QED
      BY <2>5, <3>1 DEF vars, Line
  <2>6. QED
    BY <2>1, <2>2, <2>3, <2>4, <2>5 DEF Next
<1>3. TypeOK /\ Line => FollowUpsDone
  <2> SUFFICES ASSUME TypeOK, Line, step = "done", Cardinality(queries) < Limit,
                      NEW q \in FollowUps(Seen)
               PROVE  Asked(q)
    BY DEF FollowUpsDone
  <2>1. Cardinality(queries) \in Nat /\ Limit \in Nat
    BY FS_CardinalityType, DnsAssumption DEF TypeOK
  <2>2. pending = {}
    BY <2>1 DEF Line
  <2>3. QED
    BY <2>2 DEF Line
<1>4. QED
  BY <1>1, <1>2, <1>3, Typing, Staged, PTL DEF Spec

-----------------------------------------------------------------------------
(* The HTTP module (HttpDiscovery).  Where a worker may be, and that what it *)
(* has left to copy agrees with it.                                         *)
HttpTypes ==
  /\ stage \in [Worker -> {"base", "fuzz", "files", "save", "list", "copy", "read", "vhosts", "fuzzing",
                          "record", "done"}]
  /\ left \in [Worker -> 0 .. Words] /\ list \subseteq Word
  /\ \A w \in Worker : stage[w] = "copy" => left[w] > 0
  /\ children \in [Worker -> SUBSET Paths] /\ kept \in [Worker -> SUBSET Paths]
  /\ resources \in [Worker -> SUBSET Paths]
  /\ candidates \in [Worker -> SUBSET Word] /\ tried \in [Worker -> SUBSET Word]
  /\ vhosts \in [Worker -> SUBSET Word]

(* The copies under way, or stopped, will write every word that is missing. *)
Covered == \A i \in Word \ list : \E w \in Worker : left[w] > 0 /\ i > Words - left[w]
Copied == (\E w \in Worker : stage[w] \in {"copy", "read", "vhosts"}) => Covered

(* What the stages report is what is to be saved.                           *)
Reports == \A w \in Worker :
  /\ stage[w] \in {"base", "fuzz", "files", "save"} => kept[w] \subseteq children[w]
  /\ stage[w] \notin {"base", "fuzz", "files", "save", "done"} => kept[w] \subseteq resources[w]

HttpInv == HttpTypes /\ Copied /\ Reports

LEMMA HttpStarts == HttpInit => HttpInv
BY HttpAssumption
   DEF HttpInit, HttpInv, HttpTypes, Copied, Covered, Reports, Nothing, Word

(* A stage that leaves the shared list alone and opens no copy of it.        *)
LEMMA CopiedStays ==
  ASSUME Copied, UNCHANGED <<list, left>>,
         \A w \in Worker : stage'[w] \in {"copy", "read", "vhosts"} =>
                             \E v \in Worker : stage[v] \in {"copy", "read", "vhosts"}
  PROVE  Copied'
BY DEF Copied, Covered, Word

LEMMA HttpStep == HttpInv /\ [HttpNext]_httpVars => HttpInv'
<1> SUFFICES ASSUME HttpInv, [HttpNext]_httpVars PROVE HttpInv'
  OBVIOUS
<1> USE HttpAssumption DEF HttpInv, HttpTypes, Goes, Word
<1>1. ASSUME NEW w \in Worker,
             \/ Base(w) \/ FuzzNothing(w) \/ Fuzz(w) \/ FuzzFiles(w) \/ Save(w)
      PROVE  HttpInv'
  <2>1. HttpTypes'
    <3>1. CASE Base(w)
      BY <3>1 DEF Base
    <3>2. CASE FuzzNothing(w)
      BY <3>2 DEF FuzzNothing
    <3>3. CASE Fuzz(w)
      BY <3>3 DEF Fuzz
    <3>4. CASE FuzzFiles(w)
      <4>1. PICK hits \in SUBSET Paths : /\ children' = [children EXCEPT ![w] = @ \cup hits]
                                         /\ kept' = [kept EXCEPT ![w] = @ \cup hits]
        BY <3>4 DEF FuzzFiles
      <4>2. children[w] \cup hits \subseteq Paths /\ kept[w] \cup hits \subseteq Paths
        OBVIOUS
      <4>3. children' \in [Worker -> SUBSET Paths] /\ kept' \in [Worker -> SUBSET Paths]
        BY <4>1, <4>2
      <4>4. QED
        BY <3>4, <4>3 DEF FuzzFiles
    <3>5. CASE Save(w)
      BY <3>5 DEF Save
    <3>6. QED
      BY <1>1, <3>1, <3>2, <3>3, <3>4, <3>5
  <2>2. Copied'
    BY <1>1, CopiedStays DEF Base, FuzzNothing, Fuzz, FuzzFiles, Save
  <2>3. Reports'
    BY <1>1 DEF Base, FuzzNothing, Fuzz, FuzzFiles, Save, Reports
  <2>4. QED
    BY <2>1, <2>2, <2>3
<1>2. ASSUME NEW w \in Worker, Truncate(w) PROVE HttpInv'
  <2>1. HttpTypes' /\ Reports'
    BY <1>2 DEF Truncate, Reports
  <2>2. Copied'
    BY <1>2 DEF Truncate, Copied, Covered
  <2>3. QED
    BY <2>1, <2>2
<1>3. ASSUME NEW w \in Worker, Copy(w) PROVE HttpInv'
  <2>1. HttpTypes'
    <3>1. left[w] \in 1 .. Words
      BY <1>3 DEF Copy
    <3>2. left[w] - 1 \in 0 .. Words /\ Words - left[w] + 1 \in 1 .. Words
      BY <3>1
    <3>3. left' \in [Worker -> 0 .. Words] /\ list' \subseteq Word
      BY <1>3, <3>2 DEF Copy
    <3>4. ASSUME NEW v \in Worker, stage'[v] = "copy" PROVE left'[v] > 0
      <4>1. CASE v # w
        BY <1>3, <3>4, <4>1 DEF Copy
      <4>2. CASE v = w
        BY <1>3, <3>1, <3>3, <3>4, <4>2 DEF Copy
      <4>3. QED
        BY <4>1, <4>2
    <3>5. QED
      BY <1>3, <3>3, <3>4 DEF Copy
  <2>2. Reports'
    BY <1>3 DEF Copy, Reports
  <2>3. ASSUME NEW i \in Word \ list'
        PROVE  \E v \in Worker : left'[v] > 0 /\ i > Words - left'[v]
    <3>1. PICK v \in Worker : left[v] > 0 /\ i > Words - left[v]
      BY <1>3, <2>3 DEF Copy, Copied, Covered
    <3>2. i # Words - left[w] + 1
      BY <1>3, <2>3 DEF Copy
    <3>3. left'[v] > 0 /\ i > Words - left'[v]
      BY <1>3, <3>1, <3>2 DEF Copy
    <3>4. QED
      BY <3>3
  <2>4. QED
    BY <2>1, <2>2, <2>3 DEF Copied, Covered
<1>4. ASSUME NEW w \in Worker,
             \/ ReadBack(w) \/ StartFfuf(w) \/ EndFfuf(w) \/ RecordHosts(w) \/ Interrupt(w)
      PROVE  HttpInv'
  <2>1. HttpTypes'
    <3>1. CASE ReadBack(w)
      BY <3>1 DEF ReadBack
    <3>2. CASE StartFfuf(w)
      BY <3>2 DEF StartFfuf
    <3>3. CASE EndFfuf(w)
      BY <3>3 DEF EndFfuf
    <3>4. CASE RecordHosts(w)
      BY <3>4 DEF RecordHosts
    <3>5. CASE Interrupt(w)
      BY <3>5 DEF Interrupt
    <3>6. QED
      BY <1>4, <3>1, <3>2, <3>3, <3>4, <3>5
  <2>2. Copied'
    BY <1>4, CopiedStays DEF ReadBack, StartFfuf, EndFfuf, RecordHosts, Interrupt
  <2>3. Reports'
    BY <1>4 DEF ReadBack, StartFfuf, EndFfuf, RecordHosts, Interrupt, Reports
  <2>4. QED
    BY <2>1, <2>2, <2>3
<1>5. CASE UNCHANGED httpVars
  BY <1>5, CopiedStays DEF httpVars, Reports
<1>6. QED
  BY <1>1, <1>2, <1>3, <1>4, <1>5 DEF HttpNext

LEMMA HttpAlways == HttpSpec => []HttpInv
BY HttpStarts, HttpStep, PTL DEF HttpSpec

(* ffuf reads the whole list when no worker is in its copy of it, or was    *)
(* stopped there, however many workers wrote to the one path before.        *)
THEOREM WholeListGiven == HttpSpec => []WholeListTried
<1>1. HttpInv => WholeListTried
  <2> SUFFICES ASSUME HttpInv, \A v \in Worker : left[v] = 0, NEW w \in Worker, stage[w] = "vhosts"
               PROVE  list = Word
    BY DEF WholeListTried
  <2>1. Covered /\ list \subseteq Word
    BY DEF HttpInv, HttpTypes, Copied
  <2>2. ASSUME NEW v \in Worker, left[v] > 0 PROVE FALSE
    <3>1. left[v] = 0
      OBVIOUS
    <3>2. QED
      BY <2>2, <3>1
  <2>3. QED
    BY <2>1, <2>2 DEF Covered
<1>2. QED
  BY <1>1, HttpAlways, PTL

(* What the stages of path discovery reported is saved.                     *)
THEOREM PathsSaved == HttpSpec => []PathsKept
<1>1. HttpInv => PathsKept
  BY DEF HttpInv, Reports, PathsKept
<1>2. QED
  BY <1>1, HttpAlways, PTL

=============================================================================
