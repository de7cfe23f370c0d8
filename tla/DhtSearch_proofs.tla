-------------------------- MODULE DhtSearch_proofs --------------------------
(* Theorems about DhtSearch, for any number of hashes and nodes and any     *)
(* values of its limits and timeouts.                                       *)
EXTENDS DhtSearch, CommonFacts

-----------------------------------------------------------------------------
(* The array of candidates. *)

\* The k members of a set that are closest to a hash are k at most: distances
\* to a hash are distinct, so no two of them have equally many nearer ones.
LEMMA ClosestBound ==
    ASSUME NEW h \in Hash, NEW S \in SUBSET Node, NEW k \in Nat
    PROVE  /\ Closest(h, S, k) \subseteq S
           /\ Cardinality(Closest(h, S, k)) \in Nat
           /\ Cardinality(Closest(h, S, k)) <= k
<1> DEFINE before(n) == {m \in S : Nearer(h, m, n)}
           C == Closest(h, S, k)
           rank == [n \in C |-> Cardinality(before(n))]
<1>1. /\ IsFiniteSet(S)
      /\ \A n \in S : IsFiniteSet(before(n)) /\ Cardinality(before(n)) \in Nat
  BY NodeFinite, FS_Subset, FS_CardinalityType
<1>2. C \subseteq S /\ IsFiniteSet(C) /\ Cardinality(C) \in Nat
  <2>1. C \subseteq S
    BY DEF Closest
  <2>. QED
    BY <1>1, <2>1, FS_Subset, FS_CardinalityType
<1>3. \A n \in C : Cardinality(before(n)) \in Nat /\ Cardinality(before(n)) < k
  BY <1>1 DEF Closest
<1>4. ASSUME NEW m \in C, NEW n \in C, m # n
      PROVE  Cardinality(before(m)) # Cardinality(before(n))
  <2>1. m \in S /\ n \in S
    BY <1>2
  <2>2. /\ Dist[h][m] \in Nat /\ Dist[h][n] \in Nat
        /\ \A x \in S : Dist[h][x] \in Nat
        /\ Dist[h][m] # Dist[h][n]
    BY <1>4, <2>1, ConstantsAssumption
  <2>3. CASE Dist[h][m] < Dist[h][n]
    <3>1. before(m) \subseteq before(n) /\ m \in before(n) /\ m \notin before(m)
      BY <2>1, <2>2, <2>3 DEF Nearer
    <3>. QED
      BY <1>1, <2>1, <3>1, FS_Subset
  <2>4. CASE Dist[h][n] < Dist[h][m]
    <3>1. before(n) \subseteq before(m) /\ n \in before(m) /\ n \notin before(n)
      BY <2>1, <2>2, <2>4 DEF Nearer
    <3>. QED
      BY <1>1, <2>1, <3>1, FS_Subset
  <2>. QED
    BY <2>2, <2>3, <2>4
<1>5. ASSUME Cardinality(C) > k PROVE FALSE
  <2>1. rank \in [C -> 0 .. k - 1]
    BY <1>3
  <2>2. IsFiniteSet(0 .. k - 1) /\ Cardinality(0 .. k - 1) = k
    <3>1. k - 1 \in Int /\ 0 \in Int
      OBVIOUS
    <3>. QED
      BY <3>1, FS_Interval
  <2>3. \E m, n \in C : m # n /\ rank[m] = rank[n]
    <3>. HIDE DEF C, rank
    <3>. QED
      BY <1>2, <1>5, <2>1, <2>2, FS_PigeonHole
  <2>. QED
    BY <1>4, <2>3
<1>. QED
  BY <1>2, <1>5

-----------------------------------------------------------------------------
(* Type correctness *)

\* A search whose array is within its limit.
Sound(s) == s \in Search /\ Cardinality(s.known) <= SEARCH_NODES

\* A node with fewer than three unanswered requests.
Patient(s) == {n \in Node : s.node[n].pinged < 3}

LEMMA FreshType == Fresh \in NodeRec
BY ConstantsAssumption DEF Fresh, NodeRec

LEMMA UnallocatedType == Sound(Unallocated)
<1>1. Cardinality({}) = 0
  BY FS_EmptySet
<1>. QED
  BY <1>1, FreshType, ConstantsAssumption DEF Sound, Unallocated, Search

\* insert_search_node keeps the array within its limit.
LEMMA InsertType ==
    ASSUME NEW h \in Hash, NEW s \in Search, NEW S \in SUBSET Node
    PROVE  Sound(Insert(h, s, S))
<1> DEFINE keep == Closest(h, s.known \cup S, SEARCH_NODES)
           node == [n \in Node |-> IF n \in keep \cap s.known THEN s.node[n] ELSE Fresh]
<1>1. s.known \cup S \in SUBSET Node /\ s.node \in [Node -> NodeRec]
  BY DEF Search
<1>2. keep \in SUBSET Node /\ Cardinality(keep) <= SEARCH_NODES
  BY <1>1, ClosestBound, ConstantsAssumption
<1>3. node \in [Node -> NodeRec]
  BY <1>1, FreshType
<1>4. Insert(h, s, S) = [s EXCEPT !.known = keep, !.node = node]
  BY DEF Insert, Search
<1>. HIDE DEF keep, node
<1>. QED
  BY <1>2, <1>3, <1>4 DEF Sound, Search

LEMMA NodeRecType ==
    ASSUME NEW r \in NodeRec, NEW token \in BOOLEAN
    PROVE  /\ r.pinged < 3 => Ask(r) \in NodeRec
           /\ Reply(r, token) \in NodeRec
           /\ Ack(r) \in NodeRec
           /\ Reset(r) \in NodeRec
           /\ OlderNode(r) \in NodeRec
           /\ [r EXCEPT !.acked = TRUE] \in NodeRec
<1>. USE ConstantsAssumption DEF NodeRec
<1>1. r.pinged < 3 => Ask(r) \in NodeRec
  BY DEF Ask
<1>2. Reply(r, token) \in NodeRec /\ Ack(r) \in NodeRec /\ Reset(r) \in NodeRec
  BY DEF Reply, Ack, Reset
<1>3. OlderNode(r) \in NodeRec
  <2>1. \A max \in Nat : \A age \in 0 .. max : Older(age, max) \in 0 .. max
    BY DEF Older
  <2>. QED
    BY <2>1 DEF OlderNode
<1>4. [r EXCEPT !.acked = TRUE] \in NodeRec
  OBVIOUS
<1>. QED
  BY <1>1, <1>2, <1>3, <1>4

LEMMA QueriedType ==
    ASSUME NEW s, Sound(s), NEW T \in SUBSET Patient(s)
    PROVE  Sound(Queried(s, T))
<1> DEFINE node == [n \in Node |-> IF n \in T THEN Ask(s.node[n]) ELSE s.node[n]]
<1>1. s.node \in [Node -> NodeRec]
  BY DEF Sound, Search
<1>2. node \in [Node -> NodeRec]
  BY <1>1, NodeRecType DEF Patient
<1>. HIDE DEF node
<1>3. [s EXCEPT !.node = node] \in Search
  BY <1>2 DEF Sound, Search
<1>4. [s EXCEPT !.node = node].known = s.known
  BY DEF Sound, Search
<1>5. Queried(s, T) = [s EXCEPT !.node = node]
  BY DEF Queried, node
<1>. QED
  BY <1>3, <1>4, <1>5 DEF Sound

LEMMA InsertRepliedType ==
    ASSUME NEW h \in Hash, NEW s \in Search, NEW n \in Node, NEW token \in BOOLEAN
    PROVE  Sound(InsertReplied(h, s, n, token))
<1> DEFINE t == Insert(h, s, {n})
           node == [t.node EXCEPT ![n] = Reply(t.node[n], token)]
<1>1. Sound(t)
  BY InsertType
<1>. HIDE DEF t
<1>2. node \in [Node -> NodeRec]
  BY <1>1, NodeRecType DEF Sound, Search
<1>. HIDE DEF node
<1>3. [t EXCEPT !.node = node] \in Search /\ [t EXCEPT !.node = node].known = t.known
  BY <1>1, <1>2 DEF Sound, Search
<1>4. InsertReplied(h, s, n, token) = IF n \in t.known THEN [t EXCEPT !.node = node] ELSE t
  BY DEF InsertReplied, t, node
<1>. QED
  BY <1>1, <1>3, <1>4 DEF Sound

LEMMA FlushType ==
    ASSUME NEW s, Sound(s), NEW S
    PROVE  Sound(Flush(s, S))
<1> DEFINE node == [n \in Node |-> IF n \in S THEN Fresh ELSE s.node[n]]
           t == [s EXCEPT !.known = s.known \ S, !.node = node]
<1>1. node \in [Node -> NodeRec]
  BY FreshType DEF Sound, Search
<1>2. Cardinality(s.known \ S) <= Cardinality(s.known) /\ Cardinality(s.known \ S) \in Nat
      /\ Cardinality(s.known) \in Nat
  BY NodeFinite, FS_Subset, FS_CardinalityType DEF Sound, Search
<1>. HIDE DEF node
<1>3. t \in Search /\ t.known = s.known \ S
  BY <1>1 DEF Sound, Search
<1>4. Flush(s, S) = t
  BY DEF Flush, node
<1>. QED
  BY <1>2, <1>3, <1>4, ConstantsAssumption DEF Sound

LEMMA AckTokenlessType ==
    ASSUME NEW h \in Hash, NEW s, Sound(s)
    PROVE  /\ Sound(AckTokenless(h, s))
           /\ Patient(AckTokenless(h, s)) = Patient(s)
<1> DEFINE node == [n \in Node |-> IF n \in FirstLive(h, s) /\ ~s.node[n].token
                                   THEN [s.node[n] EXCEPT !.acked = TRUE] ELSE s.node[n]]
<1>1. s.node \in [Node -> NodeRec]
  BY DEF Sound, Search
<1>2. node \in [Node -> NodeRec]
  BY <1>1, NodeRecType
<1>3. \A n \in Node : node[n].pinged = s.node[n].pinged
  BY <1>1 DEF NodeRec
<1>. HIDE DEF node
<1>4. [s EXCEPT !.node = node] \in Search
  BY <1>2 DEF Sound, Search
<1>5. [s EXCEPT !.node = node].known = s.known /\ [s EXCEPT !.node = node].node = node
  BY DEF Sound, Search
<1>6. AckTokenless(h, s) = [s EXCEPT !.node = node]
  BY DEF AckTokenless, node
<1>. QED
  BY <1>3, <1>4, <1>5, <1>6 DEF Sound, Patient

\* The nodes search_send_get_peers and the announce loop pick have been asked
\* fewer than three times.
LEMMA TargetsPatient ==
    ASSUME NEW h \in Hash, NEW s \in Search
    PROVE  /\ Eligible(s) \in SUBSET Patient(s)
           /\ LastEligible(h, s) \in SUBSET Patient(s)
           /\ StepQueries(h, s) \in SUBSET Patient(s)
           /\ Unacked(h, s) \in SUBSET Patient(s)
<1>1. Eligible(s) \in SUBSET Patient(s) /\ Eligible(s) \in SUBSET Node
  BY DEF Eligible, Patient, Search
<1>2. Closest(h, Eligible(s), INFLIGHT) \subseteq Eligible(s)
  BY DEF Closest
<1>3. FirstLive(h, s) \in SUBSET Patient(s)
  BY DEF FirstLive, Closest, Patient, Search
<1>. QED
  BY <1>1, <1>2, <1>3 DEF LastEligible, StepQueries, Unacked

LEMMA StepType ==
    ASSUME NEW h \in Hash, NEW s, Sound(s)
    PROVE  Sound(Step(h, s))
<1>. DEFINE done(t) == [t EXCEPT !.done = TRUE, !.step = 0]
            stepped(t) == [t EXCEPT !.step = 0]
            ended(t) == [t EXCEPT !.done = TRUE]
<1>1. ASSUME NEW t, Sound(t) PROVE Sound(done(t)) /\ Sound(stepped(t))
  <2>1. 0 \in 0 .. EXPIRE + 1
    BY ConstantsAssumption
  <2>2. ASSUME NEW u \in Search
        PROVE  /\ [u EXCEPT !.step = 0] \in Search /\ [u EXCEPT !.step = 0].known = u.known
               /\ [u EXCEPT !.done = TRUE] \in Search /\ [u EXCEPT !.done = TRUE].known = u.known
    BY <2>1 DEF Search
  <2>3. ended(t) \in Search /\ ended(t).known = t.known
    BY <1>1, <2>2 DEF Sound
  <2>4. done(t) = [ended(t) EXCEPT !.step = 0]
    OBVIOUS
  <2>. HIDE DEF ended, done
  <2>. QED
    BY <1>1, <2>2, <2>3, <2>4 DEF Sound
<1>2. Sound(AckTokenless(h, s)) /\ Patient(AckTokenless(h, s)) = Patient(s)
  BY AckTokenlessType
<1>3. Sound(Queried(AckTokenless(h, s), Unacked(h, s)))
  BY <1>2, TargetsPatient, QueriedType DEF Sound
<1>4. Sound(Queried(s, StepQueries(h, s)))
  BY TargetsPatient, QueriedType DEF Sound
<1>5. \/ Step(h, s) = s
      \/ Step(h, s) = done(s)
      \/ Step(h, s) = done(AckTokenless(h, s))
      \/ Step(h, s) = stepped(Queried(AckTokenless(h, s), Unacked(h, s)))
      \/ Step(h, s) = stepped(Queried(s, StepQueries(h, s)))
  <2>1. CASE Complete(h, s)
    <3>1. Step(h, s) = done(IF s.port = NoPort THEN s ELSE AckTokenless(h, s))
      BY <2>1 DEF Step, Complete
    <3>. QED
      BY <3>1
  <2>2. CASE ~Complete(h, s) /\ AllReplied(h, s)
    BY <2>2 DEF Step
  <2>3. CASE ~AllReplied(h, s) /\ s.step > RETRANSMIT
    BY <2>3 DEF Step, Complete
  <2>4. CASE ~AllReplied(h, s) /\ ~(s.step > RETRANSMIT)
    BY <2>4 DEF Step, Complete
  <2>. QED
    BY <2>1, <2>2, <2>3, <2>4
<1>. HIDE DEF done, stepped
<1>. QED
  BY <1>1, <1>2, <1>3, <1>4, <1>5

LEMMA AddType ==
    ASSUME NEW h \in Hash, NEW s, Sound(s), NEW n \in Node
    PROVE  Sound(Add(h, s, n))
<1>1. Sound(Insert(h, s, {n}))
  BY InsertType DEF Sound
<1>2. Eligible(Insert(h, s, {n})) \cap {n} \in SUBSET Patient(Insert(h, s, {n}))
  BY <1>1, TargetsPatient DEF Sound
<1>. QED
  BY <1>1, <1>2, QueriedType DEF Add

LEMMA OlderType ==
    ASSUME NEW s, Sound(s)
    PROVE  Sound(OlderSearch(s))
<1> DEFINE node == [n \in Node |-> OlderNode(s.node[n])]
           step == Older(s.step, EXPIRE + 1)
           t == [s EXCEPT !.step = step, !.node = node]
<1>1. node \in [Node -> NodeRec]
  BY NodeRecType DEF Sound, Search
<1>2. step \in 0 .. EXPIRE + 1
  BY ConstantsAssumption DEF Sound, Search, Older
<1>. HIDE DEF node, step
<1>3. t \in Search /\ t.known = s.known
  BY <1>1, <1>2 DEF Sound, Search
<1>4. OlderSearch(s) = t
  BY DEF OlderSearch, node, step
<1>. QED
  BY <1>3, <1>4 DEF Sound

LEMMA ReusedType ==
    ASSUME NEW s, Sound(s)
    PROVE  Sound(Reused(s))
<1> DEFINE doubtful == {n \in s.known : s.node[n].pinged >= 3 \/ s.node[n].reply > GOOD}
           t == Flush(s, doubtful)
           node == [n \in Node |-> IF n \in t.known THEN Reset(t.node[n]) ELSE t.node[n]]
           u == [t EXCEPT !.done = FALSE, !.node = node]
<1>1. Sound(t)
  BY FlushType
<1>2. Reused(s) = u
  BY DEF Reused
<1>. HIDE DEF t
<1>3. node \in [Node -> NodeRec]
  BY <1>1, NodeRecType DEF Sound, Search
<1>. HIDE DEF node
<1>4. u \in Search /\ u.known = t.known
  BY <1>1, <1>3 DEF Sound, Search
<1>. QED
  BY <1>1, <1>2, <1>4 DEF Sound

-----------------------------------------------------------------------------
(* The handlers preserve types. *)

AllSound(ss) == ss \in [Hash -> Search] /\ \A h \in Hash : Sound(ss[h])

LEMMA QueriesType ==
    ASSUME NEW h \in Hash, NEW s \in Search, NEW T \in SUBSET Node
    PROVE  Queries(h, s, T) \subseteq Request
BY DEF Queries, Request, Search

LEMMA StepSendsType ==
    ASSUME NEW h \in Hash, NEW s \in Search
    PROVE  StepSends(h, s) \subseteq Request
<1>1. Queries(h, s, StepQueries(h, s)) \subseteq Request
  BY TargetsPatient, QueriesType DEF Patient
<1>2. {[kind |-> "ap", tid |-> s.tid, to |-> n, hash |-> h] : n \in Unacked(h, s)}
        \subseteq Request
  BY TargetsPatient DEF Patient, Request, Search
<1>3. CASE Complete(h, s)
  BY <1>3 DEF StepSends
<1>4. CASE ~Complete(h, s)
  BY <1>1, <1>2, <1>4 DEF StepSends
<1>. QED
  BY <1>3, <1>4

LEMMA AddSendsType ==
    ASSUME NEW h \in Hash, NEW s \in Search, NEW n \in Node
    PROVE  AddSends(h, s, n) \subseteq Request
<1>1. Insert(h, s, {n}) \in Search
  BY InsertType DEF Sound
<1>2. Queries(h, Insert(h, s, {n}), Eligible(Insert(h, s, {n})) \cap {n}) \subseteq Request
  BY <1>1, QueriesType
<1>. QED
  BY <1>2 DEF AddSends

LEMMA AllAddType ==
    ASSUME TypeOK, NEW n \in Node
    PROVE  AllSound(AddToAll(n)) /\ AllAddSends(n) \subseteq Request
<1>1. \A h \in Hash : Sound(searches[h])
  BY DEF TypeOK, Sound
<1>2. \A h \in Hash : Sound(Add(h, searches[h], n))
  BY <1>1, AddType
<1>3. AddToAll(n) \in [Hash -> Search]
  BY <1>2 DEF AddToAll, Sound
<1>4. AllAddSends(n) \subseteq Request
  BY <1>1, AddSendsType DEF AllAddSends, Sound
<1>. QED
  BY <1>2, <1>3, <1>4 DEF AllSound, AddToAll

LEMMA DeadlinesType ==
    ASSUME NEW ss PROVE Deadlines(ss) \subseteq 0 .. Idle
<1>1. Idle \in 0 .. Idle /\ 0 .. 2 * RETRANSMIT \subseteq 0 .. Idle
  BY ConstantsAssumption DEF Idle
<1>. QED
  BY <1>1 DEF Deadlines

LEMMA ExpiredType ==
    ASSUME NEW ss, AllSound(ss) PROVE AllSound(Expired(ss))
BY UnallocatedType DEF Expired, AllSound, Sound

LEMMA PeriodicType ==
    ASSUME NEW ss, AllSound(ss), NEW out \in SUBSET Request, NEW due \in 0 .. Idle,
           sent \subseteq Request, Periodic(ss, out, due)
    PROVE  AllSound(searches') /\ sent' \subseteq Request /\ wait' \in 0 .. Idle
<1>1. PICK ex \in {ss, Expired(ss)} :
        IF due = 0
        THEN /\ searches' = [h \in Hash |-> IF Due(ex[h]) THEN Step(h, ex[h]) ELSE ex[h]]
             /\ Send(out \cup UNION {StepSends(h, ex[h]) : h \in {k \in Hash : Due(ex[k])}})
             /\ wait' \in Deadlines(searches')
        ELSE /\ searches' = ex
             /\ Send(out)
             /\ wait' = due
  BY DEF Periodic
<1>2. AllSound(ex)
  BY ExpiredType
<1>3. CASE due = 0
  <2>1. \A h \in Hash : Sound(IF Due(ex[h]) THEN Step(h, ex[h]) ELSE ex[h])
    BY <1>2, StepType DEF AllSound
  <2>2. \A h \in Hash : StepSends(h, ex[h]) \subseteq Request
    BY <1>2, StepSendsType DEF AllSound
  <2>3. AllSound(searches')
    BY <1>1, <1>3, <2>1 DEF AllSound, Sound
  <2>4. sent' \subseteq Request
    BY <1>1, <1>3, <2>2 DEF Send
  <2>. QED
    BY <1>1, <1>3, <2>3, <2>4, DeadlinesType
<1>4. CASE due # 0
  BY <1>1, <1>2, <1>4 DEF Send
<1>. QED
  BY <1>3, <1>4

\* A handler that leaves the search counters alone and ends in the tail of
\* dht_periodic keeps the types.
LEMMA HandlerType ==
    ASSUME TypeOK, NEW ss, AllSound(ss), NEW out \in SUBSET Request, Periodic(ss, out, wait),
           blacklist' \subseteq Node, UNCHANGED <<search_id, starts>>
    PROVE  TypeOK'
<1>1. AllSound(searches') /\ sent' \subseteq Request /\ wait' \in 0 .. Idle
  BY PeriodicType DEF TypeOK
<1>. QED
  BY <1>1 DEF TypeOK, AllSound, Sound

LEMMA NodesReplyType ==
    ASSUME TypeOK, NEW q \in sent, NEW S \in SUBSET Node, NEW token \in BOOLEAN,
           NodesReply(q, S, token)
    PROVE  TypeOK'
<1>1. q \in Request /\ q.to \in Node
  BY DEF TypeOK, Request
<1>2. AllSound(AddToAll(q.to)) /\ AllAddSends(q.to) \subseteq Request
  BY <1>1, AllAddType
<1> DEFINE added(h) == Insert(h, AddToAll(q.to)[h], S)
           push(h)  == LastEligible(h, added(h))
           after(h) == InsertReplied(h, Queried(added(h), push(h)), q.to, token)
<1>3. PICK h \in Hash : Periodic([AddToAll(q.to) EXCEPT ![h] = after(h)],
                                 AllAddSends(q.to) \cup Queries(h, added(h), push(h)), wait)
  BY DEF NodesReply, FindSearch
<1>4. Sound(added(h))
  BY <1>2, InsertType DEF AllSound
<1>5. push(h) \in SUBSET Patient(added(h)) /\ push(h) \in SUBSET Node
  BY <1>4, TargetsPatient DEF Sound, Patient
<1>6. Sound(Queried(added(h), push(h)))
  BY <1>4, <1>5, QueriedType
<1>7. Sound(after(h))
  BY <1>1, <1>6, InsertRepliedType DEF Sound
<1>8. Queries(h, added(h), push(h)) \subseteq Request
  BY <1>4, <1>5, QueriesType DEF Sound
<1>. HIDE DEF added, push, after
<1>9. AllSound([AddToAll(q.to) EXCEPT ![h] = after(h)])
  BY <1>2, <1>7 DEF AllSound, Sound
<1>10. blacklist' \subseteq Node /\ UNCHANGED <<search_id, starts>>
  BY DEF NodesReply, TypeOK
<1>. QED
  BY <1>2, <1>3, <1>8, <1>9, <1>10, HandlerType

LEMMA AckReplyType ==
    ASSUME TypeOK, NEW q \in sent, AckReply(q)
    PROVE  TypeOK'
<1>1. q \in Request /\ q.to \in Node
  BY DEF TypeOK, Request
<1>2. AllSound(AddToAll(q.to)) /\ AllAddSends(q.to) \subseteq Request
  BY <1>1, AllAddType
<1> DEFINE s(h)     == AddToAll(q.to)[h]
           node(h)  == [s(h).node EXCEPT ![q.to] = Ack(s(h).node[q.to])]
           acked(h) == IF q.to \in s(h).known
                       THEN [s(h) EXCEPT !.node = node(h)] ELSE s(h)
           push(h)  == LastEligible(h, acked(h))
<1>3. PICK h \in Hash : Periodic([AddToAll(q.to) EXCEPT ![h] = Queried(acked(h), push(h))],
                                 AllAddSends(q.to) \cup Queries(h, acked(h), push(h)), wait)
  BY DEF AckReply, FindSearch
<1>4. Sound(acked(h))
  <2>1. Sound(s(h))
    BY <1>2 DEF AllSound
  <2>2. node(h) \in [Node -> NodeRec]
    BY <1>1, <2>1, NodeRecType DEF Sound, Search
  <2>. HIDE DEF s, node
  <2>3. [s(h) EXCEPT !.node = node(h)] \in Search
        /\ [s(h) EXCEPT !.node = node(h)].known = s(h).known
    BY <2>1, <2>2 DEF Sound, Search
  <2>. QED
    BY <2>1, <2>3 DEF Sound
<1>. HIDE DEF acked
<1>5. push(h) \in SUBSET Patient(acked(h)) /\ push(h) \in SUBSET Node
  BY <1>4, TargetsPatient DEF Sound, Patient
<1>6. Sound(Queried(acked(h), push(h)))
  BY <1>4, <1>5, QueriedType
<1>8. Queries(h, acked(h), push(h)) \subseteq Request
  BY <1>4, <1>5, QueriesType DEF Sound
<1>. HIDE DEF push
<1>9. AllSound([AddToAll(q.to) EXCEPT ![h] = Queried(acked(h), push(h))])
  BY <1>2, <1>6 DEF AllSound, Sound
<1>10. blacklist' \subseteq Node /\ UNCHANGED <<search_id, starts>>
  BY DEF AckReply, TypeOK
<1>. QED
  BY <1>2, <1>3, <1>8, <1>9, <1>10, HandlerType

LEMMA SoundSearches ==
    ASSUME TypeOK
    PROVE  /\ AllSound(searches)
           /\ \A n : AllSound(FlushAll(n))
<1>1. AllSound(searches)
  BY DEF TypeOK, AllSound, Sound
<1>. QED
  BY <1>1, FlushType DEF AllSound, FlushAll, Sound

LEMMA OthersType ==
    ASSUME TypeOK
    PROVE  /\ \A n \in Node : Pong(n) => TypeOK'
           /\ \A n \in Node : TruncatedReply(n) => TypeOK'
           /\ \A q \in sent, token \in BOOLEAN : BrokenNodesReply(q, token) => TypeOK'
           /\ Timeout => TypeOK'
           /\ Tick => TypeOK'
<1>1. ASSUME NEW n \in Node, Pong(n) PROVE TypeOK'
  BY <1>1, AllAddType, HandlerType DEF Pong, TypeOK
<1>2. ASSUME NEW n \in Node, Blacklist(n) PROVE blacklist' \subseteq Node
  BY <1>2 DEF Blacklist, TypeOK
<1>3. ASSUME NEW n \in Node, TruncatedReply(n) PROVE TypeOK'
  BY <1>2, <1>3, SoundSearches, HandlerType DEF TruncatedReply
<1>4. ASSUME NEW q \in sent, NEW token \in BOOLEAN, BrokenNodesReply(q, token) PROVE TypeOK'
  <2>1. q.to \in Node
    BY DEF TypeOK, Request
  <2>2. PICK h \in Hash : Periodic([FlushAll(q.to) EXCEPT ![h] =
                              InsertReplied(h, FlushAll(q.to)[h], q.to, token)], {}, wait)
    BY <1>4 DEF BrokenNodesReply, FindSearch
  <2>3. Sound(InsertReplied(h, FlushAll(q.to)[h], q.to, token))
    BY <2>1, SoundSearches, InsertRepliedType DEF AllSound
  <2>4. AllSound([FlushAll(q.to) EXCEPT ![h] = InsertReplied(h, FlushAll(q.to)[h], q.to, token)])
    BY <2>3, SoundSearches DEF AllSound, Sound
  <2>. QED
    BY <1>2, <1>4, <2>1, <2>2, <2>4, HandlerType DEF BrokenNodesReply
<1>5. ASSUME Timeout PROVE TypeOK'
  BY <1>5, SoundSearches, HandlerType DEF Timeout, TypeOK
<1>6. ASSUME Tick PROVE TypeOK'
  <2>1. \A h \in Hash : Sound(OlderSearch(searches[h]))
    BY SoundSearches, OlderType DEF AllSound
  <2>2. wait' \in 0 .. Idle
    BY <1>6, ConstantsAssumption DEF Tick, TypeOK, Idle
  <2>. QED
    BY <1>6, <2>1, <2>2 DEF Tick, TypeOK, Sound
<1>. QED
  BY <1>1, <1>3, <1>4, <1>5, <1>6

LEMMA LaunchType ==
    ASSUME TypeOK, NEW h \in Hash, NEW s, Sound(s), NEW port \in Ports, NEW B \in SUBSET Node,
           NEW ss, AllSound(ss), Launch(h, s, port, B, ss)
    PROVE  AllSound(searches') /\ sent' \subseteq Request /\ wait' \in 0 .. Idle
<1> DEFINE t == Insert(h, [s EXCEPT !.port = port], B)
<1>1. [s EXCEPT !.port = port] \in Search
  BY DEF Sound, Search
<1>2. Sound(t)
  BY <1>1, InsertType
<1>3. Sound(Step(h, t)) /\ StepSends(h, t) \subseteq Request
  BY <1>2, StepType, StepSendsType DEF Sound
<1>4. /\ searches' = [ss EXCEPT ![h] = Step(h, t)]
      /\ Send(StepSends(h, t))
      /\ wait' = 0
  BY DEF Launch
<1>. HIDE DEF t
<1>. QED
  BY <1>3, <1>4, ConstantsAssumption DEF AllSound, Sound, Send, TypeOK, Idle

LEMMA StartSearchType ==
    ASSUME TypeOK, NEW h \in Hash, NEW port \in Ports, NEW B \in SUBSET Node,
           StartSearch(h, port, B)
    PROVE  TypeOK'
<1>1. blacklist' \subseteq Node /\ starts' \in 0 .. MaxStarts
  BY ConstantsAssumption DEF StartSearch, TypeOK
<1>2. NextTid(search_id) \in 0 .. TID_SPACE - 1
  BY ConstantsAssumption DEF NextTid, TypeOK
<1>3. CASE Launch(h, Reused(searches[h]), port, B, searches) /\ UNCHANGED search_id
  <2>1. Sound(Reused(searches[h]))
    BY SoundSearches, ReusedType DEF AllSound
  <2>2. AllSound(searches') /\ sent' \subseteq Request /\ wait' \in 0 .. Idle
    BY <1>3, <2>1, SoundSearches, LaunchType
  <2>. QED
    BY <1>1, <1>3, <2>2 DEF TypeOK, AllSound, Sound
<1>4. ASSUME NEW gone, search_id' = NextTid(search_id),
             Launch(h, Created, port, B,
                    [k \in Hash |-> IF k \in gone THEN Unallocated ELSE searches[k]])
      PROVE  TypeOK'
  <2>1. Sound(Created)
    BY UnallocatedType DEF Created, Sound, Search, TypeOK
  <2>2. AllSound([k \in Hash |-> IF k \in gone THEN Unallocated ELSE searches[k]])
    BY UnallocatedType, SoundSearches DEF AllSound, Sound
  <2>3. AllSound(searches') /\ sent' \subseteq Request /\ wait' \in 0 .. Idle
    BY <1>4, <2>1, <2>2, LaunchType
  <2>. QED
    BY <1>1, <1>2, <1>4, <2>3 DEF TypeOK, AllSound, Sound
<1>5. CASE UNCHANGED <<searches, sent, wait, search_id>>
  BY <1>1, <1>5 DEF TypeOK
<1>. QED
  BY <1>3, <1>4, <1>5 DEF StartSearch

LEMMA TypeInit ==
    ASSUME Init PROVE TypeOK
<1>1. searches \in [Hash -> Search] /\ \A h \in Hash : Sound(searches[h])
  BY UnallocatedType DEF Init, Sound
<1>2. wait \in 0 .. Idle /\ starts \in 0 .. MaxStarts
  BY ConstantsAssumption DEF Init, Idle
<1> QED BY <1>1, <1>2 DEF Init, TypeOK, Sound

LEMMA TypeStep ==
    ASSUME TypeOK, [Next]_vars
    PROVE  TypeOK'
<1>1. ASSUME NEW h \in Hash, NEW port \in Ports, NEW B \in Tables, StartSearch(h, port, B)
      PROVE  TypeOK'
  BY <1>1, StartSearchType, ConstantsAssumption
<1>2. ASSUME NEW q \in sent, NEW S \in Lists, NEW token \in BOOLEAN, NodesReply(q, S, token)
      PROVE  TypeOK'
  BY <1>2, NodesReplyType, ConstantsAssumption
<1>3. ASSUME NEW q \in sent, AckReply(q) PROVE TypeOK'
  BY <1>3, AckReplyType
<1>4. CASE UNCHANGED vars
  BY <1>4 DEF vars, TypeOK
<1> QED BY <1>1, <1>2, <1>3, <1>4, OthersType DEF Next

\* Every variable keeps its type; in particular no search holds more than
\* SEARCH_NODES candidates, no node is asked more than three times in a row and
\* the next deadline is never further away than two retransmission times.
THEOREM TypeCorrect == Spec => []TypeOK
<1>1. Init => TypeOK
  BY TypeInit
<1>2. TypeOK /\ [Next]_vars => TypeOK'
  BY TypeStep
<1>. QED
  BY <1>1, <1>2, PTL DEF Spec

-----------------------------------------------------------------------------
(* A candidate is given up only for nearer ones. *)

\* Whoever is not among the k closest is farther than all of them, and there
\* are k of them: the closest of the others has k nearer ones, all among them.
LEMMA ClosestNearer ==
    ASSUME NEW h \in Hash, NEW S \in SUBSET Node, NEW k \in Nat, NEW n \in S \ Closest(h, S, k)
    PROVE  /\ \A m \in Closest(h, S, k) : Nearer(h, m, n)
           /\ Cardinality(Closest(h, S, k)) >= k
<1> DEFINE before(x) == {m \in S : Nearer(h, m, x)}
           C == Closest(h, S, k)
           far == {Dist[h][x] : x \in S \ C}
<1>1. /\ \A x \in S : Dist[h][x] \in Nat
      /\ \A x, y \in S : Dist[h][x] = Dist[h][y] => x = y
  BY ConstantsAssumption
<1>2. /\ IsFiniteSet(S)
      /\ \A x \in S : IsFiniteSet(before(x)) /\ Cardinality(before(x)) \in Nat
  BY NodeFinite, FS_Subset, FS_CardinalityType
<1>3. /\ C \subseteq S /\ \A x \in C : Cardinality(before(x)) < k
      /\ \A x \in S \ C : ~(Cardinality(before(x)) < k)
  BY DEF Closest
<1>4. ASSUME NEW m \in C PROVE Nearer(h, m, n)
  <2> SUFFICES ASSUME ~Nearer(h, m, n) PROVE FALSE
    OBVIOUS
  <2>1. m \in S /\ n \in S /\ m # n
    BY <1>3
  <2>2. Dist[h][n] < Dist[h][m]
    BY <1>1, <2>1 DEF Nearer
  <2>3. before(n) \subseteq before(m)
    BY <1>1, <2>1, <2>2 DEF Nearer
  <2>4. Cardinality(before(n)) <= Cardinality(before(m))
    BY <1>2, <2>1, <2>3, FS_Subset
  <2>5. Cardinality(before(m)) < k /\ ~(Cardinality(before(n)) < k)
    BY <1>3
  <2>6. Cardinality(before(m)) \in Nat /\ Cardinality(before(n)) \in Nat
    BY <1>2, <2>1
  <2> HIDE DEF before
  <2> QED BY <2>4, <2>5, <2>6
<1>5. PICK x \in S \ C : \A y \in S \ C : Dist[h][x] <= Dist[h][y]
  <2>1. far \in SUBSET Nat /\ far # {}
    BY <1>1
  <2> HIDE DEF far, C
  <2>2. PICK d \in far : \A e \in far : d <= e
    BY <2>1, LeastNat
  <2> QED BY <2>2 DEF far
<1>6. before(x) \subseteq C
  BY <1>1, <1>5 DEF Nearer
<1>7. Cardinality(before(x)) <= Cardinality(C) /\ Cardinality(C) \in Nat
  <2>1. IsFiniteSet(C)
    BY <1>2, <1>3, FS_Subset
  <2> QED BY <1>6, <2>1, FS_Subset, FS_CardinalityType
<1>8. Cardinality(before(x)) >= k
  BY <1>2, <1>3, <1>5
<1> QED BY <1>2, <1>4, <1>5, <1>7, <1>8

\* From K0 to K1 a candidate has only been given up for SEARCH_NODES nearer ones.
Sheds(h, K0, K1) ==
    \A n \in K0 \ K1 : /\ Cardinality(K1) >= SEARCH_NODES
                       /\ \A m \in K1 : Nearer(h, m, n)

LEMMA InsertSheds ==
    ASSUME NEW h \in Hash, NEW K \in SUBSET Node, NEW s \in Search, NEW S \in SUBSET Node,
           Sheds(h, K, s.known)
    PROVE  Sheds(h, K, Insert(h, s, S).known)
<1> DEFINE all == s.known \cup S
           C == Closest(h, all, SEARCH_NODES)
<1>1. Insert(h, s, S).known = C /\ all \in SUBSET Node /\ SEARCH_NODES \in Nat \ {0}
  BY ConstantsAssumption DEF Insert, Search
<1>2. C \subseteq all /\ Cardinality(C) \in Nat /\ Cardinality(C) <= SEARCH_NODES
  BY <1>1, ClosestBound
<1>3. \A x \in all \ C : (\A m \in C : Nearer(h, m, x)) /\ Cardinality(C) >= SEARCH_NODES
  BY <1>1, ClosestNearer
<1> HIDE DEF C
<1>4. ASSUME NEW n \in K \ C
      PROVE  Cardinality(C) >= SEARCH_NODES /\ \A m \in C : Nearer(h, m, n)
  <2>1. CASE n \in s.known
    BY <1>3, <2>1
  <2>2. CASE n \notin s.known /\ s.known \subseteq C
    <3>1. Cardinality(s.known) >= SEARCH_NODES /\ \A m \in s.known : Nearer(h, m, n)
      BY <2>2 DEF Sheds
    <3>2. IsFiniteSet(C)
      BY <1>1, <1>2, NodeFinite, FS_Subset
    <3>3. /\ Cardinality(s.known) <= Cardinality(C) /\ Cardinality(s.known) \in Nat
          /\ Cardinality(C) = Cardinality(s.known) => C = s.known
      BY <2>2, <3>2, FS_Subset, FS_CardinalityType
    <3>4. C = s.known
      BY <1>1, <1>2, <3>1, <3>3
    <3> QED BY <3>1, <3>4
  <2>3. ASSUME n \notin s.known, NEW x \in s.known, x \notin C
        PROVE  Cardinality(C) >= SEARCH_NODES /\ \A m \in C : Nearer(h, m, n)
    <3>1. Nearer(h, x, n)
      BY <2>3 DEF Sheds
    <3>2. Cardinality(C) >= SEARCH_NODES /\ \A m \in C : Nearer(h, m, x)
      BY <1>3, <2>3
    <3>3. \A m \in C : Dist[h][m] \in Nat /\ Dist[h][x] \in Nat /\ Dist[h][n] \in Nat
      BY <1>1, <1>2, <2>3, ConstantsAssumption
    <3> QED BY <3>1, <3>2, <3>3 DEF Nearer
  <2> QED BY <2>1, <2>2, <2>3
<1> QED BY <1>1, <1>4 DEF Sheds

-----------------------------------------------------------------------------
(* What the operations of a search leave as it is. *)

\* The same run of the same search.
SameRun(s, t) ==
    t.live = s.live /\ t.done = s.done /\ t.port = s.port /\ t.tid = s.tid

\* No node has become one that replied.
NoNewReply(s, t) == \A n \in Node : t.node[n].replied => s.node[n].replied

\* No node has replied, changed its token or been acknowledged in between.
NoNews(s, t) ==
    \A n \in Node : /\ t.node[n].replied => s.node[n].replied
                                            /\ t.node[n].token = s.node[n].token
                    /\ t.node[n].acked => s.node[n].acked

LEMMA NoNewsTwice ==
    ASSUME NEW s, NEW t, NEW u
    PROVE  /\ NoNews(s, t) /\ NoNews(t, u) => NoNews(s, u)
           /\ SameRun(s, t) /\ SameRun(t, u) => SameRun(s, u)
           /\ NoNews(s, t) => NoNewReply(s, t)
BY DEF NoNews, SameRun, NoNewReply

\* A search with another array of candidates, or other records of them.
WithArray(s, K, f) == [s EXCEPT !.known = K, !.node = f]
WithNodes(s, f) == [s EXCEPT !.node = f]

LEMMA NodesAlone ==
    ASSUME NEW s \in Search, NEW K, NEW f
    PROVE  /\ WithArray(s, K, f).known = K /\ WithArray(s, K, f).node = f
           /\ SameRun(s, WithArray(s, K, f))
           /\ WithNodes(s, f).known = s.known /\ WithNodes(s, f).node = f
           /\ SameRun(s, WithNodes(s, f))
BY DEF Search, SameRun, WithArray, WithNodes

LEMMA FreshSilent == ~Fresh.replied /\ ~Fresh.acked
BY DEF Fresh

LEMMA InsertKeeps ==
    ASSUME NEW h, NEW s \in Search, NEW S
    PROVE  SameRun(s, Insert(h, s, S)) /\ NoNews(s, Insert(h, s, S))
<1> DEFINE keep == Closest(h, s.known \cup S, SEARCH_NODES)
           f == [n \in Node |-> IF n \in keep \cap s.known THEN s.node[n] ELSE Fresh]
<1>1. Insert(h, s, S) = WithArray(s, keep, f)
  BY DEF Insert, WithArray
<1>2. \A n \in Node : f[n] = s.node[n] \/ f[n] = Fresh
  OBVIOUS
<1> HIDE DEF keep, f
<1>3. Insert(h, s, S).node = f /\ SameRun(s, Insert(h, s, S))
  BY <1>1, NodesAlone
<1> QED BY <1>2, <1>3, FreshSilent DEF NoNews

LEMMA QueriedKeeps ==
    ASSUME NEW s \in Search, NEW T
    PROVE  /\ SameRun(s, Queried(s, T)) /\ NoNews(s, Queried(s, T))
           /\ Queried(s, T).known = s.known
<1> DEFINE f == [n \in Node |-> IF n \in T THEN Ask(s.node[n]) ELSE s.node[n]]
<1>1. Queried(s, T) = WithNodes(s, f)
  BY DEF Queried, WithNodes
<1>2. \A n \in Node : f[n] = s.node[n] \/ f[n] = Ask(s.node[n])
  OBVIOUS
<1>3. \A r : Ask(r).replied = r.replied /\ Ask(r).acked = r.acked /\ Ask(r).token = r.token
  BY DEF Ask
<1> HIDE DEF f
<1>4. /\ Queried(s, T).node = f /\ SameRun(s, Queried(s, T))
      /\ Queried(s, T).known = s.known
  BY <1>1, NodesAlone
<1> QED BY <1>2, <1>3, <1>4 DEF NoNews

LEMMA FlushKeeps ==
    ASSUME NEW s \in Search, NEW S
    PROVE  /\ SameRun(s, Flush(s, S)) /\ NoNews(s, Flush(s, S))
           /\ Flush(s, S).known = s.known \ S
<1> DEFINE f == [n \in Node |-> IF n \in S THEN Fresh ELSE s.node[n]]
           K == s.known \ S
<1>1. Flush(s, S) = WithArray(s, K, f)
  BY DEF Flush, WithArray
<1>2. \A n \in Node : f[n] = s.node[n] \/ f[n] = Fresh
  OBVIOUS
<1> HIDE DEF f
<1>3. /\ Flush(s, S).node = f /\ SameRun(s, Flush(s, S))
      /\ Flush(s, S).known = s.known \ S
  BY <1>1, NodesAlone
<1> QED BY <1>2, <1>3, FreshSilent DEF NoNews

LEMMA AddKeeps ==
    ASSUME NEW h \in Hash, NEW s \in Search, NEW n \in Node
    PROVE  SameRun(s, Add(h, s, n)) /\ NoNews(s, Add(h, s, n)) /\ Sheds(h, s.known, Add(h, s, n).known)
<1> DEFINE t == Insert(h, s, {n})
           u == Queried(t, Eligible(t) \cap {n})
<1>1. t \in Search /\ SameRun(s, t) /\ NoNews(s, t)
  BY InsertType, InsertKeeps DEF Sound
<1>2. Sheds(h, s.known, s.known) /\ s.known \in SUBSET Node
  BY DEF Sheds, Search
<1>3. Sheds(h, s.known, t.known)
  BY <1>2, InsertSheds
<1> HIDE DEF t
<1>4. SameRun(t, u) /\ NoNews(t, u) /\ u.known = t.known
  BY <1>1, QueriedKeeps
<1> HIDE DEF u
<1>5. SameRun(s, u) /\ NoNews(s, u) /\ Sheds(h, s.known, u.known)
  BY <1>1, <1>3, <1>4, NoNewsTwice
<1>6. Add(h, s, n) = u \/ Add(h, s, n) = s
  BY DEF Add, t, u
<1>7. SameRun(s, s) /\ NoNews(s, s)
  BY DEF SameRun, NoNews
<1> QED BY <1>2, <1>5, <1>6, <1>7

LEMMA OlderKeeps ==
    ASSUME NEW s \in Search
    PROVE  /\ SameRun(s, OlderSearch(s)) /\ NoNews(s, OlderSearch(s))
           /\ OlderSearch(s).known = s.known
<1> DEFINE f == [n \in Node |-> OlderNode(s.node[n])]
           k == Older(s.step, EXPIRE + 1)
           t == [s EXCEPT !.step = k, !.node = f]
<1>1. OlderSearch(s) = t
  BY DEF OlderSearch
<1>2. \A r : /\ OlderNode(r).replied = r.replied /\ OlderNode(r).acked = r.acked
             /\ OlderNode(r).token = r.token
  BY DEF OlderNode
<1>3. \A n \in Node : f[n] = OlderNode(s.node[n])
  OBVIOUS
<1> HIDE DEF f, k
<1>4. t.node = f /\ t.known = s.known /\ SameRun(s, t)
  BY DEF Search, SameRun
<1> QED BY <1>1, <1>2, <1>3, <1>4 DEF NoNews

LEMMA ReusedKeeps ==
    ASSUME NEW s, Sound(s)
    PROVE  /\ Reused(s).live = s.live /\ Reused(s).tid = s.tid /\ ~Reused(s).done
           /\ NoNews(s, Reused(s))
<1> DEFINE doubtful == {n \in s.known : s.node[n].pinged >= 3 \/ s.node[n].reply > GOOD}
           t == Flush(s, doubtful)
           f == [n \in Node |-> IF n \in t.known THEN Reset(t.node[n]) ELSE t.node[n]]
           u == [t EXCEPT !.done = FALSE, !.node = f]
<1>1. t \in Search /\ SameRun(s, t) /\ NoNews(s, t)
  BY FlushType, FlushKeeps DEF Sound
<1>2. Reused(s) = u
  BY DEF Reused
<1> HIDE DEF t
<1>3. \A n \in Node : f[n] = Reset(t.node[n]) \/ f[n] = t.node[n]
  OBVIOUS
<1>4. \A r : ~Reset(r).replied /\ ~Reset(r).acked
  BY DEF Reset
<1> HIDE DEF f
<1>5. u.node = f /\ u.live = t.live /\ u.tid = t.tid /\ ~u.done
  BY <1>1 DEF Search
<1>6. NoNews(t, u)
  BY <1>3, <1>4, <1>5 DEF NoNews
<1> HIDE DEF u
<1> QED BY <1>1, <1>2, <1>5, <1>6, NoNewsTwice DEF SameRun

\* What search_step writes in the search itself.
Over(s) == [s EXCEPT !.done = TRUE, !.step = 0]
Stepped(s) == [s EXCEPT !.step = 0]

\* Every node that has replied gave a token.
TokensGiven(s) == \A n \in Node : s.node[n].replied => s.node[n].token

LEMMA OverKeeps ==
    ASSUME NEW s \in Search
    PROVE  /\ Over(s).known = s.known /\ Over(s).node = s.node /\ Over(s).live = s.live
           /\ Over(s).tid = s.tid /\ Over(s).port = s.port
           /\ Stepped(s).known = s.known /\ Stepped(s).node = s.node
           /\ SameRun(s, Stepped(s))
<1> DEFINE t == [s EXCEPT !.done = TRUE]
           u == [t EXCEPT !.step = 0]
<1>1. /\ t.known = s.known /\ t.node = s.node /\ t.live = s.live
      /\ t.tid = s.tid /\ t.port = s.port /\ t \in Search
  BY DEF Search
<1> HIDE DEF t
<1>2. /\ u.known = t.known /\ u.node = t.node /\ u.live = t.live
      /\ u.tid = t.tid /\ u.port = t.port
  BY <1>1 DEF Search
<1>3. Over(s) = u
  BY DEF Over, t
<1>4. /\ Stepped(s).known = s.known /\ Stepped(s).node = s.node
      /\ SameRun(s, Stepped(s))
  BY DEF Stepped, Search, SameRun
<1> QED BY <1>1, <1>2, <1>3, <1>4

LEMMA AckTokenlessKeeps ==
    ASSUME NEW h \in Hash, NEW s \in Search
    PROVE  /\ SameRun(s, AckTokenless(h, s)) /\ AckTokenless(h, s).known = s.known
           /\ NoNewReply(s, AckTokenless(h, s))
           /\ AllReplied(h, s) /\ TokensGiven(s) =>
                \A n \in Node : AckTokenless(h, s).node[n] = s.node[n]
<1> DEFINE r(n) == [s.node[n] EXCEPT !.acked = TRUE]
           f == [n \in Node |-> IF n \in FirstLive(h, s) /\ ~s.node[n].token
                                THEN r(n) ELSE s.node[n]]
           t == AckTokenless(h, s)
<1>1. t = WithNodes(s, f)
  BY DEF AckTokenless, WithNodes
<1>2. \A n \in Node : s.node[n] \in NodeRec
  BY DEF Search
<1>3. \A n \in Node : r(n).replied = s.node[n].replied
  BY <1>2 DEF NodeRec
<1> HIDE DEF r
<1>4. \A n \in Node : f[n] = s.node[n] \/ f[n] = r(n)
  OBVIOUS
<1>5. ASSUME AllReplied(h, s), TokensGiven(s), NEW n \in Node PROVE f[n] = s.node[n]
  BY <1>5 DEF AllReplied, TokensGiven
<1> HIDE DEF f
<1>6. t.known = s.known /\ t.node = f /\ SameRun(s, t)
  BY <1>1, NodesAlone
<1> QED BY <1>3, <1>4, <1>5, <1>6 DEF NoNewReply

LEMMA FirstLiveSame ==
    ASSUME NEW h, NEW s \in Search, NEW t, t.known = s.known,
           \A n \in Node : t.node[n] = s.node[n]
    PROVE  FirstLive(h, t) = FirstLive(h, s)
<1>1. {n \in t.known : t.node[n].pinged < 3} = {n \in s.known : s.node[n].pinged < 3}
  BY DEF Search
<1> QED BY <1>1 DEF FirstLive

LEMMA StepForms ==
    ASSUME NEW h \in Hash, NEW s \in Search
    PROVE  \/ ~Complete(h, s) /\ Step(h, s) = s
           \/ Complete(h, s) /\ s.port = NoPort /\ Step(h, s) = Over(s)
           \/ Complete(h, s) /\ s.port # NoPort /\ Step(h, s) = Over(AckTokenless(h, s))
           \/ /\ ~Complete(h, s) /\ AllReplied(h, s)
              /\ Step(h, s) = Stepped(Queried(AckTokenless(h, s), Unacked(h, s)))
           \/ ~Complete(h, s) /\ Step(h, s) = Stepped(Queried(s, StepQueries(h, s)))
<1>1. CASE Complete(h, s)
  <2>1. Step(h, s) = Over(IF s.port = NoPort THEN s ELSE AckTokenless(h, s))
    BY <1>1 DEF Step, Complete, Over
  <2> QED BY <1>1, <2>1
<1>2. CASE ~Complete(h, s) /\ AllReplied(h, s)
  BY <1>2 DEF Step, Stepped
<1>3. CASE ~AllReplied(h, s) /\ s.step > RETRANSMIT
  BY <1>3 DEF Step, Complete, Stepped
<1>4. CASE ~AllReplied(h, s) /\ ~(s.step > RETRANSMIT)
  BY <1>4 DEF Step, Complete
<1> QED BY <1>1, <1>2, <1>3, <1>4

\* search_step: no candidate comes or goes, nobody becomes a node that replied,
\* and nobody one that acknowledged, if every reply gave a token; a search ends
\* only when its first live nodes have replied and, with a port, acknowledged.
LEMMA StepKeeps ==
    ASSUME NEW h \in Hash, NEW s, Sound(s)
    PROVE  /\ Step(h, s).known = s.known /\ Step(h, s).live = s.live
           /\ Step(h, s).tid = s.tid /\ Step(h, s).port = s.port
           /\ NoNewReply(s, Step(h, s))
           /\ TokensGiven(s) => NoNews(s, Step(h, s))
           /\ Step(h, s).done /\ ~s.done => Complete(h, s)
           /\ Complete(h, s) /\ TokensGiven(s) => FirstLive(h, Step(h, s)) = FirstLive(h, s)
<1> DEFINE a == AckTokenless(h, s)
           t == Step(h, s)
           Kept == /\ t.known = s.known /\ t.live = s.live
                   /\ t.tid = s.tid /\ t.port = s.port
                   /\ NoNewReply(s, t)
                   /\ TokensGiven(s) => NoNews(s, t)
                   /\ t.done /\ ~s.done => Complete(h, s)
                   /\ Complete(h, s) /\ TokensGiven(s) => FirstLive(h, t) = FirstLive(h, s)
<1>1. SameRun(s, s) /\ NoNews(s, s) /\ s \in Search
  BY DEF SameRun, NoNews, Sound
<1>a. Sound(a) /\ a \in Search /\ Patient(a) = Patient(s)
  BY AckTokenlessType DEF Sound
<1>b. /\ SameRun(s, a) /\ a.known = s.known /\ NoNewReply(s, a)
      /\ AllReplied(h, s) /\ TokensGiven(s) => \A n \in Node : a.node[n] = s.node[n]
  BY <1>1, AckTokenlessKeeps
<1> HIDE DEF a
<1>c. AllReplied(h, s) /\ TokensGiven(s) => NoNews(s, a)
  BY <1>b DEF NoNews
<1>2. CASE ~Complete(h, s) /\ t = s
  BY <1>1, <1>2, NoNewsTwice
<1>3. CASE Complete(h, s) /\ s.port = NoPort /\ t = Over(s)
  <2>1. /\ t.known = s.known /\ t.node = s.node /\ t.live = s.live
        /\ t.tid = s.tid /\ t.port = s.port
    BY <1>1, <1>3, OverKeeps
  <2>2. NoNews(s, t) /\ NoNewReply(s, t)
    BY <2>1 DEF NoNews, NoNewReply
  <2>3. FirstLive(h, t) = FirstLive(h, s)
    BY <1>1, <2>1, FirstLiveSame
  <2> QED BY <1>3, <2>1, <2>2, <2>3
<1>4. CASE Complete(h, s) /\ s.port # NoPort /\ t = Over(a)
  <2>1. /\ t.known = a.known /\ t.node = a.node /\ t.live = a.live
        /\ t.tid = a.tid /\ t.port = a.port
    BY <1>a, <1>4, OverKeeps
  <2>2. /\ t.known = s.known /\ t.live = s.live /\ t.tid = s.tid /\ t.port = s.port
    BY <2>1, <1>b DEF SameRun
  <2>3. NoNewReply(s, t) /\ (TokensGiven(s) => NoNews(s, t))
    BY <2>1, <1>b, <1>c, <1>4 DEF NoNews, NoNewReply, Complete
  <2>4. TokensGiven(s) => FirstLive(h, t) = FirstLive(h, s)
    <3>1. TokensGiven(s) => \A n \in Node : t.node[n] = s.node[n]
      BY <2>1, <1>b, <1>4 DEF Complete
    <3> QED BY <3>1, <2>2, <1>1, FirstLiveSame
  <2> QED BY <1>4, <2>2, <2>3, <2>4
<1>5. CASE /\ ~Complete(h, s) /\ AllReplied(h, s)
           /\ t = Stepped(Queried(a, Unacked(h, s)))
  <2> DEFINE u == Queried(a, Unacked(h, s))
  <2>1. u \in Search
    BY <1>1, <1>a, TargetsPatient, QueriedType DEF Sound
  <2>2. SameRun(a, u) /\ NoNews(a, u) /\ u.known = a.known
    BY <1>a, QueriedKeeps
  <2> HIDE DEF u
  <2>3. t.known = u.known /\ t.node = u.node /\ SameRun(u, t)
    BY <2>1, <1>5, OverKeeps DEF u
  <2>4. NoNews(a, t) /\ SameRun(s, t) /\ t.known = s.known
    BY <2>2, <2>3, <1>b DEF NoNews, SameRun
  <2>5. NoNewReply(s, t) /\ (TokensGiven(s) => NoNews(s, t))
    BY <2>4, <1>b, <1>c, <1>5, NoNewsTwice DEF NoNews, NoNewReply
  <2> QED BY <1>5, <2>4, <2>5 DEF SameRun
<1>6. CASE ~Complete(h, s) /\ t = Stepped(Queried(s, StepQueries(h, s)))
  <2> DEFINE u == Queried(s, StepQueries(h, s))
  <2>1. u \in Search
    BY <1>1, TargetsPatient, QueriedType DEF Sound
  <2>2. SameRun(s, u) /\ NoNews(s, u) /\ u.known = s.known
    BY <1>1, QueriedKeeps
  <2> HIDE DEF u
  <2>3. t.known = u.known /\ t.node = u.node /\ SameRun(u, t)
    BY <2>1, <1>6, OverKeeps DEF u
  <2>4. NoNews(s, t) /\ SameRun(s, t) /\ t.known = s.known
    BY <2>2, <2>3 DEF NoNews, SameRun
  <2> QED BY <1>6, <2>4, NoNewsTwice DEF SameRun
<1>7. \/ ~Complete(h, s) /\ t = s
      \/ Complete(h, s) /\ s.port = NoPort /\ t = Over(s)
      \/ Complete(h, s) /\ s.port # NoPort /\ t = Over(a)
      \/ /\ ~Complete(h, s) /\ AllReplied(h, s)
         /\ t = Stepped(Queried(a, Unacked(h, s)))
      \/ ~Complete(h, s) /\ t = Stepped(Queried(s, StepQueries(h, s)))
  BY <1>1, StepForms DEF a
<1> QED BY <1>2, <1>3, <1>4, <1>5, <1>6, <1>7

-----------------------------------------------------------------------------
(* What the handlers and the tail of dht_periodic do, step by step. *)

\* A request a search sends carries its hash and its transaction id, and asks
\* for nodes only if the search has no port.
Carries(h, s, q) ==
    q.hash = h /\ q.tid = s.tid /\ (s.port # NoPort => q.kind # "fn")

FromSearch(ss, q) == \E h \in Hash : ss[h].live /\ Carries(h, ss[h], q)

LEMMA QueriesCarry ==
    ASSUME NEW h, NEW s, NEW T, NEW q \in Queries(h, s, T)
    PROVE  Carries(h, s, q)
BY DEF Queries, Carries

LEMMA StepSendsCarry ==
    ASSUME NEW h, NEW s, NEW q \in StepSends(h, s)
    PROVE  Carries(h, s, q)
<1>1. CASE Complete(h, s)
  BY <1>1 DEF StepSends
<1>2. CASE ~Complete(h, s) /\ AllReplied(h, s)
  <2>1. q \in {[kind |-> "ap", tid |-> s.tid, to |-> n, hash |-> h] : n \in Unacked(h, s)}
    BY <1>2 DEF StepSends
  <2> QED BY <2>1 DEF Carries
<1>3. CASE ~Complete(h, s) /\ ~AllReplied(h, s)
  <2>1. q \in Queries(h, s, StepQueries(h, s))
    BY <1>3 DEF StepSends
  <2> QED BY <2>1, QueriesCarry
<1> QED BY <1>1, <1>2, <1>3

\* The search s of h as the tail of dht_periodic leaves it: gone, or the same
\* run with the same candidates, over only if it was complete.
Settles(h, s, t) ==
    /\ NoNewReply(s, t) /\ (TokensGiven(s) => NoNews(s, t))
    /\ t.live => s.live /\ t.tid = s.tid /\ t.port = s.port /\ t.known = s.known
    /\ t.live /\ t.done /\ ~s.done /\ TokensGiven(s) =>
          Complete(h, s) /\ FirstLive(h, t) = FirstLive(h, s)
    /\ t.live /\ ~t.done => ~s.done

LEMMA StepSettles ==
    ASSUME NEW h \in Hash, NEW s, Sound(s)
    PROVE  /\ Settles(h, s, s) /\ Settles(h, s, Unallocated)
           /\ ~s.done => Settles(h, s, Step(h, s))
<1>1. Settles(h, s, s)
  BY DEF Settles, NoNewReply, NoNews
<1>2. Settles(h, s, Unallocated)
  <2>1. ~Unallocated.live /\ \A n \in Node : Unallocated.node[n] = Fresh
    BY DEF Unallocated
  <2> QED BY <2>1, FreshSilent DEF Settles, NoNewReply, NoNews
<1>3. ~s.done => Settles(h, s, Step(h, s))
  BY StepKeeps DEF Settles
<1> QED BY <1>1, <1>2, <1>3

LEMMA PeriodicSettles ==
    ASSUME NEW ss, AllSound(ss), NEW out, NEW due, Periodic(ss, out, due)
    PROVE  /\ \A h \in Hash : Settles(h, ss[h], searches'[h])
           /\ sent \subseteq sent'
           /\ \A q \in sent' : q \in sent \/ q \in out \/ FromSearch(ss, q)
<1>1. PICK ex \in {ss, Expired(ss)} :
        IF due = 0
        THEN /\ searches' = [h \in Hash |-> IF Due(ex[h]) THEN Step(h, ex[h]) ELSE ex[h]]
             /\ Send(out \cup UNION {StepSends(h, ex[h]) : h \in {k \in Hash : Due(ex[k])}})
             /\ wait' \in Deadlines(searches')
        ELSE /\ searches' = ex
             /\ Send(out)
             /\ wait' = due
  BY DEF Periodic
<1>2. \A h \in Hash : ex[h] = ss[h] \/ ex[h] = Unallocated
  BY DEF Expired
<1>3. \A h \in Hash : Sound(ss[h])
  BY DEF AllSound
<1>4. ~Due(Unallocated) /\ \A s : Due(s) => s.live /\ ~s.done
  BY DEF Due, Unallocated
<1>5. ASSUME NEW h \in Hash PROVE Settles(h, ss[h], searches'[h])
  <2>1. searches'[h] = ex[h] \/ (Due(ex[h]) /\ searches'[h] = Step(h, ex[h]))
    BY <1>1
  <2> QED BY <2>1, <1>2, <1>3, <1>4, StepSettles
<1>6. sent \subseteq sent' /\ \A q \in sent' : q \in sent \/ q \in out
                             \/ \E h \in Hash : Due(ex[h]) /\ q \in StepSends(h, ex[h])
  BY <1>1 DEF Send
<1>7. ASSUME NEW q, NEW h \in Hash, Due(ex[h]), q \in StepSends(h, ex[h])
      PROVE  FromSearch(ss, q)
  <2>1. ex[h] = ss[h] /\ ss[h].live
    BY <1>2, <1>4, <1>7
  <2>2. Carries(h, ss[h], q)
    BY <1>7, <2>1, StepSendsCarry
  <2> QED BY <2>1, <2>2 DEF FromSearch
<1> QED BY <1>5, <1>6, <1>7

\* A request to n that is of one of these kinds and has the id of h's search.
Answered(kinds, n, h) ==
    \E q \in sent : /\ q.kind \in kinds /\ q.to = n
                    /\ searches[h].live /\ q.tid = searches[h].tid

\* The search s of h as a handler leaves it: the same run; a node has replied or
\* acknowledged only to a request with the id of this search; a candidate is
\* gone only if it is blacklisted or all that are left are nearer.
Handled(h, s, t) ==
    /\ SameRun(s, t)
    /\ \A n \in Node : t.node[n].replied => s.node[n].replied \/ Answered({"gp", "fn"}, n, h)
    /\ \A n \in Node : t.node[n].acked => s.node[n].acked \/ Answered({"ap"}, n, h)
    /\ \A n \in s.known \ t.known : n \in blacklist' \/ \A m \in t.known : Nearer(h, m, n)

LEMMA QuietHandled ==
    ASSUME NEW h \in Hash, NEW s, NEW t, SameRun(s, t), NoNews(s, t), Sheds(h, s.known, t.known)
    PROVE  Handled(h, s, t) /\ (TokensGiven(s) => TokensGiven(t))
<1>1. TokensGiven(s) => TokensGiven(t)
  BY DEF NoNews, TokensGiven
<1>2. /\ \A n \in Node : t.node[n].replied => s.node[n].replied
      /\ \A n \in Node : t.node[n].acked => s.node[n].acked
  BY DEF NoNews
<1>3. \A n \in s.known \ t.known : \A m \in t.known : Nearer(h, m, n)
  BY DEF Sheds
<1> QED BY <1>1, <1>2, <1>3 DEF Handled

\* insert_search_node with replied = 1 changes the record of that node alone.
OnlyReplied(s, t, n, token) ==
    /\ SameRun(s, t)
    /\ \A m \in Node : /\ t.node[m].replied => s.node[m].replied \/ m = n
                       /\ t.node[m].acked => s.node[m].acked
    /\ token /\ TokensGiven(s) => TokensGiven(t)

LEMMA InsertRepliedKeeps ==
    ASSUME NEW h \in Hash, NEW s \in Search, NEW n \in Node, NEW token \in BOOLEAN
    PROVE  /\ OnlyReplied(s, InsertReplied(h, s, n, token), n, token)
           /\ InsertReplied(h, s, n, token).known = Insert(h, s, {n}).known
<1> DEFINE t == Insert(h, s, {n})
           f == [t.node EXCEPT ![n] = Reply(t.node[n], token)]
           u == InsertReplied(h, s, n, token)
<1>1. t \in Search /\ SameRun(s, t) /\ NoNews(s, t)
  BY InsertType, InsertKeeps DEF Sound
<1>2. u = IF n \in t.known THEN WithNodes(t, f) ELSE t
  BY DEF InsertReplied, WithNodes
<1> HIDE DEF t, u
<1>3. t.node \in [Node -> NodeRec]
  BY <1>1 DEF Search
<1>4. \A m \in Node : f[m] = IF m = n THEN Reply(t.node[n], token) ELSE t.node[m]
  BY <1>3
<1>5. Reply(t.node[n], token).acked = t.node[n].acked /\ Reply(t.node[n], token).token = token
  BY DEF Reply
<1> HIDE DEF f
<1>6. CASE n \in t.known
  <2>1. u.node = f /\ u.known = t.known /\ SameRun(t, u)
    BY <1>1, <1>2, <1>6, NodesAlone
  <2>2. SameRun(s, u)
    BY <1>1, <2>1, NoNewsTwice
  <2>3. ASSUME NEW m \in Node
        PROVE  /\ u.node[m].replied => s.node[m].replied \/ m = n
               /\ u.node[m].acked => s.node[m].acked
    BY <1>1, <1>4, <1>5, <2>1 DEF NoNews
  <2>4. token /\ TokensGiven(s) => TokensGiven(u)
    BY <1>1, <1>4, <1>5, <2>1 DEF NoNews, TokensGiven
  <2> QED BY <2>1, <2>2, <2>3, <2>4 DEF t, u, OnlyReplied
<1>7. CASE n \notin t.known
  <2>1. u = t
    BY <1>2, <1>7
  <2> QED BY <1>1, <2>1 DEF NoNews, TokensGiven, t, u, OnlyReplied
<1> QED BY <1>6, <1>7

LEMMA AddSendsCarry ==
    ASSUME TypeOK, NEW n \in Node, NEW q \in AllAddSends(n)
    PROVE  FromSearch(searches, q)
<1>1. PICK h \in Hash : q \in AddSends(h, searches[h], n)
  BY DEF AllAddSends
<1> DEFINE s == searches[h]
           t == Insert(h, s, {n})
<1>2. s.live /\ q \in Queries(h, t, Eligible(t) \cap {n})
  BY <1>1 DEF AddSends, Room
<1>3. SameRun(s, t)
  BY InsertKeeps DEF TypeOK
<1> HIDE DEF t
<1>4. Carries(h, s, q)
  BY <1>2, <1>3, QueriesCarry DEF Carries, SameRun
<1> QED BY <1>2, <1>4 DEF FromSearch

LEMMA AddedHandled ==
    ASSUME TypeOK, NEW n \in Node, NEW h \in Hash
    PROVE  /\ AddToAll(n)[h] \in Search
           /\ SameRun(searches[h], AddToAll(n)[h]) /\ NoNews(searches[h], AddToAll(n)[h])
           /\ Sheds(h, searches[h].known, AddToAll(n)[h].known)
<1>1. searches[h] \in Search /\ AddToAll(n)[h] = Add(h, searches[h], n)
  BY DEF TypeOK, AddToAll
<1>2. Sound(searches[h])
  BY DEF TypeOK, Sound
<1> QED BY <1>1, <1>2, AddKeeps, AddType DEF Sound

\* What a handler that ends in the tail of dht_periodic hands over to it.
HandsOver(ss, out) ==
    /\ AllSound(ss) /\ Periodic(ss, out, wait)
    /\ \A h \in Hash : Handled(h, searches[h], ss[h])
    /\ \A q \in out : FromSearch(searches, q)

NewTokens(ss) == \A h \in Hash : TokensGiven(searches[h]) => TokensGiven(ss[h])

LEMMA NodesReplyHands ==
    ASSUME TypeOK, NEW q \in sent, NEW S \in SUBSET Node, NEW token \in BOOLEAN,
           NodesReply(q, S, token)
    PROVE  \E ss, out : HandsOver(ss, out) /\ (token => NewTokens(ss))
<1> DEFINE n == q.to
           added(h) == Insert(h, AddToAll(n)[h], S)
           push(h)  == LastEligible(h, added(h))
           asked(h) == Queried(added(h), push(h))
           after(h) == InsertReplied(h, asked(h), n, token)
<1>1. q \in Request /\ n \in Node /\ q.kind \in {"gp", "fn"}
  BY DEF TypeOK, Request, NodesReply
<1>2. AllSound(AddToAll(n))
  BY <1>1, AllAddType
<1>3. PICK h \in FindSearch(q.tid) :
        Periodic([AddToAll(n) EXCEPT ![h] = after(h)],
                 AllAddSends(n) \cup Queries(h, added(h), push(h)), wait)
  BY DEF NodesReply
<1>4. h \in Hash /\ searches[h].live /\ searches[h].tid = q.tid
  BY <1>3 DEF FindSearch
<1> DEFINE s == searches[h]
           a == AddToAll(n)[h]
           ss == [AddToAll(n) EXCEPT ![h] = after(h)]
           out == AllAddSends(n) \cup Queries(h, added(h), push(h))
<1>5. a \in Search /\ SameRun(s, a) /\ NoNews(s, a) /\ Sheds(h, s.known, a.known) /\ s.known \in SUBSET Node
  BY <1>1, <1>4, AddedHandled DEF TypeOK, Search
<1>6. /\ added(h) \in Search /\ Sound(added(h)) /\ SameRun(a, added(h)) /\ NoNews(a, added(h))
      /\ Sheds(h, s.known, added(h).known)
  BY <1>4, <1>5, InsertType, InsertKeeps, InsertSheds DEF Sound
<1>7. push(h) \in SUBSET Patient(added(h))
  BY <1>4, <1>6, TargetsPatient
<1> HIDE DEF added, push
<1>8. /\ asked(h) \in Search /\ SameRun(added(h), asked(h)) /\ NoNews(added(h), asked(h))
      /\ asked(h).known = added(h).known
  BY <1>6, <1>7, QueriedType, QueriedKeeps DEF Sound
<1> HIDE DEF asked
<1>9. /\ SameRun(s, asked(h)) /\ NoNews(s, asked(h)) /\ Sheds(h, s.known, asked(h).known)
  <2>1. SameRun(s, added(h)) /\ NoNews(s, added(h))
    BY <1>5, <1>6, NoNewsTwice
  <2> QED BY <2>1, <1>6, <1>8, NoNewsTwice
<1>10. /\ Sound(after(h)) /\ OnlyReplied(asked(h), after(h), n, token)
       /\ after(h).known = Insert(h, asked(h), {n}).known
  BY <1>1, <1>4, <1>8, InsertRepliedType, InsertRepliedKeeps
<1>11. Sheds(h, s.known, after(h).known)
  BY <1>1, <1>4, <1>5, <1>8, <1>9, <1>10, InsertSheds
<1> HIDE DEF after
<1>12. Handled(h, s, after(h)) /\ (token /\ TokensGiven(s) => TokensGiven(after(h)))
  <2>1. SameRun(s, after(h))
    BY <1>9, <1>10, NoNewsTwice DEF OnlyReplied
  <2>2. \A m \in Node : /\ after(h).node[m].replied => s.node[m].replied \/ m = n
                        /\ after(h).node[m].acked => s.node[m].acked
    BY <1>9, <1>10 DEF NoNews, OnlyReplied
  <2>3. Answered({"gp", "fn"}, n, h)
    BY <1>1, <1>4 DEF Answered
  <2>4. \A m \in s.known \ after(h).known : \A x \in after(h).known : Nearer(h, x, m)
    BY <1>11 DEF Sheds
  <2>5. TokensGiven(s) => TokensGiven(asked(h))
    BY <1>9 DEF NoNews, TokensGiven
  <2> QED BY <2>1, <2>2, <2>3, <2>4, <2>5, <1>10 DEF Handled, OnlyReplied
<1>13. \A k \in Hash : k # h => /\ Handled(k, searches[k], AddToAll(n)[k])
                                /\ TokensGiven(searches[k]) => TokensGiven(AddToAll(n)[k])
  BY <1>1, AddedHandled, QuietHandled
<1>14. \A r \in out : FromSearch(searches, r)
  <2>1. ASSUME NEW r \in Queries(h, added(h), push(h)) PROVE FromSearch(searches, r)
    <3>1. Carries(h, added(h), r)
      BY QueriesCarry
    <3>2. Carries(h, s, r)
      BY <3>1, <1>5, <1>6 DEF Carries, SameRun
    <3> QED BY <3>2, <1>4 DEF FromSearch
  <2> QED BY <2>1, <1>1, AddSendsCarry
<1>15. /\ ss \in [Hash -> Search] /\ ss[h] = after(h)
       /\ \A k \in Hash : k # h => ss[k] = AddToAll(n)[k]
  BY <1>2, <1>4, <1>10 DEF AllSound, Sound
<1>16. AllSound(ss)
  BY <1>2, <1>10, <1>15 DEF AllSound
<1>17. Periodic(ss, out, wait)
  BY <1>3
<1> HIDE DEF ss, out
<1>18. \A k \in Hash : Handled(k, searches[k], ss[k])
  BY <1>12, <1>13, <1>15
<1>19. token => NewTokens(ss)
  BY <1>12, <1>13, <1>15 DEF NewTokens
<1>20. HandsOver(ss, out)
  BY <1>14, <1>16, <1>17, <1>18 DEF HandsOver
<1> QED BY <1>19, <1>20

LEMMA AckReplyHands ==
    ASSUME TypeOK, NEW q \in sent, AckReply(q)
    PROVE  \E ss, out : HandsOver(ss, out) /\ NewTokens(ss)
<1> DEFINE n == q.to
           a(h)     == AddToAll(n)[h]
           f(h)     == [a(h).node EXCEPT ![n] = Ack(a(h).node[n])]
           acked(h) == IF n \in a(h).known THEN WithNodes(a(h), f(h)) ELSE a(h)
           push(h)  == LastEligible(h, acked(h))
           asked(h) == Queried(acked(h), push(h))
<1>1. q \in Request /\ n \in Node /\ q.kind = "ap"
  BY DEF TypeOK, Request, AckReply
<1>2. AllSound(AddToAll(n))
  BY <1>1, AllAddType
<1>3. PICK h \in FindSearch(q.tid) :
        Periodic([AddToAll(n) EXCEPT ![h] = asked(h)],
                 AllAddSends(n) \cup Queries(h, acked(h), push(h)), wait)
  BY DEF AckReply, WithNodes
<1>4. h \in Hash /\ searches[h].live /\ searches[h].tid = q.tid
  BY <1>3 DEF FindSearch
<1> DEFINE s == searches[h]
           ss == [AddToAll(n) EXCEPT ![h] = asked(h)]
           out == AllAddSends(n) \cup Queries(h, acked(h), push(h))
<1>5. a(h) \in Search /\ SameRun(s, a(h)) /\ NoNews(s, a(h)) /\ Sheds(h, s.known, a(h).known)
      /\ Sound(a(h))
  BY <1>1, <1>2, <1>4, AddedHandled DEF AllSound
<1> HIDE DEF a
<1>6. /\ Sound(acked(h)) /\ SameRun(a(h), acked(h)) /\ acked(h).known = a(h).known
      /\ \A m \in Node : /\ acked(h).node[m].replied => a(h).node[m].replied
                                                        /\ acked(h).node[m].token = a(h).node[m].token
                         /\ acked(h).node[m].acked => a(h).node[m].acked \/ m = n
  <2>1. a(h).node \in [Node -> NodeRec]
    BY <1>5 DEF Search
  <2>2. /\ f(h) \in [Node -> NodeRec]
        /\ \A m \in Node : f(h)[m] = IF m = n THEN Ack(a(h).node[n]) ELSE a(h).node[m]
    BY <1>1, <2>1, NodeRecType
  <2>3. \A r : Ack(r).replied = r.replied /\ Ack(r).token = r.token
    BY DEF Ack
  <2> HIDE DEF f
  <2>4. CASE n \in a(h).known
    <3> DEFINE t == WithNodes(a(h), f(h))
    <3>1. acked(h) = t
      BY <2>4
    <3>2. t.known = a(h).known /\ t.node = f(h) /\ SameRun(a(h), t)
      BY <1>5, NodesAlone
    <3>3. t \in Search
      BY <1>5, <2>2 DEF Search, WithNodes
    <3> HIDE DEF t
    <3>4. Sound(t)
      BY <1>5, <3>2, <3>3 DEF Sound
    <3> HIDE DEF acked
    <3> QED BY <2>2, <2>3, <3>1, <3>2, <3>4
  <2>5. CASE n \notin a(h).known
    <3>1. acked(h) = a(h) /\ SameRun(a(h), a(h))
      BY <2>5 DEF SameRun
    <3> HIDE DEF acked
    <3> QED BY <1>5, <3>1
  <2> QED BY <2>4, <2>5
<1> HIDE DEF acked
<1>7. push(h) \in SUBSET Patient(acked(h)) /\ acked(h) \in Search
  BY <1>4, <1>6, TargetsPatient DEF Sound
<1> HIDE DEF push
<1>8. /\ Sound(asked(h)) /\ SameRun(acked(h), asked(h)) /\ NoNews(acked(h), asked(h))
      /\ asked(h).known = acked(h).known
  BY <1>6, <1>7, QueriedType, QueriedKeeps
<1> HIDE DEF asked
<1>9. Handled(h, s, asked(h)) /\ (TokensGiven(s) => TokensGiven(asked(h)))
  <2>1. SameRun(s, asked(h))
    BY <1>5, <1>6, <1>8, NoNewsTwice
  <2>2. \A m \in Node : /\ asked(h).node[m].replied => s.node[m].replied
                                                       /\ asked(h).node[m].token = s.node[m].token
                        /\ asked(h).node[m].acked => s.node[m].acked \/ m = n
    BY <1>5, <1>6, <1>8 DEF NoNews
  <2>3. Answered({"ap"}, n, h)
    BY <1>1, <1>4 DEF Answered
  <2>4. \A m \in s.known \ asked(h).known : \A x \in asked(h).known : Nearer(h, x, m)
    BY <1>5, <1>6, <1>8 DEF Sheds
  <2>5. TokensGiven(s) => TokensGiven(asked(h))
    BY <2>2 DEF TokensGiven
  <2> QED BY <2>1, <2>2, <2>3, <2>4, <2>5 DEF Handled
<1>10. \A k \in Hash : k # h => /\ Handled(k, searches[k], AddToAll(n)[k])
                                /\ TokensGiven(searches[k]) => TokensGiven(AddToAll(n)[k])
  BY <1>1, AddedHandled, QuietHandled
<1>11. \A r \in out : FromSearch(searches, r)
  <2>1. ASSUME NEW r \in Queries(h, acked(h), push(h)) PROVE FromSearch(searches, r)
    <3>1. Carries(h, acked(h), r)
      BY QueriesCarry
    <3>2. Carries(h, s, r)
      BY <3>1, <1>5, <1>6 DEF Carries, SameRun
    <3> QED BY <3>2, <1>4 DEF FromSearch
  <2> QED BY <2>1, <1>1, AddSendsCarry
<1>12. /\ ss \in [Hash -> Search] /\ ss[h] = asked(h)
       /\ \A k \in Hash : k # h => ss[k] = AddToAll(n)[k]
  BY <1>2, <1>4, <1>8 DEF AllSound, Sound
<1>13. AllSound(ss)
  BY <1>2, <1>8, <1>12 DEF AllSound
<1>14. Periodic(ss, out, wait)
  BY <1>3
<1> HIDE DEF ss, out
<1>15. \A k \in Hash : Handled(k, searches[k], ss[k])
  BY <1>9, <1>10, <1>12
<1>16. NewTokens(ss)
  BY <1>9, <1>10, <1>12 DEF NewTokens
<1>17. HandsOver(ss, out)
  BY <1>11, <1>13, <1>14, <1>15 DEF HandsOver
<1> QED BY <1>16, <1>17

LEMMA PongHands ==
    ASSUME TypeOK, NEW n \in Node, Pong(n)
    PROVE  \E ss, out : HandsOver(ss, out) /\ NewTokens(ss)
<1>1. AllSound(AddToAll(n)) /\ Periodic(AddToAll(n), AllAddSends(n), wait)
  BY AllAddType DEF Pong
<1>2. \A h \in Hash : /\ Handled(h, searches[h], AddToAll(n)[h])
                      /\ TokensGiven(searches[h]) => TokensGiven(AddToAll(n)[h])
  BY AddedHandled, QuietHandled
<1>3. \A r \in AllAddSends(n) : FromSearch(searches, r)
  BY AddSendsCarry
<1>4. NewTokens(AddToAll(n))
  BY <1>2 DEF NewTokens
<1>5. HandsOver(AddToAll(n), AllAddSends(n))
  BY <1>1, <1>2, <1>3 DEF HandsOver
<1> QED BY <1>4, <1>5

LEMMA TimeoutHands ==
    ASSUME TypeOK, Timeout
    PROVE  \E ss, out : HandsOver(ss, out) /\ NewTokens(ss)
<1>1. AllSound(searches) /\ Periodic(searches, {}, wait)
  BY SoundSearches DEF Timeout
<1>2. \A h \in Hash : Handled(h, searches[h], searches[h])
  BY DEF Handled, SameRun
<1>3. HandsOver(searches, {}) /\ NewTokens(searches)
  BY <1>1, <1>2 DEF HandsOver, NewTokens
<1> QED BY <1>3

\* blacklist_node and flush_search_node: the node goes, and is blacklisted.
LEMMA FlushedHandled ==
    ASSUME TypeOK, NEW n \in Node, n \in blacklist', NEW h \in Hash
    PROVE  /\ FlushAll(n)[h] \in Search
           /\ SameRun(searches[h], FlushAll(n)[h]) /\ NoNews(searches[h], FlushAll(n)[h])
           /\ \A m \in searches[h].known : m # n => m \in FlushAll(n)[h].known
<1>1. searches[h] \in Search /\ Sound(searches[h])
  BY DEF TypeOK, Sound
<1>2. /\ FlushAll(n)[h] = searches[h] \/ FlushAll(n)[h] = Flush(searches[h], {n})
  BY DEF FlushAll
<1>3. SameRun(searches[h], searches[h]) /\ NoNews(searches[h], searches[h])
  BY DEF SameRun, NoNews
<1>4. /\ Flush(searches[h], {n}) \in Search /\ SameRun(searches[h], Flush(searches[h], {n}))
      /\ NoNews(searches[h], Flush(searches[h], {n}))
      /\ Flush(searches[h], {n}).known = searches[h].known \ {n}
  BY <1>1, FlushKeeps, FlushType DEF Sound
<1> QED BY <1>1, <1>2, <1>3, <1>4

LEMMA TruncatedReplyHands ==
    ASSUME TypeOK, NEW n \in Node, TruncatedReply(n)
    PROVE  \E ss, out : HandsOver(ss, out) /\ NewTokens(ss)
<1>1. /\ AllSound(FlushAll(n)) /\ Periodic(FlushAll(n), {}, wait) /\ n \in blacklist'
  BY SoundSearches DEF TruncatedReply, Blacklist
<1>2. ASSUME NEW h \in Hash
      PROVE  /\ Handled(h, searches[h], FlushAll(n)[h])
             /\ TokensGiven(searches[h]) => TokensGiven(FlushAll(n)[h])
  <2>1. /\ SameRun(searches[h], FlushAll(n)[h]) /\ NoNews(searches[h], FlushAll(n)[h])
        /\ \A m \in searches[h].known : m # n => m \in FlushAll(n)[h].known
    BY <1>1, FlushedHandled
  <2> QED BY <2>1, <1>1 DEF Handled, NoNews, TokensGiven
<1>3. HandsOver(FlushAll(n), {}) /\ NewTokens(FlushAll(n))
  BY <1>1, <1>2 DEF HandsOver, NewTokens
<1> QED BY <1>3

LEMMA BrokenNodesReplyHands ==
    ASSUME TypeOK, NEW q \in sent, NEW token \in BOOLEAN, BrokenNodesReply(q, token)
    PROVE  \E ss, out : HandsOver(ss, out) /\ (token => NewTokens(ss))
<1> DEFINE n == q.to
           fl(h) == FlushAll(n)[h]
           after(h) == InsertReplied(h, fl(h), n, token)
<1>1. q \in Request /\ n \in Node /\ q.kind \in {"gp", "fn"} /\ n \in blacklist'
  BY DEF TypeOK, Request, BrokenNodesReply, Blacklist
<1>2. AllSound(FlushAll(n))
  BY SoundSearches
<1>3. PICK h \in FindSearch(q.tid) : Periodic([FlushAll(n) EXCEPT ![h] = after(h)], {}, wait)
  BY DEF BrokenNodesReply
<1>4. h \in Hash /\ searches[h].live /\ searches[h].tid = q.tid
  BY <1>3 DEF FindSearch
<1> DEFINE s == searches[h]
           ss == [FlushAll(n) EXCEPT ![h] = after(h)]
<1>5. /\ \A k \in Hash : /\ SameRun(searches[k], FlushAll(n)[k]) /\ NoNews(searches[k], FlushAll(n)[k])
                         /\ \A m \in searches[k].known : m # n => m \in FlushAll(n)[k].known
      /\ fl(h) \in Search /\ fl(h).known \in SUBSET Node
  BY <1>1, <1>4, FlushedHandled DEF Search
<1>6. SameRun(s, fl(h)) /\ NoNews(s, fl(h)) /\ \A m \in s.known : m # n => m \in fl(h).known
  BY <1>4, <1>5
<1> HIDE DEF fl
<1>7. /\ Sound(after(h)) /\ OnlyReplied(fl(h), after(h), n, token)
      /\ after(h).known = Insert(h, fl(h), {n}).known
  BY <1>1, <1>4, <1>5, InsertRepliedType, InsertRepliedKeeps
<1>8. Sheds(h, fl(h).known, after(h).known)
  <2>1. Sheds(h, fl(h).known, fl(h).known)
    BY DEF Sheds
  <2> QED BY <2>1, <1>1, <1>4, <1>5, <1>7, InsertSheds
<1> HIDE DEF after
<1>9. Handled(h, s, after(h)) /\ (token /\ TokensGiven(s) => TokensGiven(after(h)))
  <2>1. SameRun(s, after(h))
    BY <1>6, <1>7, NoNewsTwice DEF OnlyReplied
  <2>2. \A m \in Node : /\ after(h).node[m].replied => s.node[m].replied \/ m = n
                        /\ after(h).node[m].acked => s.node[m].acked
    BY <1>6, <1>7 DEF NoNews, OnlyReplied
  <2>3. Answered({"gp", "fn"}, n, h)
    BY <1>1, <1>4 DEF Answered
  <2>4. \A m \in s.known \ after(h).known :
           m \in blacklist' \/ \A x \in after(h).known : Nearer(h, x, m)
    BY <1>1, <1>6, <1>8 DEF Sheds
  <2>5. TokensGiven(s) => TokensGiven(fl(h))
    BY <1>6 DEF NoNews, TokensGiven
  <2> QED BY <2>1, <2>2, <2>3, <2>4, <2>5, <1>7 DEF Handled, OnlyReplied
<1>10. \A k \in Hash : k # h => /\ Handled(k, searches[k], FlushAll(n)[k])
                                /\ TokensGiven(searches[k]) => TokensGiven(FlushAll(n)[k])
  BY <1>1, <1>5 DEF Handled, NoNews, TokensGiven
<1>11. /\ ss \in [Hash -> Search] /\ ss[h] = after(h)
       /\ \A k \in Hash : k # h => ss[k] = FlushAll(n)[k]
  BY <1>2, <1>4, <1>7 DEF AllSound, Sound
<1>12. AllSound(ss)
  BY <1>2, <1>7, <1>11 DEF AllSound
<1>13. Periodic(ss, {}, wait)
  BY <1>3
<1> HIDE DEF ss
<1>14. \A k \in Hash : Handled(k, searches[k], ss[k])
  BY <1>9, <1>10, <1>11
<1>15. token => NewTokens(ss)
  BY <1>9, <1>10, <1>11 DEF NewTokens
<1>16. HandsOver(ss, {})
  BY <1>12, <1>13, <1>14 DEF HandsOver
<1> QED BY <1>15, <1>16

\* The steps a message or a timeout of select makes.
Message ==
    \/ \E q \in sent, S \in Lists, token \in BOOLEAN :
         (q.kind = "gp" => token \in GpTokens) /\ NodesReply(q, S, token)
    \/ \E q \in sent : AckReply(q)
    \/ \E n \in Node : Pong(n)
    \/ \E n \in Node : TruncatedReply(n)
    \/ \E q \in sent, token \in BOOLEAN : BrokenNodesReply(q, token)
    \/ Timeout

\* Every reply that comes in is whole and carries a token.
WithTokens == ~Malformed /\ GpTokens = {TRUE} /\ \A q \in sent : q.kind # "fn"

LEMMA MessageHands ==
    ASSUME TypeOK, Message
    PROVE  /\ UNCHANGED <<search_id, starts>>
           /\ \E ss, out : HandsOver(ss, out) /\ (WithTokens => NewTokens(ss))
<1>1. ASSUME NEW q \in sent, NEW S \in Lists, NEW token \in BOOLEAN,
             q.kind = "gp" => token \in GpTokens, NodesReply(q, S, token)
      PROVE  /\ UNCHANGED <<search_id, starts>>
             /\ \E ss, out : HandsOver(ss, out) /\ (WithTokens => NewTokens(ss))
  <2>1. S \in SUBSET Node
    BY ConstantsAssumption
  <2>2. PICK ss, out : HandsOver(ss, out) /\ (token => NewTokens(ss))
    BY <1>1, <2>1, NodesReplyHands
  <2>3. WithTokens => token
    BY <1>1 DEF WithTokens, NodesReply
  <2> QED BY <1>1, <2>2, <2>3 DEF NodesReply
<1>2. ASSUME NEW q \in sent, AckReply(q)
      PROVE  /\ UNCHANGED <<search_id, starts>>
             /\ \E ss, out : HandsOver(ss, out) /\ (WithTokens => NewTokens(ss))
  BY <1>2, AckReplyHands DEF AckReply
<1>3. ASSUME NEW n \in Node, Pong(n)
      PROVE  /\ UNCHANGED <<search_id, starts>>
             /\ \E ss, out : HandsOver(ss, out) /\ (WithTokens => NewTokens(ss))
  BY <1>3, PongHands DEF Pong
<1>4. ASSUME NEW n \in Node, TruncatedReply(n)
      PROVE  /\ UNCHANGED <<search_id, starts>>
             /\ \E ss, out : HandsOver(ss, out) /\ (WithTokens => NewTokens(ss))
  BY <1>4, TruncatedReplyHands DEF TruncatedReply
<1>5. ASSUME NEW q \in sent, NEW token \in BOOLEAN, BrokenNodesReply(q, token)
      PROVE  /\ UNCHANGED <<search_id, starts>>
             /\ \E ss, out : HandsOver(ss, out) /\ (WithTokens => NewTokens(ss))
  <2>1. PICK ss, out : HandsOver(ss, out) /\ (token => NewTokens(ss))
    BY <1>5, BrokenNodesReplyHands
  <2>2. ~WithTokens
    BY <1>5 DEF WithTokens, BrokenNodesReply
  <2> QED BY <1>5, <2>1, <2>2 DEF BrokenNodesReply
<1>6. CASE Timeout
  BY <1>6, TimeoutHands DEF Timeout
<1> QED BY <1>1, <1>2, <1>3, <1>4, <1>5, <1>6 DEF Message

\* A search that is complete and has a port was acknowledged by its first live
\* nodes, if every reply gave a token.
LEMMA CompleteAcked ==
    ASSUME NEW h, NEW s \in Search, Complete(h, s), s.port # NoPort, TokensGiven(s),
           NEW n \in FirstLive(h, s)
    PROVE  s.node[n].acked
<1>1. n \in Node
  BY DEF FirstLive, Closest, Search
<1>2. s.node[n].token
  BY <1>1 DEF Complete, AllReplied, TokensGiven
<1> QED BY <1>2 DEF Complete, Unacked

\* From s to t, the search of h before and after a step in which it is not
\* called for: what holds of t that did not of s was brought about by an answer.
Moves(h, s, t) ==
    /\ t.live => s.live /\ t.tid = s.tid /\ t.port = s.port
    /\ t.live /\ ~t.done => ~s.done
    /\ \A n \in Node : t.node[n].replied => s.node[n].replied \/ Answered({"gp", "fn"}, n, h)
    /\ t.live => \A n \in s.known \ t.known :
                    n \in blacklist' \/ \A m \in t.known : Nearer(h, m, n)
    /\ WithTokens /\ TokensGiven(s) =>
          /\ TokensGiven(t)
          /\ \A n \in Node : t.node[n].acked => s.node[n].acked \/ Answered({"ap"}, n, h)
          /\ t.live /\ t.done /\ ~s.done /\ s.port # NoPort =>
                \A n \in FirstLive(h, t) : s.node[n].acked \/ Answered({"ap"}, n, h)

LEMMA MessageMoves ==
    ASSUME TypeOK, Message
    PROVE  /\ \A h \in Hash : Moves(h, searches[h], searches'[h])
           /\ sent \subseteq sent' /\ \A q \in sent' \ sent : FromSearch(searches, q)
           /\ UNCHANGED <<search_id, starts>>
<1>1. PICK ss, out : HandsOver(ss, out) /\ (WithTokens => NewTokens(ss))
  BY MessageHands
<1>2. /\ AllSound(ss) /\ Periodic(ss, out, wait)
      /\ \A h \in Hash : Handled(h, searches[h], ss[h])
      /\ \A q \in out : FromSearch(searches, q)
  BY <1>1 DEF HandsOver
<1>3. /\ \A h \in Hash : Settles(h, ss[h], searches'[h])
      /\ sent \subseteq sent'
      /\ \A q \in sent' : q \in sent \/ q \in out \/ FromSearch(ss, q)
  BY <1>2, PeriodicSettles
<1>4. ASSUME NEW q, FromSearch(ss, q) PROVE FromSearch(searches, q)
  BY <1>2, <1>4 DEF FromSearch, Handled, SameRun, Carries
<1>5. ASSUME NEW h \in Hash PROVE Moves(h, searches[h], searches'[h])
  <2> DEFINE s == searches[h]
             u == ss[h]
             t == searches'[h]
  <2>1. Handled(h, s, u) /\ Settles(h, u, t) /\ u \in Search
    BY <1>2, <1>3 DEF AllSound
  <2>2. WithTokens /\ TokensGiven(s) => TokensGiven(u)
    BY <1>1 DEF NewTokens
  <2> HIDE DEF s, u, t
  <2>3. /\ t.live => s.live /\ t.tid = s.tid /\ t.port = s.port
        /\ t.live /\ ~t.done => ~s.done
    BY <2>1 DEF Handled, Settles, SameRun
  <2>4. \A n \in Node : t.node[n].replied => s.node[n].replied \/ Answered({"gp", "fn"}, n, h)
    BY <2>1 DEF Handled, Settles, NoNewReply
  <2>5. t.live => \A n \in s.known \ t.known :
                     n \in blacklist' \/ \A m \in t.known : Nearer(h, m, n)
    BY <2>1 DEF Handled, Settles
  <2>6. ASSUME WithTokens, TokensGiven(s)
        PROVE  /\ TokensGiven(t)
               /\ \A n \in Node : t.node[n].acked => s.node[n].acked \/ Answered({"ap"}, n, h)
               /\ t.live /\ t.done /\ ~s.done /\ s.port # NoPort =>
                     \A n \in FirstLive(h, t) : s.node[n].acked \/ Answered({"ap"}, n, h)
    <3>1. TokensGiven(u) /\ NoNews(u, t)
      BY <2>1, <2>2, <2>6 DEF Settles
    <3>2. TokensGiven(t)
      BY <3>1 DEF NoNews, TokensGiven
    <3>3. \A n \in Node : u.node[n].acked => s.node[n].acked \/ Answered({"ap"}, n, h)
      BY <2>1 DEF Handled
    <3>4. \A n \in Node : t.node[n].acked => s.node[n].acked \/ Answered({"ap"}, n, h)
      BY <3>1, <3>3 DEF NoNews
    <3>5. ASSUME t.live, t.done, ~s.done, s.port # NoPort, NEW n \in FirstLive(h, t)
          PROVE  s.node[n].acked \/ Answered({"ap"}, n, h)
      <4>1. ~u.done /\ u.port # NoPort
        BY <2>1, <3>5 DEF Handled, SameRun
      <4>2. Complete(h, u) /\ n \in FirstLive(h, u)
        BY <2>1, <3>1, <3>5, <4>1 DEF Settles
      <4>3. u.node[n].acked /\ n \in Node
        BY <2>1, <3>1, <4>1, <4>2, CompleteAcked DEF FirstLive, Closest, Search
      <4> QED BY <3>3, <4>3
    <3> QED BY <3>2, <3>4, <3>5
  <2>7. Moves(h, s, t)
    BY <2>3, <2>4, <2>5, <2>6 DEF Moves
  <2> QED BY <2>7 DEF s, t
<1> QED BY <1>2, <1>3, <1>4, <1>5, MessageHands

LEMMA TickMoves ==
    ASSUME TypeOK, Tick
    PROVE  /\ \A h \in Hash : Moves(h, searches[h], searches'[h])
           /\ UNCHANGED <<sent, search_id, starts>>
<1>1. ASSUME NEW h \in Hash PROVE Moves(h, searches[h], searches'[h])
  <2>1. searches[h] \in Search /\ searches'[h] = OlderSearch(searches[h])
    BY DEF TypeOK, Tick
  <2>2. /\ SameRun(searches[h], searches'[h]) /\ NoNews(searches[h], searches'[h])
        /\ searches'[h].known = searches[h].known
    BY <2>1, OlderKeeps
  <2> QED BY <2>2 DEF Moves, SameRun, NoNews, TokensGiven
<1> QED BY <1>1 DEF Tick

-----------------------------------------------------------------------------
(* What dht_search does. *)

\* The search of h launched from s with this port, the others being as in ss.
Launched(h, s, port, ss) ==
    /\ \A k \in Hash : k # h => searches'[k] = ss[k]
    /\ searches'[h].live = s.live /\ searches'[h].tid = s.tid
    /\ searches'[h].port = port
    /\ NoNewReply(s, searches'[h])
    /\ TokensGiven(s) => NoNews(s, searches'[h])
    /\ sent \subseteq sent' /\ \A q \in sent' \ sent : Carries(h, searches'[h], q)
    /\ searches'[h].done /\ ~s.done /\ port # NoPort /\ TokensGiven(s) =>
          \A n \in FirstLive(h, searches'[h]) : s.node[n].acked

LEMMA LaunchEffect ==
    ASSUME NEW h \in Hash, NEW s, Sound(s), NEW port \in Ports, NEW B \in SUBSET Node,
           NEW ss, AllSound(ss), Launch(h, s, port, B, ss)
    PROVE  Launched(h, s, port, ss)
<1> DEFINE r == [s EXCEPT !.port = port]
           t == Insert(h, r, B)
           u == Step(h, t)
<1>1. /\ r \in Search /\ r.node = s.node /\ r.live = s.live /\ r.tid = s.tid
      /\ r.port = port /\ r.done = s.done
  BY DEF Sound, Search
<1> HIDE DEF r
<1>2. Sound(t) /\ t \in Search /\ SameRun(r, t) /\ NoNews(r, t)
  BY <1>1, InsertType, InsertKeeps DEF Sound
<1>3. NoNews(s, t) /\ NoNewReply(s, t)
  BY <1>1, <1>2 DEF NoNews, NoNewReply
<1>4. /\ searches' = [ss EXCEPT ![h] = u] /\ Send(StepSends(h, t))
  BY DEF Launch, r
<1> HIDE DEF t
<1>5. /\ u.known = t.known /\ u.live = t.live /\ u.tid = t.tid /\ u.port = t.port
      /\ NoNewReply(t, u) /\ (TokensGiven(t) => NoNews(t, u))
      /\ u.done /\ ~t.done => Complete(h, t)
      /\ Complete(h, t) /\ TokensGiven(t) => FirstLive(h, u) = FirstLive(h, t)
  BY <1>2, StepKeeps
<1> HIDE DEF u
<1>6. searches'[h] = u /\ \A k \in Hash : k # h => searches'[k] = ss[k]
  BY <1>4 DEF AllSound
<1>7. u.live = s.live /\ u.tid = s.tid /\ u.port = port /\ t.done = s.done /\ t.port = port
  BY <1>1, <1>2, <1>5 DEF SameRun
<1>8. NoNewReply(s, u)
  BY <1>3, <1>5 DEF NoNewReply
<1>9. TokensGiven(s) => TokensGiven(t)
  BY <1>3 DEF NoNews, TokensGiven
<1>10. TokensGiven(s) => NoNews(s, u)
  BY <1>3, <1>5, <1>9, NoNewsTwice
<1>11. sent \subseteq sent' /\ \A q \in sent' \ sent : Carries(h, u, q)
  <2>1. sent' \subseteq sent \cup StepSends(h, t) /\ sent \subseteq sent'
    BY <1>4 DEF Send
  <2>2. \A q \in StepSends(h, t) : Carries(h, t, q)
    BY StepSendsCarry
  <2> QED BY <2>1, <2>2, <1>5 DEF Carries
<1>12. ASSUME u.done, ~s.done, port # NoPort, TokensGiven(s), NEW n \in FirstLive(h, u)
       PROVE  s.node[n].acked
  <2>1. Complete(h, t) /\ n \in FirstLive(h, t) /\ TokensGiven(t)
    BY <1>5, <1>7, <1>9, <1>12
  <2>2. t.node[n].acked /\ n \in Node
    BY <1>2, <1>7, <1>12, <2>1, CompleteAcked DEF FirstLive, Closest, Search
  <2> QED BY <2>2, <1>3 DEF NoNews
<1> QED BY <1>6, <1>7, <1>8, <1>10, <1>11, <1>12 DEF Launched

\* Everything dht_search may do: the search of h runs again, or h gets a search
\* of its own and an ended one may go for it, or nothing happens.
LEMMA StartEffect ==
    ASSUME TypeOK, NEW h \in Hash, NEW port \in Ports, NEW B \in SUBSET Node,
           StartSearch(h, port, B)
    PROVE  /\ starts < MaxStarts /\ starts' = starts + 1
           /\ \/ /\ searches[h].live
                 /\ Launch(h, Reused(searches[h]), port, B, searches)
                 /\ UNCHANGED search_id
              \/ /\ ~searches[h].live /\ search_id' = NextTid(search_id)
                 /\ \E ss : /\ AllSound(ss)
                            /\ \A k \in Hash : \/ ss[k] = searches[k]
                                               \/ ss[k] = Unallocated /\ searches[k].done
                            /\ Launch(h, Created, port, B, ss)
              \/ UNCHANGED <<searches, sent, wait, search_id>>
<1>1. ASSUME NEW gone \in Replaced,
             Launch(h, Created, port, B,
                    [k \in Hash |-> IF k \in gone THEN Unallocated ELSE searches[k]])
      PROVE  \E ss : /\ AllSound(ss)
                     /\ \A k \in Hash : \/ ss[k] = searches[k]
                                        \/ ss[k] = Unallocated /\ searches[k].done
                     /\ Launch(h, Created, port, B, ss)
  <2> DEFINE ss == [k \in Hash |-> IF k \in gone THEN Unallocated ELSE searches[k]]
  <2>1. \A k \in gone : searches[k].done
    BY DEF Replaced, Oldest
  <2>2. AllSound(ss)
    BY UnallocatedType, SoundSearches DEF AllSound, Sound
  <2>3. \A k \in Hash : ss[k] = searches[k] \/ (ss[k] = Unallocated /\ searches[k].done)
    BY <2>1
  <2>4. Launch(h, Created, port, B, ss)
    BY <1>1
  <2> HIDE DEF ss
  <2> QED BY <2>2, <2>3, <2>4
<1> QED BY <1>1 DEF StartSearch

LEMMA CreatedFacts ==
    ASSUME TypeOK
    PROVE  /\ Sound(Created) /\ Created.live /\ ~Created.done /\ Created.tid = search_id
           /\ \A n \in Node : ~Created.node[n].replied /\ ~Created.node[n].acked
           /\ TokensGiven(Created)
<1>1. Sound(Created)
  BY UnallocatedType DEF Created, Sound, Search, TypeOK
<1> DEFINE a == [Unallocated EXCEPT !.live = TRUE]
           b == [a EXCEPT !.done = FALSE]
           c == [b EXCEPT !.tid = search_id]
<1>2. Created = c
  BY DEF Created
<1>3. Unallocated \in Search
  BY UnallocatedType DEF Sound
<1>4. a \in Search /\ a.live /\ a.node = Unallocated.node
  BY <1>3 DEF Search
<1> HIDE DEF a
<1>5. b \in Search /\ b.live /\ ~b.done /\ b.node = a.node
  BY <1>4 DEF Search
<1> HIDE DEF b
<1>6. c.live /\ ~c.done /\ c.tid = search_id /\ c.node = b.node
  BY <1>5 DEF Search
<1>7. \A n \in Node : Created.node[n] = Fresh
  BY <1>2, <1>4, <1>5, <1>6 DEF Unallocated
<1> QED BY <1>1, <1>2, <1>6, <1>7, FreshSilent DEF TokensGiven

-----------------------------------------------------------------------------
(* The transaction ids in use. *)

\* How far id t is ahead of id i, going round.
AheadOf(i, t) == IF t >= i THEN t - i ELSE t - i + TID_SPACE

\* t is one of the k ids given out just before i.
InUse(i, k, t) == AheadOf(i, t) >= TID_SPACE - k

LEMMA NextIsFree ==
    ASSUME NEW i \in 0 .. TID_SPACE - 1, NEW t \in 0 .. TID_SPACE - 1, NEW k \in Nat,
           k < TID_SPACE
    PROVE  /\ InUse(NextTid(i), k + 1, i)
           /\ InUse(i, k, t) => /\ t # i
                                /\ InUse(NextTid(i), k + 1, t)
                                /\ InUse(i, k + 1, t)
BY ConstantsAssumption DEF InUse, AheadOf, NextTid

\* Every id of a search or of a request was given out, an id belongs to one
\* search, and a request with the id of a search was sent for its hash.
Tids ==
    /\ \A h \in Hash : searches[h].live => InUse(search_id, starts, searches[h].tid)
    /\ \A q \in sent : InUse(search_id, starts, q.tid)
    /\ \A h \in Hash : \A q \in sent :
          searches[h].live /\ q.tid = searches[h].tid => q.hash = h
    /\ \A h, k \in Hash :
          searches[h].live /\ searches[k].live /\ searches[h].tid = searches[k].tid => h = k

\* A step that is no call of dht_search.
AllMove ==
    /\ \A h \in Hash : Moves(h, searches[h], searches'[h])
    /\ sent \subseteq sent' /\ \A q \in sent' \ sent : FromSearch(searches, q)
    /\ UNCHANGED <<search_id, starts>>

LEMMA MovesOn ==
    ASSUME TypeOK, Message \/ Tick
    PROVE  AllMove
<1>1. CASE Message
  BY <1>1, MessageMoves DEF AllMove
<1>2. CASE Tick
  BY <1>2, TickMoves DEF AllMove
<1> QED BY <1>1, <1>2

\* The same id means the same search.
LEMMA TidsMove ==
    ASSUME Tids, AllMove
    PROVE  Tids'
<1>1. \A h \in Hash : searches'[h].live =>
                         searches[h].live /\ searches'[h].tid = searches[h].tid
  BY DEF AllMove, Moves
<1>2. \A q \in sent' \ sent : \E k \in Hash :
         searches[k].live /\ q.hash = k /\ q.tid = searches[k].tid
  BY DEF AllMove, FromSearch, Carries
<1>3. \A h \in Hash : searches'[h].live => InUse(search_id', starts', searches'[h].tid)
  BY <1>1 DEF Tids, AllMove
<1>4. \A q \in sent' : InUse(search_id', starts', q.tid)
  BY <1>2 DEF Tids, AllMove
<1>5. ASSUME NEW h \in Hash, NEW q \in sent', searches'[h].live, q.tid = searches'[h].tid
      PROVE  q.hash = h
  BY <1>1, <1>2, <1>5 DEF Tids
<1>6. \A h, k \in Hash :
        searches'[h].live /\ searches'[k].live /\ searches'[h].tid = searches'[k].tid => h = k
  BY <1>1 DEF Tids
<1> QED BY <1>3, <1>4, <1>5, <1>6 DEF Tids

\* What a call of dht_search makes of the searches, whichever way it takes: that
\* of h is launched from s, with an id of its own or the one it had.
Launches(h, s, port) ==
    /\ \A k \in Hash : k # h => \/ searches'[k] = searches[k]
                                \/ searches'[k] = Unallocated
    /\ searches'[h].live /\ searches'[h].tid = s.tid /\ searches'[h].port = port
    /\ NoNewReply(s, searches'[h])
    /\ TokensGiven(s) => NoNews(s, searches'[h])
    /\ sent \subseteq sent' /\ \A q \in sent' \ sent : Carries(h, searches'[h], q)
    /\ searches'[h].done /\ port # NoPort /\ TokensGiven(s) =>
          \A n \in FirstLive(h, searches'[h]) : s.node[n].acked
    /\ ~s.done

LEMMA StartLaunches ==
    ASSUME TypeOK, NEW h \in Hash, NEW port \in Ports, NEW B \in SUBSET Node,
           StartSearch(h, port, B)
    PROVE  /\ starts < MaxStarts /\ starts' = starts + 1
           /\ \/ /\ searches[h].live /\ UNCHANGED search_id
                 /\ Launches(h, Reused(searches[h]), port)
              \/ /\ ~searches[h].live /\ search_id' = NextTid(search_id)
                 /\ Launches(h, Created, port)
              \/ UNCHANGED <<searches, sent, wait, search_id>>
<1>1. Sound(searches[h]) /\ AllSound(searches)
  BY SoundSearches DEF AllSound
<1>2. CASE /\ searches[h].live /\ UNCHANGED search_id
           /\ Launch(h, Reused(searches[h]), port, B, searches)
  <2>1. Sound(Reused(searches[h])) /\ ~Reused(searches[h]).done
        /\ Reused(searches[h]).live = searches[h].live
    BY <1>1, ReusedType, ReusedKeeps
  <2>2. Launched(h, Reused(searches[h]), port, searches)
    BY <1>1, <1>2, <2>1, LaunchEffect
  <2>3. Launches(h, Reused(searches[h]), port)
    BY <1>2, <2>1, <2>2 DEF Launched, Launches
  <2> QED BY <1>2, <2>3, StartEffect
<1>3. ASSUME ~searches[h].live, search_id' = NextTid(search_id),
             NEW ss, AllSound(ss), Launch(h, Created, port, B, ss),
             \A k \in Hash : ss[k] = searches[k] \/ (ss[k] = Unallocated /\ searches[k].done)
      PROVE  Launches(h, Created, port)
  <2>1. Sound(Created) /\ Created.live /\ ~Created.done
    BY CreatedFacts
  <2>2. Launched(h, Created, port, ss)
    BY <1>3, <2>1, LaunchEffect
  <2> QED BY <1>3, <2>1, <2>2 DEF Launched, Launches
<1> QED BY <1>2, <1>3, StartEffect

LEMMA TidsStart ==
    ASSUME TypeOK, TypeOK', Tids, MaxStarts <= TID_SPACE,
           NEW h \in Hash, NEW port \in Ports, NEW B \in SUBSET Node, StartSearch(h, port, B)
    PROVE  Tids'
<1>1. /\ search_id \in 0 .. TID_SPACE - 1 /\ starts \in Nat /\ starts < TID_SPACE
      /\ starts' = starts + 1
      /\ \A k \in Hash : searches[k].tid \in 0 .. TID_SPACE - 1
      /\ \A q \in sent : q.tid \in 0 .. TID_SPACE - 1
  BY StartLaunches, ConstantsAssumption DEF TypeOK, Search, Request
<1>2. ASSUME NEW t \in 0 .. TID_SPACE - 1, InUse(search_id, starts, t)
      PROVE  /\ t # search_id /\ InUse(search_id, starts', t)
             /\ InUse(NextTid(search_id), starts', t)
  BY <1>1, <1>2, NextIsFree
<1>3. InUse(NextTid(search_id), starts', search_id)
  BY <1>1, NextIsFree
<1>4. CASE /\ searches[h].live /\ UNCHANGED search_id
           /\ Launches(h, Reused(searches[h]), port)
  <2>1. \A k \in Hash : searches'[k].live =>
                           searches[k].live /\ searches'[k].tid = searches[k].tid
    <3>1. Reused(searches[h]).tid = searches[h].tid
      BY SoundSearches, ReusedKeeps DEF AllSound
    <3>2. ~Unallocated.live
      BY DEF Unallocated
    <3> QED BY <1>4, <3>1, <3>2 DEF Launches
  <2>2. searches'[h].live
        /\ \A q \in sent' \ sent : q.hash = h /\ q.tid = searches'[h].tid
    BY <1>4 DEF Launches, Carries
  <2>3. \A k \in Hash : searches'[k].live => InUse(search_id', starts', searches'[k].tid)
    BY <1>1, <1>2, <1>4, <2>1 DEF Tids
  <2>4. \A q \in sent' : InUse(search_id', starts', q.tid)
    BY <1>1, <1>2, <1>4, <2>2, <2>3 DEF Tids
  <2>5. \A k \in Hash : \A q \in sent' :
           searches'[k].live /\ q.tid = searches'[k].tid => q.hash = k
    BY <2>1, <2>2 DEF Tids
  <2>6. \A k, j \in Hash :
          searches'[k].live /\ searches'[j].live /\ searches'[k].tid = searches'[j].tid => k = j
    BY <2>1 DEF Tids
  <2> QED BY <2>3, <2>4, <2>5, <2>6 DEF Tids
<1>5. CASE /\ ~searches[h].live /\ search_id' = NextTid(search_id)
           /\ Launches(h, Created, port)
  <2>1. \A k \in Hash : k # h /\ searches'[k].live =>
                           searches[k].live /\ searches'[k].tid = searches[k].tid
    <3>1. ~Unallocated.live
      BY DEF Unallocated
    <3> QED BY <1>5, <3>1 DEF Launches
  <2>2. /\ searches'[h].tid = search_id
        /\ \A q \in sent' \ sent : q.hash = h /\ q.tid = search_id
    BY <1>5, CreatedFacts DEF Launches, Carries
  <2>3. \A k \in Hash : k # h /\ searches'[k].live => searches'[k].tid # search_id
    BY <1>1, <1>2, <2>1 DEF Tids
  <2>4. \A q \in sent : q.tid # search_id
    BY <1>1, <1>2 DEF Tids
  <2>5. \A k \in Hash : searches'[k].live => InUse(search_id', starts', searches'[k].tid)
    BY <1>1, <1>2, <1>3, <1>5, <2>1, <2>2 DEF Tids
  <2>6. \A q \in sent' : InUse(search_id', starts', q.tid)
    BY <1>1, <1>2, <1>3, <1>5, <2>2 DEF Tids
  <2>7. \A k \in Hash : \A q \in sent' :
           searches'[k].live /\ q.tid = searches'[k].tid => q.hash = k
    BY <2>1, <2>2, <2>3, <2>4 DEF Tids
  <2>8. \A k, j \in Hash :
          searches'[k].live /\ searches'[j].live /\ searches'[k].tid = searches'[j].tid => k = j
    BY <2>1, <2>2, <2>3 DEF Tids
  <2> QED BY <2>5, <2>6, <2>7, <2>8 DEF Tids
<1>6. CASE UNCHANGED <<searches, sent, wait, search_id>>
  BY <1>1, <1>2, <1>6 DEF Tids
<1> QED BY <1>4, <1>5, <1>6, StartLaunches

-----------------------------------------------------------------------------
(* Nobody counts as having replied, or acknowledged, without a request. *)

RepliesBacked ==
    \A h \in Hash : \A n \in Node : searches[h].node[n].replied => Asked({"gp", "fn"}, n, h)

AskInv == TypeOK /\ Tids /\ RepliesBacked

LEMMA AskedStays ==
    ASSUME sent \subseteq sent', NEW kinds, NEW n, NEW h, Asked(kinds, n, h)
    PROVE  Asked(kinds, n, h)'
BY DEF Asked

LEMMA AnsweredAsked ==
    ASSUME Tids, NEW kinds, NEW n, NEW h \in Hash, Answered(kinds, n, h)
    PROVE  Asked(kinds, n, h)
BY DEF Tids, Answered, Asked

LEMMA UnallocatedSilent ==
    ~Unallocated.live /\ \A n \in Node : ~Unallocated.node[n].replied /\ ~Unallocated.node[n].acked
<1>1. ~Unallocated.live /\ \A n \in Node : Unallocated.node[n] = Fresh
  BY DEF Unallocated
<1> QED BY <1>1, FreshSilent

LEMMA RepliesMove ==
    ASSUME Tids, RepliesBacked, AllMove
    PROVE  RepliesBacked'
<1>1. ASSUME NEW h \in Hash, NEW n \in Node, searches'[h].node[n].replied
      PROVE  Asked({"gp", "fn"}, n, h)
  <2>1. searches[h].node[n].replied \/ Answered({"gp", "fn"}, n, h)
    BY <1>1 DEF AllMove, Moves
  <2> QED BY <2>1, AnsweredAsked DEF RepliesBacked
<1> QED BY <1>1, AskedStays DEF RepliesBacked, AllMove

LEMMA RepliesStart ==
    ASSUME TypeOK, RepliesBacked,
           NEW h \in Hash, NEW port \in Ports, NEW B \in SUBSET Node, StartSearch(h, port, B)
    PROVE  RepliesBacked'
<1>1. ASSUME NEW s, Launches(h, s, port), \A n \in Node : s.node[n].replied =>
                                                             searches[h].node[n].replied
      PROVE  RepliesBacked'
  <2>1. ASSUME NEW k \in Hash, NEW n \in Node, searches'[k].node[n].replied
        PROVE  searches[k].node[n].replied
    BY <1>1, <2>1, UnallocatedSilent DEF Launches, NoNewReply
  <2>2. sent \subseteq sent'
    BY <1>1 DEF Launches
  <2> QED BY <2>1, <2>2, AskedStays DEF RepliesBacked
<1>2. CASE Launches(h, Reused(searches[h]), port)
  BY <1>1, <1>2, SoundSearches, ReusedKeeps DEF AllSound, NoNews
<1>3. CASE Launches(h, Created, port)
  BY <1>1, <1>3, CreatedFacts
<1>4. CASE UNCHANGED <<searches, sent, wait, search_id>>
  BY <1>4 DEF RepliesBacked, Asked
<1> QED BY <1>2, <1>3, <1>4, StartLaunches

\* The steps of the system: a call of dht_search, a message or timeout, a tick.
LEMMA NextParts ==
    ASSUME [Next]_vars
    PROVE  \/ \E h \in Hash, port \in Ports, B \in SUBSET Node : StartSearch(h, port, B)
           \/ Message \/ Tick \/ UNCHANGED vars
BY ConstantsAssumption DEF Next, Message

LEMMA AskStep ==
    ASSUME MaxStarts <= TID_SPACE, AskInv, [Next]_vars
    PROVE  AskInv'
<1>1. TypeOK /\ Tids /\ RepliesBacked
  BY DEF AskInv
<1>2. TypeOK'
  BY <1>1, TypeStep
<1>3. ASSUME NEW h \in Hash, NEW port \in Ports, NEW B \in SUBSET Node, StartSearch(h, port, B)
      PROVE  Tids' /\ RepliesBacked'
  BY <1>1, <1>2, <1>3, TidsStart, RepliesStart
<1>4. CASE Message \/ Tick
  BY <1>1, <1>2, <1>4, MovesOn, TidsMove, RepliesMove DEF AskInv
<1>5. CASE UNCHANGED vars
  <2>1. searches' = searches /\ sent' = sent /\ search_id' = search_id /\ starts' = starts
    BY <1>5 DEF vars
  <2> QED BY <1>1, <1>2, <2>1 DEF AskInv, Tids, RepliesBacked, Asked
<1> QED BY <1>2, <1>3, <1>4, <1>5, NextParts DEF AskInv

LEMMA AskInit ==
    ASSUME Init PROVE Tids /\ RepliesBacked
BY UnallocatedSilent DEF Init, Tids, RepliesBacked

\* No reply is ever mixed into a search it does not answer, as long as fewer
\* searches have been begun than there are transaction ids: find_search tells
\* searches apart by their tid, and the tid of a search that is gone is not
\* given out again before the counter has come round.
THEOREM NoRepliesMixed ==
    ASSUME MaxStarts <= TID_SPACE
    PROVE  Spec => []RepliedWasAsked
<1>1. Init => TypeOK
  BY TypeInit
<1>2. Init => AskInv
  BY <1>1, AskInit DEF AskInv
<1>3. AskInv /\ [Next]_vars => AskInv'
  BY AskStep
<1>4. AskInv => RepliedWasAsked
  <2>1. TypeOK => \A h \in Hash : searches[h].known \subseteq Node
    BY DEF TypeOK, Search
  <2> QED BY <2>1 DEF AskInv, RepliesBacked, RepliedWasAsked
<1> QED BY <1>2, <1>3, <1>4, PTL DEF Spec

\* Every reply that comes in is whole and carries a token: so every node that
\* replied gave one, and has acknowledged only an announcement it was sent.
TokensAll == \A h \in Hash : TokensGiven(searches[h])

AcksBacked ==
    \A h \in Hash : \A n \in Node : searches[h].node[n].acked => Asked({"ap"}, n, h)

AnnounceInv == AskInv /\ TokensAll /\ AcksBacked /\ \A q \in sent : q.kind # "fn"

\* The searches announce, and every node answers with a token.
AllAnnounce == NoPort \notin Ports /\ ~Malformed /\ GpTokens = {TRUE}

LEMMA AnnounceInit ==
    ASSUME Init PROVE TokensAll /\ AcksBacked /\ \A q \in sent : q.kind # "fn"
BY UnallocatedSilent DEF Init, TokensAll, TokensGiven, AcksBacked

LEMMA AcksMove ==
    ASSUME AllAnnounce, AnnounceInv, AllMove
    PROVE  TokensAll' /\ AcksBacked' /\ \A q \in sent' : q.kind # "fn"
<1>1. WithTokens /\ Tids /\ TypeOK
  BY DEF WithTokens, AllAnnounce, AnnounceInv, AskInv
<1>2. ASSUME NEW h \in Hash
      PROVE  /\ TokensGiven(searches'[h])
             /\ \A n \in Node : searches'[h].node[n].acked =>
                   searches[h].node[n].acked \/ Answered({"ap"}, n, h)
  BY <1>1 DEF AnnounceInv, TokensAll, AllMove, Moves
<1>3. ASSUME NEW h \in Hash, NEW n \in Node, searches'[h].node[n].acked
      PROVE  Asked({"ap"}, n, h)'
  <2>1. Asked({"ap"}, n, h)
    BY <1>1, <1>2, <1>3, AnsweredAsked DEF AnnounceInv, AcksBacked
  <2> QED BY <2>1, AskedStays DEF AllMove
<1>4. ASSUME NEW q \in sent' PROVE q.kind # "fn"
  <2>1. CASE q \in sent
    BY <2>1 DEF AnnounceInv
  <2>2. CASE q \notin sent
    <3>1. PICK h \in Hash : Carries(h, searches[h], q)
      BY <2>2, <1>4 DEF AllMove, FromSearch
    <3>2. searches[h].port # NoPort
      BY <1>1 DEF TypeOK, Search, AllAnnounce
    <3> QED BY <3>1, <3>2 DEF Carries
  <2> QED BY <2>1, <2>2
<1> QED BY <1>2, <1>3, <1>4 DEF TokensAll, AcksBacked, TokensGiven

LEMMA AcksStart ==
    ASSUME AllAnnounce, AnnounceInv,
           NEW h \in Hash, NEW port \in Ports, NEW B \in SUBSET Node, StartSearch(h, port, B)
    PROVE  TokensAll' /\ AcksBacked' /\ \A q \in sent' : q.kind # "fn"
<1>1. TypeOK /\ TokensAll /\ AcksBacked /\ port # NoPort
  BY DEF AllAnnounce, AnnounceInv, AskInv
<1>2. ASSUME NEW s, Launches(h, s, port), TokensGiven(s),
             \A n \in Node : s.node[n].acked => searches[h].node[n].acked
      PROVE  TokensAll' /\ AcksBacked' /\ \A q \in sent' : q.kind # "fn"
  <2>1. NoNews(s, searches'[h]) /\ sent \subseteq sent'
        /\ \A k \in Hash : k # h => searches'[k] = searches[k] \/ searches'[k] = Unallocated
    BY <1>2 DEF Launches
  <2>2. ASSUME NEW k \in Hash
        PROVE  /\ TokensGiven(searches'[k])
               /\ \A n \in Node : searches'[k].node[n].acked => searches[k].node[n].acked
    <3>1. CASE k = h
      BY <1>2, <2>1, <3>1 DEF NoNews, TokensGiven
    <3>2. CASE k # h
      BY <1>1, <2>1, <3>2, UnallocatedSilent DEF TokensAll, TokensGiven
    <3> QED BY <3>1, <3>2
  <2>3. ASSUME NEW k \in Hash, NEW n \in Node, searches'[k].node[n].acked
        PROVE  Asked({"ap"}, n, k)'
    BY <1>1, <2>1, <2>2, <2>3, AskedStays DEF AcksBacked
  <2>4. \A q \in sent' \ sent : q.kind # "fn"
    BY <1>1, <1>2 DEF Launches, Carries
  <2> QED BY <2>2, <2>3, <2>4 DEF TokensAll, AcksBacked, AnnounceInv, TokensGiven
<1>3. CASE Launches(h, Reused(searches[h]), port)
  <2>1. NoNews(searches[h], Reused(searches[h]))
    BY <1>1, SoundSearches, ReusedKeeps DEF AllSound
  <2>2. TokensGiven(Reused(searches[h]))
    BY <1>1, <2>1 DEF NoNews, TokensGiven, TokensAll
  <2> QED BY <1>2, <1>3, <2>1, <2>2 DEF NoNews
<1>4. CASE Launches(h, Created, port)
  BY <1>1, <1>2, <1>4, CreatedFacts
<1>5. CASE UNCHANGED <<searches, sent, wait, search_id>>
  BY <1>5 DEF AnnounceInv, TokensAll, TokensGiven, AcksBacked, Asked
<1> QED BY <1>1, <1>3, <1>4, <1>5, StartLaunches

LEMMA AnnounceStep ==
    ASSUME MaxStarts <= TID_SPACE, AllAnnounce, AnnounceInv, [Next]_vars
    PROVE  AnnounceInv'
<1>1. AskInv' /\ TypeOK
  BY AskStep DEF AnnounceInv, AskInv
<1>2. ASSUME NEW h \in Hash, NEW port \in Ports, NEW B \in SUBSET Node, StartSearch(h, port, B)
      PROVE  AnnounceInv'
  BY <1>1, <1>2, AcksStart DEF AnnounceInv
<1>3. CASE Message \/ Tick
  BY <1>1, <1>3, MovesOn, AcksMove DEF AnnounceInv
<1>4. CASE UNCHANGED vars
  <2>1. searches' = searches /\ sent' = sent
    BY <1>4 DEF vars
  <2> QED BY <1>1, <2>1 DEF AnnounceInv, TokensAll, TokensGiven, AcksBacked, Asked
<1> QED BY <1>2, <1>3, <1>4, NextParts

\* A node that counts as holding our announcement was sent one, when every reply
\* is whole and carries a token.  (Without: search_step marks a node that gave no
\* token as acknowledged, and its next reply may carry one.)
THEOREM NoUnsentAcks ==
    ASSUME MaxStarts <= TID_SPACE, AllAnnounce
    PROVE  Spec => []AckedWasAnnounced
<1>1. Init => AnnounceInv
  BY TypeInit, AskInit, AnnounceInit DEF AnnounceInv, AskInv
<1>2. AnnounceInv /\ [Next]_vars => AnnounceInv'
  BY AnnounceStep
<1>3. AnnounceInv => AckedWasAnnounced
  <2>1. TypeOK => \A h \in Hash : searches[h].known \subseteq Node
    BY DEF TypeOK, Search
  <2> QED BY <2>1 DEF AnnounceInv, AskInv, AcksBacked, AckedWasAnnounced
<1> QED BY <1>1, <1>2, <1>3, PTL DEF Spec

\* A search that ends has announced itself to each of its first live nodes,
\* under the same hypotheses: search_step ends it only when they have all
\* acknowledged, and what acknowledged was sent an announcement.
THEOREM EndsAnnounced ==
    ASSUME MaxStarts <= TID_SPACE, AllAnnounce
    PROVE  Spec => CompletionAnnounces
<1> DEFINE Ends(h) == /\ Running(h) /\ searches[h].port # NoPort
                      /\ searches'[h].live /\ searches'[h].done
           Told(h) == \A n \in FirstLive(h, searches'[h]) :
                         \E q \in sent' : q.kind = "ap" /\ q.to = n /\ q.hash = h
<1>1. Init => AnnounceInv
  BY TypeInit, AskInit, AnnounceInit DEF AnnounceInv, AskInv
<1>2. AnnounceInv /\ [Next]_vars => AnnounceInv'
  BY AnnounceStep
<1>3. ASSUME AnnounceInv, AnnounceInv', [Next]_vars, NEW h \in Hash, Ends(h)
      PROVE  Told(h)
  <2>1. /\ TypeOK /\ Tids /\ TokensAll /\ AcksBacked /\ WithTokens
        /\ searches[h].live /\ ~searches[h].done
        /\ \A n \in FirstLive(h, searches'[h]) : n \in Node
    <3>1. searches'[h] \in Search
      BY <1>3 DEF AnnounceInv, AskInv, TypeOK
    <3> QED BY <1>3, <3>1 DEF AnnounceInv, AskInv, WithTokens, AllAnnounce, Running,
                              FirstLive, Closest, Search
  <2>2. ASSUME sent \subseteq sent', NEW n \in Node, Asked({"ap"}, n, h)
        PROVE  \E q \in sent' : q.kind = "ap" /\ q.to = n /\ q.hash = h
    BY <2>2 DEF Asked
  <2>3. ASSUME NEW k \in Hash, NEW port \in Ports, NEW B \in SUBSET Node,
               StartSearch(k, port, B)
        PROVE  Told(h)
    <3>1. ASSUME Launches(k, Reused(searches[k]), port), k = h PROVE Told(h)
      <4>1. NoNews(searches[h], Reused(searches[h])) /\ port # NoPort
        BY <2>1, SoundSearches, ReusedKeeps DEF AllSound, AllAnnounce
      <4>2. TokensGiven(Reused(searches[h]))
        BY <2>1, <4>1 DEF NoNews, TokensGiven, TokensAll
      <4>3. sent \subseteq sent' /\ \A n \in FirstLive(h, searches'[h]) :
                                        Reused(searches[h]).node[n].acked
        BY <1>3, <3>1, <4>1, <4>2 DEF Launches
      <4>4. \A n \in FirstLive(h, searches'[h]) : Asked({"ap"}, n, h)
        BY <2>1, <4>1, <4>3 DEF NoNews, AcksBacked
      <4> QED BY <2>1, <2>2, <4>3, <4>4
    <3>2. ASSUME NEW s, Launches(k, s, port), k # h PROVE Told(h)
      BY <1>3, <2>1, <3>2, UnallocatedSilent DEF Launches
    <3>3. CASE UNCHANGED <<searches, sent, wait, search_id>>
      BY <1>3, <2>1, <3>3
    <3> QED BY <2>1, <2>3, <3>1, <3>2, <3>3, StartLaunches
  <2>4. CASE Message \/ Tick
    <3>1. AllMove
      BY <2>1, <2>4, MovesOn
    <3>2. sent \subseteq sent' /\ \A n \in FirstLive(h, searches'[h]) :
             searches[h].node[n].acked \/ Answered({"ap"}, n, h)
      BY <1>3, <2>1, <3>1 DEF AllMove, Moves, TokensAll
    <3>3. \A n \in FirstLive(h, searches'[h]) : Asked({"ap"}, n, h)
      BY <2>1, <3>2, AnsweredAsked DEF AcksBacked
    <3> QED BY <2>1, <2>2, <3>2, <3>3
  <2>5. CASE UNCHANGED vars
    BY <1>3, <2>1, <2>5 DEF vars
  <2> QED BY <1>3, <2>3, <2>4, <2>5, NextParts
<1>4. AnnounceInv /\ AnnounceInv' /\ [Next]_vars =>
        [\A h \in Hash :
           (Running(h) /\ searches[h].port # NoPort /\ searches'[h].live /\ searches'[h].done)
              => \A n \in FirstLive(h, searches'[h]) :
                   \E q \in sent' : q.kind = "ap" /\ q.to = n /\ q.hash = h]_vars
  BY <1>3
<1> QED BY <1>1, <1>2, <1>4, PTL DEF Spec, CompletionAnnounces

\* A candidate is given up only for nearer ones, whatever arrives.
THEOREM OnlyNearerReplace == Spec => KeepsNearest
<1>1. Init => TypeOK
  BY TypeInit
<1>2. TypeOK /\ [Next]_vars => TypeOK'
  BY TypeStep
<1>3. ASSUME TypeOK, [Next]_vars, starts' = starts, NEW h \in Hash,
             searches[h].live, searches'[h].live,
             NEW n \in searches[h].known \ (searches'[h].known \cup blacklist')
      PROVE  \A m \in searches'[h].known : Nearer(h, m, n)
  <2>1. ASSUME NEW k \in Hash, NEW port \in Ports, NEW B \in SUBSET Node,
               StartSearch(k, port, B)
        PROVE  FALSE
    BY <1>3, <2>1 DEF StartSearch, TypeOK
  <2>2. CASE Message \/ Tick
    BY <1>3, <2>2, MovesOn DEF AllMove, Moves
  <2>3. CASE UNCHANGED vars
    BY <1>3, <2>3 DEF vars
  <2> QED BY <1>3, <2>1, <2>2, <2>3, NextParts
<1>4. TypeOK /\ [Next]_vars =>
        [\A h \in Hash :
           (searches[h].live /\ searches'[h].live /\ starts' = starts)
              => \A n \in searches[h].known \ (searches'[h].known \cup blacklist') :
                   \A m \in searches'[h].known : Nearer(h, m, n)]_vars
  BY <1>3
<1> QED BY <1>1, <1>2, <1>4, PTL DEF Spec, KeepsNearest

-----------------------------------------------------------------------------
(* The next deadline. *)

LEMMA PeriodicWakes ==
    ASSUME NEW ss, AllSound(ss), NEW out, NEW due, Periodic(ss, out, due),
           (\E h \in Hash : ss[h].live /\ ~ss[h].done) => due # Idle
    PROVE  NeverForgotten'
<1> SUFFICES ASSUME NEW h \in Hash, searches'[h].live, ~searches'[h].done
             PROVE  wait' # Idle
  BY DEF NeverForgotten, Running
<1>1. \E k \in Hash : ss[k].live /\ ~ss[k].done
  BY PeriodicSettles DEF Settles
<1>2. wait' = due \/ wait' \in Deadlines(searches')
  BY DEF Periodic
<1>3. wait' \in Deadlines(searches') => wait' \in 0 .. 2 * RETRANSMIT
  BY DEF Deadlines
<1> QED BY <1>1, <1>2, <1>3, ConstantsAssumption DEF Idle

\* An unfinished search always has a next deadline: dht_search makes it due at
\* once, the tail of dht_periodic sets another one as long as a search runs, and
\* no message begins a search.
THEOREM AlwaysScheduled == Spec => []NeverForgotten
<1>1. Init => TypeOK /\ NeverForgotten
  BY TypeInit, UnallocatedSilent DEF Init, NeverForgotten, Running
<1>2. ASSUME TypeOK, NeverForgotten, [Next]_vars PROVE TypeOK' /\ NeverForgotten'
  <2>1. TypeOK'
    BY <1>2, TypeStep
  <2>2. ASSUME NEW h \in Hash, NEW port \in Ports, NEW B \in SUBSET Node,
               StartSearch(h, port, B)
        PROVE  NeverForgotten'
    <3>1. wait' = 0 \/ UNCHANGED <<searches, sent, wait, search_id>>
      BY <2>2 DEF StartSearch, Launch
    <3>2. Idle # 0
      BY ConstantsAssumption DEF Idle
    <3> QED BY <1>2, <3>1, <3>2 DEF NeverForgotten, Running
  <2>3. CASE Message
    <3>1. PICK ss, out : HandsOver(ss, out)
      BY <1>2, <2>3, MessageHands
    <3>2. /\ AllSound(ss) /\ Periodic(ss, out, wait)
          /\ \A h \in Hash : SameRun(searches[h], ss[h])
      BY <3>1 DEF HandsOver, Handled
    <3>3. (\E h \in Hash : ss[h].live /\ ~ss[h].done) => wait # Idle
      BY <1>2, <3>2 DEF SameRun, NeverForgotten, Running
    <3> QED BY <2>1, <3>2, <3>3, PeriodicWakes
  <2>4. CASE Tick
    <3>1. \A h \in Hash : Running(h)' => Running(h)
      BY <1>2, <2>4, TickMoves DEF Moves, Running
    <3>2. wait # Idle => wait' # Idle
      BY <1>2, <2>4, ConstantsAssumption DEF Tick, TypeOK, Idle
    <3> QED BY <1>2, <2>1, <3>1, <3>2 DEF NeverForgotten
  <2>5. CASE UNCHANGED vars
    BY <1>2, <2>1, <2>5 DEF vars, NeverForgotten, Running
  <2> QED BY <1>2, <2>1, <2>2, <2>3, <2>4, <2>5, NextParts
<1> QED BY <1>1, <1>2, PTL DEF Spec

=============================================================================
