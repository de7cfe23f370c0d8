--------------------------- MODULE RoutingTable ---------------------------
(***************************************************************************)
(* The routing table of dht.c (buckets, new_node, split_bucket,            *)
(* expire_buckets) with its maintenance (bucket_maintenance,               *)
(* neighbourhood_maintenance, the cached candidates) and the blacklist.    *)
(*                                                                         *)
(* One address family.  A node is known by its id; its address goes with   *)
(* it.  Every time_t is kept as an age, which stops at the first value at  *)
(* which no comparison of the code tells it from a greater one; the 0 the  *)
(* code stores for "never" is that value.  A call of dht_periodic is       *)
(* several steps: the new_node calls of its message, each turn of the loop *)
(* in split_bucket, and its tail; nothing else happens before it is over.  *)
(***************************************************************************)
EXTENDS Integers, FiniteSets, Sequences

CONSTANTS
    BITS,            \* length of an id (160)
    MyId,            \* myid
    Peers,           \* the ids of the other nodes of the network
    MAX_COUNT,       \* capacity of the first bucket (128)
    MIN_COUNT,       \* least capacity of a bucket (8)
    CLOSEST,         \* nodes offered in an answer (8)
    PING_WAIT,       \* time a pinged node is given to answer (15 s)
    TIME_LIFE,       \* a good node was heard of within this time (900 s)
    REPLY_LIFE,      \* and replied within this time (7200 s)
    BUCKET_LIFE,     \* a bucket of MIN_COUNT is asked after this time (600 s)
    BUCKET_WAIT,     \* and no bucket is asked before this time (30 s)
    GROW_LIFE,       \* neighbours are asked this long after growth (150 s)
    ExpireDelays,    \* 120 + random() % 240
    SoonDelays,      \* 5 + random() % 10
    LateDelays,      \* 60 + random() % 120
    MAX_BLACKLISTED, \* DHT_MAX_BLACKLISTED (10)
    NoNode,          \* no address cached, or an empty place of the blacklist
    Searched,        \* nodes the searches of this daemon may ask
    MAX_MESSAGES     \* bound of the model: messages received in a run

ASSUME ConstantsAssumption ==
    /\ BITS \in Nat \ {0}
    /\ MyId \in 0 .. 2^BITS - 1
    /\ Peers \subseteq 0 .. 2^BITS - 1 /\ Searched \subseteq Peers
    /\ {MIN_COUNT, MAX_BLACKLISTED} \subseteq Nat \ {0}
    /\ CLOSEST \in Nat /\ MAX_COUNT \in Nat /\ MIN_COUNT <= MAX_COUNT
    /\ {PING_WAIT, TIME_LIFE, REPLY_LIFE} \subseteq Nat
    /\ {BUCKET_LIFE, BUCKET_WAIT, GROW_LIFE, MAX_MESSAGES} \subseteq Nat
    /\ ExpireDelays \cup SoonDelays \cup LateDelays \subseteq Nat

VARIABLES
    bucket,     \* buckets, by their first id
    blacklist,  \* the ring of blacklisted addresses
    nextBlacklisted,
    grown,      \* age of mybucket_grow_time
    expireIn,   \* time until expire_stuff_time
    confirmIn,  \* time until confirm_nodes_time
    phase,      \* where dht_periodic is: "idle", "calls", "split" or "confirm"
    calls,      \* new_node calls the message still has to make
    loose,      \* nodes split_bucket still has to insert again
    messages    \* messages received so far

vars == <<bucket, blacklist, nextBlacklisted, grown, expireIn, confirmIn,
          phase, calls, loose, messages>>

Ids == 0 .. 2^BITS - 1
Maximum(a, b) == IF a >= b THEN a ELSE b
Older(age, life) == IF age > life THEN age ELSE age + 1

Firsts == DOMAIN bucket
Nodes(f) == bucket[f].nodes
Known == (UNION {Nodes(f) : f \in Firsts}) \cup loose

---------------------------------------------------------------------------
(* Buckets and their ranges *)

HasNext(f) == \E g \in Firsts : g > f
NextFirst(f) == CHOOSE g \in Firsts : g > f /\ \A h \in Firsts : h > f => g <= h
HasPrevious(f) == \E g \in Firsts : g < f
PreviousFirst(f) == CHOOSE g \in Firsts : g < f /\ \A h \in Firsts : h < f => h <= g

FindBucket(id) == CHOOSE f \in Firsts : f <= id /\ \A g \in Firsts : g <= id => g <= f
InBucket(id, f) == f <= id /\ (HasNext(f) => id < NextFirst(f))

LowBit(id) ==
    IF id = 0 THEN -1
    ELSE CHOOSE i \in 0 .. BITS - 1 : (id \div 2^(BITS - 1 - i)) % 2 = 1
                                     /\ id % 2^(BITS - 1 - i) = 0

\* Mutant: the bit of the bucket's own first id alone.
MiddleBitOfFirst(f) == LowBit(f) + 1

MiddleBit(f) ==
    Maximum(LowBit(f), IF HasNext(f) THEN LowBit(NextFirst(f)) ELSE -1) + 1
HasMiddle(f) == MiddleBit(f) < BITS
Middle(f) == f + 2^(BITS - 1 - MiddleBit(f))

---------------------------------------------------------------------------
(* Nodes *)

FreshNode(id, confirm) ==
    [id |-> id, pinged |-> 0, asked |-> PING_WAIT + 1,
     heard |-> IF confirm > 0 THEN 0 ELSE TIME_LIFE + 1,
     replied |-> IF confirm = 2 THEN 0 ELSE REPLY_LIFE + 1]

Good(n) == n.pinged <= 2 /\ n.replied <= REPLY_LIFE /\ n.heard <= TIME_LIFE
Waited(n) == n.asked > PING_WAIT

\* Mutant: a node is bad when its request is old.
KnownBadUnasked(n) == Waited(n)

KnownBad(n) == n.pinged >= 3 /\ Waited(n)

\* Four requests are as good as more to every test of the code.
PingedNode(n) ==
    [id |-> n.id, pinged |-> IF n.pinged < 4 THEN n.pinged + 1 ELSE 4,
     asked |-> 0, heard |-> n.heard, replied |-> n.replied]

BlacklistedNode(n) == PingedNode([n EXCEPT !.pinged = 3])

UpdatedNode(n, confirm) ==
    IF confirm = 2 THEN FreshNode(n.id, 2)
    ELSE IF confirm = 1
         THEN [n EXCEPT !.heard = 0]
         ELSE n

OlderNode(n) ==
    [id |-> n.id, pinged |-> n.pinged, asked |-> Older(n.asked, PING_WAIT),
     heard |-> Older(n.heard, TIME_LIFE), replied |-> Older(n.replied, REPLY_LIFE)]

---------------------------------------------------------------------------
(* One bucket, as a record, changed *)

With(b, nodes) == [b EXCEPT !.nodes = nodes]
Exchanged(b, n, m) == With(b, (b.nodes \ {n}) \cup {m})
Added(b, n) == [b EXCEPT !.nodes = @ \cup {n}, !.count = @ + 1]
Uncached(b) == [b EXCEPT !.cached = NoNode]
Candidate(b, id, confirm) ==
    IF confirm > 0 \/ b.cached = NoNode THEN [b EXCEPT !.cached = id] ELSE b
Full(b) == b.count >= b.max

\* pinged: with the third request the cached candidate is pinged.
Pinged(b, n) ==
    LET m == PingedNode(n)
        c == Exchanged(b, n, m)
    IN  IF m.pinged >= 3 THEN Uncached(c) ELSE c

Emptied(b, max) == [max |-> max, count |-> 0, nodes |-> {}, time |-> b.time, cached |-> NoNode]

Halved(max) == Maximum(max \div 2, MIN_COUNT)

\* Mutant: the count of the bucket that was split is left as it was.
SplitCounted(f) ==
    LET own == MyId < Middle(f)
        b == bucket[f]
    IN  [g \in Firsts \cup {Middle(f)} |->
            IF g = f THEN [Emptied(b, IF own THEN Halved(b.max) ELSE b.max) EXCEPT !.count = b.count]
            ELSE IF g = Middle(f) THEN Emptied(b, IF own THEN b.max ELSE Halved(b.max))
            ELSE bucket[g]]

\* split_bucket_helper: the half with our own id gets half the capacity.
Split(f) ==
    LET own == MyId < Middle(f)
        b == bucket[f]
    IN  [g \in Firsts \cup {Middle(f)} |->
            IF g = f THEN Emptied(b, IF own THEN Halved(b.max) ELSE b.max)
            ELSE IF g = Middle(f) THEN Emptied(b, IF own THEN b.max ELSE Halved(b.max))
            ELSE bucket[g]]

---------------------------------------------------------------------------
(* new_node *)

Blacklisted(id) == \E i \in DOMAIN blacklist : blacklist[i] = id
Refused(id) == id = MyId \/ Blacklisted(id)

\* What the first lines of new_node do to the bucket's time.
Confirmed(b, confirm) == IF confirm = 2 THEN [b EXCEPT !.time = 0] ELSE b

Reject ==
    /\ phase = "calls" /\ calls # <<>>
    /\ Refused(Head(calls).id)
    /\ calls' = Tail(calls)
    /\ UNCHANGED <<bucket, blacklist, nextBlacklisted, grown, expireIn, confirmIn,
                   phase, loose, messages>>

\* A call that returns with bucket f changed to b.
Returns(f, b) ==
    /\ bucket' = [bucket EXCEPT ![f] = b]
    /\ calls' = Tail(calls)
    /\ UNCHANGED <<blacklist, nextBlacklisted, expireIn, confirmIn, phase, loose, messages>>

Calls(id, confirm, f) ==
    /\ phase = "calls" /\ calls # <<>>
    /\ id = Head(calls).id /\ confirm = Head(calls).confirm
    /\ ~Refused(id)
    /\ f = FindBucket(id)

UpdateKnown(id, confirm, f) ==
    \E n \in Nodes(f) :
        /\ n.id = id
        /\ Returns(f, Exchanged(Confirmed(bucket[f], confirm), n, UpdatedNode(n, confirm)))
        /\ UNCHANGED grown

Unknown(id, f) == \A n \in Nodes(f) : n.id # id
Grow(f) == grown' = IF InBucket(MyId, f) THEN 0 ELSE grown

ReplaceBad(id, confirm, f) ==
    /\ Unknown(id, f)
    /\ \E n \in Nodes(f) :
        /\ KnownBad(n)
        /\ Returns(f, Exchanged(Confirmed(bucket[f], confirm), n, FreshNode(id, confirm)))
    /\ Grow(f)

NoBad(f) == \A n \in Nodes(f) : ~KnownBad(n)
Dubious(f) == {n \in Nodes(f) : ~Good(n)}

Splits(f) == InBucket(MyId, f) /\ Dubious(f) = {}

\* The bucket after a dubious node was pinged, when there is one to ping.
AfterPing(f) ==
    LET waited == {n \in Dubious(f) : Waited(n)}
    IN  IF waited = {} THEN {bucket[f]}
        ELSE {Exchanged(bucket[f], n, PingedNode(n)) : n \in waited}

KeepCandidate(id, confirm, f) ==
    /\ Unknown(id, f) /\ NoBad(f) /\ Full(bucket[f]) /\ ~Splits(f)
    /\ \E b \in AfterPing(f) :
        Returns(f, Candidate(Confirmed(b, confirm), id, confirm))
    /\ Grow(f)

StartSplit(id, confirm, f) ==
    /\ Unknown(id, f) /\ NoBad(f) /\ Full(bucket[f]) /\ Splits(f)
    /\ Grow(f)
    /\ IF HasMiddle(f)
       THEN /\ bucket' = [g \in DOMAIN Split(f) |->
                             IF g \in {f, Middle(f)} THEN Confirmed(Split(f)[g], confirm)
                             ELSE bucket[g]]
            /\ loose' = Nodes(f)
            /\ phase' = "split"
            /\ UNCHANGED calls
       ELSE /\ bucket' = [bucket EXCEPT ![f] = Confirmed(@, confirm)]
            /\ calls' = Tail(calls)
            /\ UNCHANGED <<loose, phase>>
    /\ UNCHANGED <<blacklist, nextBlacklisted, expireIn, confirmIn, messages>>

CreateNode(id, confirm, f) ==
    /\ Unknown(id, f) /\ NoBad(f) /\ ~Full(bucket[f])
    /\ Returns(f, Added(Confirmed(bucket[f], confirm), FreshNode(id, confirm)))
    /\ Grow(f)

NewNode ==
    \E id \in Peers, confirm \in 0 .. 2, f \in Firsts :
        /\ Calls(id, confirm, f)
        /\ \/ UpdateKnown(id, confirm, f)
           \/ ReplaceBad(id, confirm, f)
           \/ KeepCandidate(id, confirm, f)
           \/ StartSplit(id, confirm, f)
           \/ CreateNode(id, confirm, f)

---------------------------------------------------------------------------
(* The loop of split_bucket, one turn at a time *)

Turn(n, f) ==
    /\ phase = "split" /\ n \in loose /\ f = FindBucket(n.id)
    /\ UNCHANGED <<blacklist, nextBlacklisted, grown, expireIn, confirmIn, phase, calls, messages>>

Reinsert(n, f) ==
    /\ ~Full(bucket[f])
    /\ bucket' = [bucket EXCEPT ![f] = Added(@, n)]
    /\ loose' = loose \ {n}

\* No room, and the bucket is not ours or cannot be split: the node is freed.
Free(n, f) ==
    /\ Full(bucket[f])
    /\ ~InBucket(MyId, f) \/ ~HasMiddle(f)
    /\ loose' = loose \ {n}
    /\ UNCHANGED bucket

SplitFurther(n, f) ==
    /\ Full(bucket[f])
    /\ InBucket(MyId, f) /\ HasMiddle(f)
    /\ bucket' = Split(f)
    /\ loose' = loose \cup Nodes(f)

SplitTurn ==
    \E n \in loose, f \in Firsts :
        /\ Turn(n, f)
        /\ Reinsert(n, f) \/ Free(n, f) \/ SplitFurther(n, f)

EndSplit ==
    /\ phase = "split" /\ loose = {}
    /\ phase' = "calls"
    /\ UNCHANGED <<bucket, blacklist, nextBlacklisted, grown, expireIn, confirmIn,
                   calls, loose, messages>>

---------------------------------------------------------------------------
(* The tail of dht_periodic *)

Dead(n) == n.pinged >= 4

\* Mutant: the first node of the list is not looked at.
PurgedButOne(b) ==
    LET dead == {n \in b.nodes : Dead(n) /\ \E m \in b.nodes : m # n}
    IN  IF dead = {} THEN b
        ELSE [max |-> b.max, count |-> b.count - Cardinality(dead),
              nodes |-> b.nodes \ dead, time |-> b.time, cached |-> NoNode]

Purged(b) ==
    LET dead == {n \in b.nodes : Dead(n)}
    IN  IF dead = {} THEN b
        ELSE [max |-> b.max, count |-> b.count - Cardinality(dead),
              nodes |-> b.nodes \ dead, time |-> b.time, cached |-> NoNode]

ExpireStuff ==
    /\ phase = "calls" /\ calls = <<>>
    /\ phase' = "confirm"
    /\ IF expireIn = 0
       THEN /\ bucket' = [f \in Firsts |-> Purged(bucket[f])]
            /\ expireIn' \in ExpireDelays
       ELSE UNCHANGED <<bucket, expireIn>>
    /\ UNCHANGED <<blacklist, nextBlacklisted, grown, confirmIn, calls, loose, messages>>

BucketLife(b) == Maximum(BUCKET_LIFE \div (b.max \div MIN_COUNT), BUCKET_WAIT)
Quiet(f) == bucket[f].time > BucketLife(bucket[f])

\* The bucket a node is drawn from: f, sometimes a neighbour, and a neighbour
\* where f is empty.
Empty(f) == bucket[f].count = 0
Sources(f) ==
    LET first == IF ~HasNext(f) THEN {f}
                 ELSE IF Empty(f) THEN {NextFirst(f)} ELSE {f, NextFirst(f)}
        before == IF HasPrevious(f) /\ ~Empty(PreviousFirst(f)) THEN {PreviousFirst(f)} ELSE {}
    IN  UNION {IF before = {} THEN {q} ELSE IF Empty(q) THEN before ELSE {q} \cup before
               : q \in first}

Ask(q) == \E n \in Nodes(q) : bucket' = [bucket EXCEPT ![q] = Pinged(@, n)]

MayPassOver(f) == Quiet(f) => \E q \in Sources(f) : Nodes(q) = {}

MaintainsBuckets ==
    \E f \in Firsts :
        /\ Quiet(f)
        /\ \A g \in Firsts : g < f => MayPassOver(g)
        /\ \E q \in Sources(f) : Ask(q)
        /\ confirmIn' \in SoonDelays

PassesOverBuckets == \A f \in Firsts : MayPassOver(f)

MaintainsNeighbours ==
    /\ PassesOverBuckets
    /\ grown <= GROW_LIFE
    /\ confirmIn' \in SoonDelays
    /\ \E q \in Sources(FindBucket(MyId)) :
          IF Nodes(q) = {} THEN UNCHANGED bucket ELSE Ask(q)

MaintainsNothing ==
    /\ PassesOverBuckets
    /\ grown > GROW_LIFE
    /\ confirmIn' \in LateDelays
    /\ UNCHANGED bucket

ConfirmNodes ==
    /\ phase = "confirm"
    /\ phase' = "idle"
    /\ \/ confirmIn = 0 /\ (MaintainsBuckets \/ MaintainsNeighbours \/ MaintainsNothing)
       \/ confirmIn > 0 /\ UNCHANGED <<bucket, confirmIn>>
    /\ UNCHANGED <<blacklist, nextBlacklisted, grown, expireIn, calls, loose, messages>>

---------------------------------------------------------------------------
(* What starts dht_periodic, and what else there is *)

Call(id, confirm) == [id |-> id, confirm |-> confirm]

Receives(p) ==
    /\ phase = "idle" /\ messages < MAX_MESSAGES
    /\ ~Refused(p)
    /\ messages' = messages + 1
    /\ UNCHANGED <<grown, expireIn, confirmIn, loose>>

\* The calls a message makes: a request, or a reply to a search that is not
\* there; a reply; a reply with a list of nodes.
MessageCalls(p) ==
    {<<Call(p, 1)>>, <<Call(p, 2)>>} \cup {<<Call(p, 2), Call(q, 0)>> : q \in Peers \ {p}}

Message(p) ==
    /\ Receives(p)
    /\ phase' = "calls"
    /\ calls' \in MessageCalls(p)
    /\ UNCHANGED <<bucket, blacklist, nextBlacklisted>>

\* blacklist_node, for a reply with a broken tid or node list.
BrokenReply(p) ==
    /\ Receives(p)
    /\ LET f == FindBucket(p)
           cleared == {Exchanged(Uncached(bucket[f]), n, BlacklistedNode(n))
                       : n \in {m \in Nodes(f) : m.id = p}}
       IN  bucket' \in IF cleared = {} THEN {bucket}
                       ELSE {[bucket EXCEPT ![f] = b] : b \in cleared}
    /\ blacklist' = [blacklist EXCEPT ![nextBlacklisted] = p]
    /\ nextBlacklisted' = (nextBlacklisted + 1) % MAX_BLACKLISTED
    /\ phase' = "calls"
    /\ UNCHANGED calls

\* Nothing came, or nothing that is looked at.
Timeout ==
    /\ phase = "idle"
    /\ phase' = "calls"
    /\ UNCHANGED <<bucket, blacklist, nextBlacklisted, grown, expireIn, confirmIn,
                   calls, loose, messages>>

\* search_send_get_peers asks a node which is in the table as well.  Searches
\* are stepped, and take up new nodes, inside dht_periodic; nothing there tells
\* that from a request made just after it.
SearchAsks(p) ==
    /\ phase = "idle"
    /\ \E n \in Nodes(FindBucket(p)) :
        /\ n.id = p
        /\ bucket' = [bucket EXCEPT ![FindBucket(p)] = Pinged(@, n)]
    /\ UNCHANGED <<blacklist, nextBlacklisted, grown, expireIn, confirmIn,
                   phase, calls, loose, messages>>

OlderBucket(b) ==
    [max |-> b.max, count |-> b.count, nodes |-> {OlderNode(n) : n \in b.nodes},
     time |-> Older(b.time, BUCKET_LIFE), cached |-> b.cached]

Tick ==
    /\ phase = "idle"
    /\ confirmIn > 0
    /\ bucket' = [f \in Firsts |-> OlderBucket(bucket[f])]
    /\ grown' = Older(grown, GROW_LIFE)
    /\ expireIn' = Maximum(expireIn - 1, 0)
    /\ confirmIn' = confirmIn - 1
    /\ UNCHANGED <<blacklist, nextBlacklisted, phase, calls, loose, messages>>

---------------------------------------------------------------------------
Init ==
    /\ bucket = [f \in {0} |-> [max |-> MAX_COUNT, count |-> 0, nodes |-> {},
                                time |-> BUCKET_LIFE + 1, cached |-> NoNode]]
    /\ blacklist = [i \in 0 .. MAX_BLACKLISTED - 1 |-> NoNode]
    /\ nextBlacklisted = 0
    /\ grown = 0
    /\ expireIn \in ExpireDelays
    /\ confirmIn = 0
    /\ phase = "idle"
    /\ calls = <<>>
    /\ loose = {}
    /\ messages = 0

Internal == NewNode \/ Reject \/ SplitTurn \/ EndSplit \/ ExpireStuff \/ ConfirmNodes

Next ==
    \/ \E p \in Peers : Message(p) \/ BrokenReply(p)
    \/ \E p \in Searched : SearchAsks(p)
    \/ Internal \/ Timeout \/ Tick

Spec == Init /\ [][Next]_vars
FairSpec == Spec /\ WF_vars(Internal) /\ WF_vars(Timeout) /\ SF_vars(Tick)

---------------------------------------------------------------------------
(* Properties *)

NodeRecord == [id : Peers, pinged : 0 .. 4, asked : 0 .. PING_WAIT + 1,
               heard : 0 .. TIME_LIFE + 1, replied : 0 .. REPLY_LIFE + 1]
Addresses == Peers \cup {NoNode}
Bucket == [max : MIN_COUNT .. MAX_COUNT, count : 0 .. MAX_COUNT, nodes : SUBSET NodeRecord,
           time : 0 .. BUCKET_LIFE + 1, cached : Addresses]

\* Types; in particular a bucket's capacity is at least MIN_COUNT, by which
\* bucket_maintenance divides (dht.c:1917).
TypeOK ==
    /\ Firsts \subseteq Ids /\ 0 \in Firsts
    /\ bucket \in [Firsts -> Bucket]
    /\ blacklist \in [0 .. MAX_BLACKLISTED - 1 -> Addresses]
    /\ nextBlacklisted \in 0 .. MAX_BLACKLISTED - 1
    /\ grown \in 0 .. GROW_LIFE + 1
    /\ expireIn \in Nat /\ confirmIn \in Nat
    /\ phase \in {"idle", "calls", "split", "confirm"}
    /\ calls \in Seq([id : Peers, confirm : 0 .. 2])
    /\ loose \subseteq NodeRecord
    /\ messages \in 0 .. MAX_MESSAGES

\* Every node is where find_node looks for it, in the bucket whose range has
\* its id, and nowhere else; a node taken out by a split is in no bucket.
SameNode(n, m) == n.id = m.id => n = m
Filed ==
    /\ \A f \in Firsts : \A n \in Nodes(f) :
        /\ f = FindBucket(n.id)
        /\ \A m \in Nodes(f) : SameNode(n, m)
        /\ \A m \in loose : m.id # n.id
    /\ \A n, m \in loose : SameNode(n, m)

\* A bucket's count is the number of its nodes, through replacements, splits
\* and purges, and never more than the bucket has room for.
Counted ==
    \A f \in Firsts :
        /\ bucket[f].count = Cardinality(Nodes(f))
        /\ bucket[f].count <= bucket[f].max

\* Buckets are blocks of ids with a common prefix, and only ranges with our
\* own id have been split: each other bucket is what our own left behind.
Size(f) == (IF HasNext(f) THEN NextFirst(f) ELSE 2^BITS) - f
Prefix(id, size) == id \div size
OnlyOursIsSplit ==
    \A f \in Firsts :
        /\ \E k \in 0 .. BITS : Size(f) = 2^k /\ f % 2^k = 0
        /\ ~InBucket(MyId, f) => Prefix(MyId, 2 * Size(f)) = Prefix(f, 2 * Size(f))

\* The table is well formed at every step of every insertion.
WellFormed == TypeOK /\ Filed /\ Counted /\ OnlyOursIsSplit

\* A good node is never given up for another one or purged.  It can only lose
\* its place to a split, and then its bucket is full of good nodes.
Lost(n) == \A m \in Known' : m.id # n.id
FullOfGood(f) == Full(bucket[f]) /\ \A m \in Nodes(f) : Good(m)
GoodNodesStay ==
    [][\A n \in Known : Good(n) /\ Lost(n) =>
          phase = "split" /\ FullOfGood(FindBucket(n.id))']_vars

\* split_bucket ends: the loop does not go on splitting and inserting, and
\* new_node does not start over for ever.
SplitsEnd == phase = "split" ~> phase = "idle"

\* A network that has fallen silent leaves no node in the table for ever:
\* maintenance, whatever its random choices, gets to each of them.
SilentNodesLeave == <>[](Known = {})
=============================================================================
