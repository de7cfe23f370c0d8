----------------------------- MODULE DhtSearch -----------------------------
(***************************************************************************)
(* The iterative searches of one DHT node: the search list of              *)
(* src/dht/dht.c, the candidates each search holds, the requests it sends  *)
(* and retransmits, the replies it merges and the announcements it makes.  *)
(*                                                                         *)
(* The program keeps absolute times and only ever compares a time with now *)
(* minus a constant, so a time is kept here as an AGE: the ticks elapsed,  *)
(* counted up to one more than the largest constant it is compared with (a *)
(* field that calloc or memset zeroed is as old as an age can be).  No     *)
(* bound on the clock is needed.                                           *)
(*                                                                         *)
(* The network loses, delays, duplicates and reorders: `sent' only grows,  *)
(* and any request in it may be answered now, later, again or never.       *)
(* One address family is modelled; the other has searches of its own.      *)
(***************************************************************************)
EXTENDS Integers, FiniteSets

CONSTANTS
    Hash,            \* the targets (info hashes) of dht_search
    Node,            \* the remote nodes
    Dist,            \* Dist[h][n]: the XOR distance of n to h (xorcmp)
    NoPort,          \* port 0: search only, do not announce
    Ports,           \* the ports dht_search is called with
    SEARCH_NODES,    \* candidates a search keeps (14)
    ANNOUNCE_NODES,  \* closest live nodes that must answer (8)
    INFLIGHT,        \* DHT_INFLIGHT_QUERIES (4)
    RETRANSMIT,      \* DHT_SEARCH_RETRANSMIT (10 s)
    GOOD,            \* age of a reply that keeps a node over a restart (7200 s)
    EXPIRE,          \* DHT_SEARCH_EXPIRE_TIME (62 min)
    MAX_SEARCHES,    \* DHT_MAX_SEARCHES (1024)
    MAX_BLACKLISTED, \* DHT_MAX_BLACKLISTED (10)
    TID_SPACE,       \* transaction ids before search_id wraps (2^16)
    Tables,          \* what the routing table may offer for a hash
    Lists,           \* the sets of nodes a reply may carry
    GpTokens,        \* whether get_peers replies carry a token: {TRUE}, or BOOLEAN
    Malformed,       \* whether nodes may send replies of a broken length
    MaxStarts        \* BOUND: calls of dht_search

ASSUME ConstantsAssumption ==
    /\ Dist \in [Hash -> [Node -> Nat]]
    /\ \A h \in Hash : \A m, n \in Node : Dist[h][m] = Dist[h][n] => m = n
    /\ {SEARCH_NODES, ANNOUNCE_NODES, INFLIGHT, MAX_SEARCHES, TID_SPACE} \subseteq Nat \ {0}
    /\ {MAX_BLACKLISTED, RETRANSMIT} \subseteq Nat \ {0}
    /\ {GOOD, EXPIRE, MaxStarts} \subseteq Nat
    /\ EXPIRE >= RETRANSMIT
    /\ Tables \subseteq SUBSET Node /\ Lists \subseteq SUBSET Node
    /\ GpTokens \subseteq BOOLEAN
    /\ Malformed \in BOOLEAN
    /\ Ports # {}

ASSUME NodeFinite == IsFiniteSet(Node)

VARIABLES
    searches,   \* the search of each hash, allocated or not (struct search)
    search_id,  \* transaction id of the next new search
    wait,       \* ticks to search_time; <= 0: due; Idle: search_time = 0
    sent,       \* requests sent so far
    blacklist,  \* the nodes of the blacklist ring
    starts      \* BOUND counter

vars == <<searches, search_id, wait, sent, blacklist, starts>>

Idle == 2 * RETRANSMIT + 1   \* no deadline is ever as far away

-----------------------------------------------------------------------------
(* struct search_node and struct search *)

NodeRec == [pinged : 0 .. 3, replied : BOOLEAN, acked : BOOLEAN, token : BOOLEAN,
            request : 0 .. RETRANSMIT + 1, reply : 0 .. GOOD + 1]

\* memset(n, 0, ...)
Fresh == [pinged |-> 0, replied |-> FALSE, acked |-> FALSE, token |-> FALSE,
          request |-> RETRANSMIT + 1, reply |-> GOOD + 1]

Search == [live : BOOLEAN, done : BOOLEAN, port : Ports, tid : 0 .. TID_SPACE - 1,
           step : 0 .. EXPIRE + 1, known : SUBSET Node, node : [Node -> NodeRec]]

\* What a request, a reply to get_peers or find_node, a reply to announce_peer
\* and a new run of the search do to the record of a node.
Ask(r) == [pinged |-> r.pinged + 1, replied |-> r.replied, acked |-> r.acked,
           token |-> r.token, request |-> 0, reply |-> r.reply]
\* Mutant of Reply: any reply counts as an acknowledged announcement.
ReplyAcks(r, token) == [pinged |-> 0, replied |-> TRUE, acked |-> TRUE,
                        token |-> token, request |-> RETRANSMIT + 1, reply |-> 0]

Reply(r, token) == [pinged |-> 0, replied |-> TRUE, acked |-> r.acked,
                    token |-> token, request |-> RETRANSMIT + 1, reply |-> 0]
Ack(r) == [pinged |-> 0, replied |-> r.replied, acked |-> TRUE,
           token |-> r.token, request |-> RETRANSMIT + 1, reply |-> 0]
Reset(r) == [pinged |-> 0, replied |-> FALSE, acked |-> FALSE,
             token |-> FALSE, request |-> r.request, reply |-> r.reply]

Request == [kind : {"gp", "fn", "ap"}, tid : 0 .. TID_SPACE - 1, to : Node, hash : Hash]

Running(h) == searches[h].live /\ ~searches[h].done

Nearer(h, m, n) == Dist[h][m] < Dist[h][n]

\* The k members of S closest to h.
Closest(h, S, k) == {n \in S : Cardinality({m \in S : Nearer(h, m, n)}) < k}

-----------------------------------------------------------------------------
(* insert_search_node: the array holds the SEARCH_NODES closest candidates. *)
(* A node found in it keeps its record; the farthest falls off the end.     *)

\* Mutant of Insert: the array is kept in decreasing order of distance.
InsertFarthest(h, s, S) ==
    LET all  == s.known \cup S
        keep == {n \in all : Cardinality({m \in all : Nearer(h, n, m)}) < SEARCH_NODES}
    IN  [s EXCEPT !.known = keep,
                  !.node = [n \in Node |-> IF n \in keep \cap s.known THEN s.node[n]
                                                               ELSE Fresh]]

Insert(h, s, S) ==
    LET keep == Closest(h, s.known \cup S, SEARCH_NODES)
    IN  [s EXCEPT !.known = keep,
                  !.node = [n \in Node |-> IF n \in keep \cap s.known THEN s.node[n]
                                                               ELSE Fresh]]

\* insert_search_node with replied = 1: `token' is what the reply carried,
\* and overwrites the token of an earlier reply even when it carried none.
InsertReplied(h, s, n, token) ==
    LET t == Insert(h, s, {n})
    IN  IF n \in t.known
        THEN [t EXCEPT !.node[n] = Reply(t.node[n], token)]
        ELSE t

\* flush_search_node
Flush(s, S) == [s EXCEPT !.known = @ \ S,
                         !.node = [n \in Node |-> IF n \in S THEN Fresh ELSE s.node[n]]]

-----------------------------------------------------------------------------
(* search_send_get_peers: its guard, its effect on the search and the       *)
(* request it sends, for the nodes of a set T.                              *)

\* Mutant of Eligible: a node is asked more than three times.
EligibleForever(s) == {n \in s.known : ~s.node[n].replied /\ s.node[n].request > RETRANSMIT}

Eligible(s) == {n \in s.known : /\ s.node[n].pinged < 3
                                /\ ~s.node[n].replied
                                /\ s.node[n].request > RETRANSMIT}

\* Mutant of Queried: n->pinged++ is forgotten.
QueriedUncounted(s, T) ==
    [s EXCEPT !.node = [n \in Node |-> IF n \in T THEN [s.node[n] EXCEPT !.request = 0]
                                                  ELSE s.node[n]]]

Queried(s, T) ==
    [s EXCEPT !.node = [n \in Node |-> IF n \in T THEN Ask(s.node[n]) ELSE s.node[n]]]

Queries(h, s, T) ==
    {[kind |-> IF s.port = NoPort THEN "fn" ELSE "gp", tid |-> s.tid, to |-> n, hash |-> h]
        : n \in T}

\* search_send_get_peers(sr, NULL) takes the last eligible node of the array.
LastEligible(h, s) == {n \in Eligible(s) : \A m \in Eligible(s) : ~Nearer(h, n, m)}

-----------------------------------------------------------------------------
(* search_step *)

\* The first ANNOUNCE_NODES live nodes of the array.
FirstLive(h, s) == Closest(h, {n \in s.known : s.node[n].pinged < 3}, ANNOUNCE_NODES)

AllReplied(h, s) == \A n \in FirstLive(h, s) : s.node[n].replied

\* A node that gave no token counts as acked.
Unacked(h, s) == {n \in FirstLive(h, s) : s.node[n].token /\ ~s.node[n].acked}

AckTokenless(h, s) ==
    [s EXCEPT !.node = [n \in Node |-> IF n \in FirstLive(h, s) /\ ~s.node[n].token
                        THEN [s.node[n] EXCEPT !.acked = TRUE] ELSE s.node[n]]]

\* Mutant of Complete: a search with a port does not wait for the announcements.
CompleteUnannounced(h, s) == AllReplied(h, s)

Complete(h, s) == AllReplied(h, s) /\ (s.port = NoPort \/ Unacked(h, s) = {})

StepQueries(h, s) ==
    IF s.step > RETRANSMIT THEN Closest(h, Eligible(s), INFLIGHT) ELSE {}

Step(h, s) ==
    CASE Complete(h, s) ->
            [(IF s.port = NoPort THEN s ELSE AckTokenless(h, s))
                EXCEPT !.done = TRUE, !.step = 0]
      [] ~Complete(h, s) /\ AllReplied(h, s) ->
            [Queried(AckTokenless(h, s), Unacked(h, s)) EXCEPT !.step = 0]
      [] ~AllReplied(h, s) /\ s.step > RETRANSMIT ->
            [Queried(s, StepQueries(h, s)) EXCEPT !.step = 0]
      [] OTHER -> s

StepSends(h, s) ==
    CASE Complete(h, s) -> {}
      [] ~Complete(h, s) /\ AllReplied(h, s) ->
            {[kind |-> "ap", tid |-> s.tid, to |-> n, hash |-> h]
                : n \in Unacked(h, s)}
      [] OTHER -> Queries(h, s, StepQueries(h, s))

-----------------------------------------------------------------------------
(* add_search_node: a node that answered us becomes a candidate of EVERY    *)
(* search with room, finished or not, and is queried at once.               *)

Room(s) == s.live /\ Cardinality(s.known) < SEARCH_NODES

Add(h, s, n) ==
    LET t == Insert(h, s, {n})
    IN  IF Room(s) THEN Queried(t, Eligible(t) \cap {n}) ELSE s

AddSends(h, s, n) ==
    LET t == Insert(h, s, {n})
    IN  IF Room(s) THEN Queries(h, t, Eligible(t) \cap {n}) ELSE {}

AddToAll(n) == [h \in Hash |-> Add(h, searches[h], n)]

AllAddSends(n) == UNION {AddSends(h, searches[h], n) : h \in Hash}

-----------------------------------------------------------------------------
(* The tail of dht_periodic, which follows every message and every timeout: *)
(* expire_searches when expire_stuff_time has come, which is a random time, *)
(* then search_step for the searches that are due, then the next deadline.  *)

Unallocated == [live |-> FALSE, done |-> TRUE, port |-> CHOOSE p \in Ports : TRUE, tid |-> 0,
                step |-> EXPIRE + 1, known |-> {}, node |-> [n \in Node |-> Fresh]]

Expired(ss) == [h \in Hash |-> IF ss[h].live /\ ss[h].step > EXPIRE
                               THEN Unallocated ELSE ss[h]]

Due(s) == s.live /\ ~s.done /\ s.step >= RETRANSMIT \div 2 + 1

\* step_time + DHT_SEARCH_RETRANSMIT + random() % DHT_SEARCH_RETRANSMIT,
\* counted from now, for the search that asks for the earliest.
Deadlines(ss) ==
    LET undone == {h \in Hash : ss[h].live /\ ~ss[h].done}
        left(h, r) == IF ss[h].step >= RETRANSMIT + r THEN 0 ELSE RETRANSMIT + r - ss[h].step
    IN  IF undone = {} THEN {Idle}
        ELSE {d \in 0 .. 2 * RETRANSMIT :
                /\ \E h \in undone, r \in 0 .. RETRANSMIT - 1 : d = left(h, r)
                /\ \A h \in undone : \E r \in 0 .. RETRANSMIT - 1 : d <= left(h, r)}

\* dht_send drops what is addressed to a blacklisted node.
Send(out) == sent' = sent \cup {q \in out : q.to \notin blacklist'}

Periodic(ss, out, due) ==
    \E ex \in {ss, Expired(ss)} :
        IF due = 0
        THEN /\ searches' = [h \in Hash |-> IF Due(ex[h]) THEN Step(h, ex[h]) ELSE ex[h]]
             /\ Send(out \cup UNION {StepSends(h, ex[h]) : h \in {k \in Hash : Due(ex[k])}})
             /\ wait' \in Deadlines(searches')
        ELSE /\ searches' = ex
             /\ Send(out)
             /\ wait' = due

-----------------------------------------------------------------------------
(* The messages of dht_periodic that reach a search.                        *)

\* find_search: with two searches of one tid, the later one is found first;
\* which of them it is does not matter here.
FindSearch(tid) == {h \in Hash : searches[h].live /\ searches[h].tid = tid}

\* A reply to get_peers or find_node: the answering node becomes a candidate
\* everywhere, the nodes it names become candidates of the search, one more
\* request is pushed, and only then is the answer itself recorded.
NodesReply(q, S, token) ==
    /\ UNCHANGED <<search_id, blacklist, starts>>
    /\ q \in sent /\ q.kind \in {"gp", "fn"} /\ q.to \notin blacklist
    /\ token => q.kind = "gp"
    /\ \E h \in FindSearch(q.tid) :
         LET added == Insert(h, AddToAll(q.to)[h], S)
             push  == LastEligible(h, added)
             after == InsertReplied(h, Queried(added, push), q.to, token)
         IN  Periodic([AddToAll(q.to) EXCEPT ![h] = after],
                      AllAddSends(q.to) \cup Queries(h, added, push), wait)

\* A reply to announce_peer.
AckReply(q) ==
    /\ UNCHANGED <<search_id, blacklist, starts>>
    /\ q \in sent /\ q.kind = "ap" /\ q.to \notin blacklist
    /\ \E h \in FindSearch(q.tid) :
         LET s     == AddToAll(q.to)[h]
             acked == IF q.to \in s.known
                      THEN [s EXCEPT !.node[q.to] = Ack(s.node[q.to])]
                      ELSE s
             push  == LastEligible(h, acked)
         IN  Periodic([AddToAll(q.to) EXCEPT ![h] = Queried(acked, push)],
                      AllAddSends(q.to) \cup Queries(h, acked, push), wait)

\* A pong, or a find_node reply for a search that is gone.
Pong(n) ==
    /\ UNCHANGED <<search_id, blacklist, starts>>
    /\ n \notin blacklist
    /\ Periodic(AddToAll(n), AllAddSends(n), wait)

\* blacklist_node; the ring forgets its oldest entry.
Blacklist(n) ==
    \E gone \in SUBSET blacklist :
        /\ Cardinality(gone) = (IF Cardinality(blacklist) < MAX_BLACKLISTED THEN 0 ELSE 1)
        /\ blacklist' = (blacklist \ gone) \cup {n}

FlushAll(n) == [h \in Hash |-> IF searches[h].live THEN Flush(searches[h], {n})
                                                   ELSE searches[h]]

\* A reply whose transaction id was truncated: the node is dropped.
TruncatedReply(n) ==
    /\ Malformed /\ n \notin blacklist
    /\ Blacklist(n)
    /\ Periodic(FlushAll(n), {}, wait)
    /\ UNCHANGED <<search_id, starts>>

\* A reply whose node list has a broken length: the node is dropped from the
\* searches, and then recorded as having replied to this one.
BrokenNodesReply(q, token) ==
    /\ Malformed
    /\ q \in sent /\ q.kind \in {"gp", "fn"} /\ q.to \notin blacklist
    /\ token => q.kind = "gp"
    /\ Blacklist(q.to)
    /\ \E h \in FindSearch(q.tid) :
         Periodic([FlushAll(q.to) EXCEPT ![h] = InsertReplied(h, @, q.to, token)], {}, wait)
    /\ UNCHANGED <<search_id, starts>>

\* select timed out, or a message came that no search takes notice of.
Timeout ==
    /\ UNCHANGED <<search_id, blacklist, starts>>
    /\ Periodic(searches, {}, wait)

-----------------------------------------------------------------------------
(* dht_search *)

\* The search of an earlier call for the same hash, minus its doubtful nodes.
Reused(s) ==
    LET doubtful == {n \in s.known : s.node[n].pinged >= 3 \/ s.node[n].reply > GOOD}
        t == Flush(s, doubtful)
    IN  [t EXCEPT !.done = FALSE,
                  !.node = [n \in Node |-> IF n \in t.known THEN Reset(t.node[n])
                                                            ELSE t.node[n]]]

Created == [Unallocated EXCEPT !.live = TRUE, !.done = FALSE, !.tid = search_id]

\* Mutant of NextTid: search_id is not advanced.
SameTid(i) == i

\* search_id++ on an unsigned short
NextTid(i) == IF i + 1 = TID_SPACE THEN 0 ELSE i + 1

Live == {h \in Hash : searches[h].live}

\* new_search: the slots whose search a new one may replace; {} allocates.
Oldest == {h \in Live : /\ searches[h].done
                        /\ \A k \in Live : searches[k].done => searches[k].step <= searches[h].step}

Replaced ==
    IF \E h \in Oldest : searches[h].step > EXPIRE \/ Cardinality(Live) >= MAX_SEARCHES
    THEN {{h} : h \in Oldest}
    ELSE IF Cardinality(Live) < MAX_SEARCHES THEN {{}} ELSE {}

\* Mutant of Launch: search_time is not set.
LaunchUnscheduled(h, s, port, B, ss) ==
    LET t == Insert(h, [s EXCEPT !.port = port], B)
    IN  /\ searches' = [ss EXCEPT ![h] = Step(h, t)]
        /\ Send(StepSends(h, t))
        /\ wait' = wait

Launch(h, s, port, B, ss) ==
    LET t == Insert(h, [s EXCEPT !.port = port], B)
    IN  /\ searches' = [ss EXCEPT ![h] = Step(h, t)]
        /\ Send(StepSends(h, t))
        /\ wait' = 0

\* dht_search(h, port): B is what the bucket of h, its neighbours and our
\* own bucket offer.
StartSearch(h, port, B) ==
    /\ starts < MaxStarts
    /\ starts' = starts + 1
    /\ UNCHANGED blacklist
    /\ \/ /\ searches[h].live
          /\ Launch(h, Reused(searches[h]), port, B, searches)
          /\ UNCHANGED search_id
       \/ /\ ~searches[h].live
          /\ \E gone \in Replaced :
               Launch(h, Created, port, B,
                      [k \in Hash |-> IF k \in gone THEN Unallocated ELSE searches[k]])
          /\ search_id' = NextTid(search_id)
       \/ /\ ~searches[h].live /\ Replaced = {}      \* ENOSPC
          /\ UNCHANGED <<searches, sent, wait, search_id>>

-----------------------------------------------------------------------------
Older(age, max) == IF age < max THEN age + 1 ELSE age

OlderNode(r) == [pinged |-> r.pinged, replied |-> r.replied, acked |-> r.acked,
                 token |-> r.token, request |-> Older(r.request, RETRANSMIT + 1),
                 reply |-> Older(r.reply, GOOD + 1)]

OlderSearch(s) == [s EXCEPT !.step = Older(@, EXPIRE + 1),
                            !.node = [n \in Node |-> OlderNode(s.node[n])]]

Tick ==
    /\ searches' = [h \in Hash |-> OlderSearch(searches[h])]
    /\ wait' = IF wait \in {0, Idle} THEN wait ELSE wait - 1
    /\ UNCHANGED <<search_id, sent, blacklist, starts>>

Init ==
    /\ searches = [h \in Hash |-> Unallocated]
    /\ search_id \in 0 .. TID_SPACE - 1
    /\ wait = Idle
    /\ sent = {}
    /\ blacklist = {}
    /\ starts = 0

Next ==
    \/ \E h \in Hash, port \in Ports, B \in Tables : StartSearch(h, port, B)
    \/ \E q \in sent, S \in Lists, token \in BOOLEAN :
         (q.kind = "gp" => token \in GpTokens) /\ NodesReply(q, S, token)
    \/ \E q \in sent : AckReply(q)
    \/ \E n \in Node : Pong(n)
    \/ \E n \in Node : TruncatedReply(n)
    \/ \E q \in sent, token \in BOOLEAN : BrokenNodesReply(q, token)
    \/ Timeout
    \/ Tick

Spec == Init /\ [][Next]_vars

\* The daemon calls dht_periodic again whenever its select times out, and time
\* passes; nothing is assumed of the network.
Fairness == WF_vars(Timeout) /\ WF_vars(Tick)

FairSpec == Spec /\ Fairness

-----------------------------------------------------------------------------
(* Properties *)

TypeOK ==
    /\ searches \in [Hash -> Search]
    /\ \A h \in Hash : Cardinality(searches[h].known) <= SEARCH_NODES
    /\ search_id \in 0 .. TID_SPACE - 1
    /\ wait \in 0 .. Idle
    /\ sent \subseteq Request
    /\ blacklist \subseteq Node
    /\ starts \in 0 .. MaxStarts

Asked(kinds, n, h) == \E q \in sent : q.kind \in kinds /\ q.to = n /\ q.hash = h

\* A node counts as having replied to a search only if it was sent a query for
\* that search's own hash: late replies to an expired or replaced search, whose
\* slot now serves another hash, are not mixed in (find_search and the tids).
RepliedWasAsked ==
    \A h \in Hash : \A n \in searches[h].known :
        searches[h].node[n].replied => Asked({"gp", "fn"}, n, h)

\* A node that gave a token counts as holding our announcement only if the
\* announcement was sent to it (search_step's acked and its two writers).
AckedWasAnnounced ==
    \A h \in Hash : \A n \in searches[h].known :
        searches[h].node[n].token /\ searches[h].node[n].acked => Asked({"ap"}, n, h)

\* An unfinished search always has a next deadline: search_time is never left
\* at 0, from which dht_periodic would not step any search again.
NeverForgotten == (\E h \in Hash : Running(h)) => wait # Idle

\* A search called with a port has announced itself to the closest live nodes
\* by the time it reports its end ("If port is non-zero, perform an announce
\* when the search is complete", dht.c:1332).
CompletionAnnounces ==
    [][\A h \in Hash :
         (Running(h) /\ searches[h].port # NoPort /\ searches'[h].live /\ searches'[h].done)
            => \A n \in FirstLive(h, searches'[h]) :
                 \E q \in sent' : q.kind = "ap" /\ q.to = n /\ q.hash = h]_vars

\* A candidate is given up only for nearer ones: within one run of a search, a
\* node leaves the array only when all that stay are closer, or when it is
\* blacklisted (insert_search_node).
KeepsNearest ==
    [][\A h \in Hash :
         (searches[h].live /\ searches'[h].live /\ starts' = starts)
            => \A n \in searches[h].known \ (searches'[h].known \cup blacklist') :
                 \A m \in searches'[h].known : Nearer(h, m, n)]_vars

\* Once replies stop coming, every search ends: requests are given up after
\* three tries each, and the retransmissions and announcements stop.
Terminates ==
    (<>[][(\E h \in Hash, p \in Ports, B \in Tables : StartSearch(h, p, B))
            \/ Timeout \/ Tick]_vars)
        => \A h \in Hash : Running(h) ~> ~Running(h)
=============================================================================
