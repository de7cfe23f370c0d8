----------------------------- MODULE NodeOffers -----------------------------
(***************************************************************************)
(* send_closest_nodes: what a node that asks for nodes near a target is    *)
(* offered from the routing table.                                         *)
(***************************************************************************)
EXTENDS RoutingTable, FiniteSetsExt, SequencesExt

\* xorcmp: at the first bit in which they differ, a agrees with the target.
BitOf(id, i) == (id \div 2^(BITS - 1 - i)) % 2
Nearer(a, b, target) ==
    \E i \in 0 .. BITS - 1 :
        /\ BitOf(a, i) # BitOf(b, i) /\ BitOf(a, i) = BitOf(target, i)
        /\ \A j \in 0 .. i - 1 : BitOf(a, j) = BitOf(b, j)

\* insert_closest_node: nodes is kept in order, without repetition, and cut
\* to CLOSEST entries.
Place(id, nodes, target) ==
    Cardinality({i \in DOMAIN nodes : Nearer(nodes[i], id, target)}) + 1

\* Mutant: a full array takes nothing more.
InsertUntilFull(id, nodes, target) ==
    IF id \in ToSet(nodes) \/ Len(nodes) = CLOSEST THEN nodes
    ELSE InsertAt(nodes, Place(id, nodes, target), id)

InsertClosest(id, nodes, target) ==
    IF id \in ToSet(nodes) \/ Place(id, nodes, target) > CLOSEST THEN nodes
    ELSE LET all == InsertAt(nodes, Place(id, nodes, target), id)
         IN  SubSeq(all, 1, Min({CLOSEST, Len(all)}))

GoodIds(f) == {n.id : n \in {m \in Nodes(f) : Good(m)}}

BufferClosest(nodes, target, f) ==
    FoldSet(LAMBDA id, acc : InsertClosest(id, acc, target), nodes, GoodIds(f))

Offer(target) ==
    LET f == FindBucket(target)
        here == BufferClosest(<<>>, target, f)
        next == IF HasNext(f) THEN BufferClosest(here, target, NextFirst(f)) ELSE here
    IN  IF HasPrevious(f) THEN BufferClosest(next, target, PreviousFirst(f)) ELSE next

\* The good nodes of the buckets that send_closest_nodes goes through.
LookedAt(target) ==
    LET f == FindBucket(target)
        next == IF HasNext(f) THEN GoodIds(NextFirst(f)) ELSE {}
        previous == IF HasPrevious(f) THEN GoodIds(PreviousFirst(f)) ELSE {}
    IN  GoodIds(f) \cup next \cup previous

\* Whatever the target, the offer names the nearest good nodes of the three
\* buckets looked at, nearest first, though they come one by one in any order
\* and each may push another out of a full array; a good node is left out only
\* when the array is full of nearer ones. And where the target's bucket has
\* enough of them, the offer is the nearest of the whole table: every node of
\* the target's block is nearer to it than any node outside.
AllGood == UNION {GoodIds(f) : f \in Firsts}
OffersNearest ==
    phase # "split" =>
    \A target \in Ids :
        LET offer == Offer(target)
            compared == IF Cardinality(GoodIds(FindBucket(target))) >= CLOSEST
                        THEN AllGood ELSE LookedAt(target)
        IN  /\ ToSet(offer) \subseteq LookedAt(target)
            /\ \A i \in DOMAIN offer : \A j \in 1 .. i - 1 : Nearer(offer[j], offer[i], target)
            /\ \A id \in compared \ ToSet(offer) :
                  /\ Len(offer) = CLOSEST
                  /\ \A i \in DOMAIN offer : Nearer(offer[i], id, target)
=============================================================================
