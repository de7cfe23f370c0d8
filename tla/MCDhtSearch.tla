---------------------------- MODULE MCDhtSearch ----------------------------
(* Small networks for DhtSearch: identifiers are numbers and the distance   *)
(* is their exclusive or.                                                   *)
EXTENDS DhtSearch, Bitwise

MCDist == [h \in Hash |-> [n \in Node |-> h ^^ n]]
Upto1 == {S \in SUBSET Node : Cardinality(S) <= 1}
Yes == {TRUE}
=============================================================================
