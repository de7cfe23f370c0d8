---------------------------- MODULE MCDhtStorage ----------------------------
EXTENDS DhtStorage, TLC
CONSTANTS n1, n2, h1, h2

\* The nodes are interchangeable, and so are the hashes.
Symmetry == Permutations({n1, n2}) \cup Permutations({h1, h2})
=============================================================================
