--------------------------- MODULE MCRequestService ---------------------------
EXTENDS RequestService, TLC
CONSTANTS c1, c2, c3, h1, h2

\* Two downloads of one file and an upload of another; two downloads of two
\* files.
MCHashOf == (c1 :> h1) @@ (c2 :> h2) @@ (c3 :> h1)
MCKindOf == (c1 :> "get") @@ (c2 :> "up") @@ (c3 :> "get")
MCHashOf2 == (c1 :> h1) @@ (c2 :> h2)
MCKindOf2 == (c1 :> "get") @@ (c2 :> "get")
=============================================================================
