--------------------------- MODULE MCTcpTransfer ---------------------------
EXTENDS TcpTransfer
CONSTANTS u1, u2, d1, f

\* Two uploads and a download of one file.
MCHashOf == [c \in {u1, u2, d1} |-> f]
MCKindOf == [c \in {u1, u2, d1} |-> IF c = d1 THEN "down" ELSE "up"]
MCLength == [h \in {f} |-> 2]
=============================================================================
