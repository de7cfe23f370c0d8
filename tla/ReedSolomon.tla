---------------------------- MODULE ReedSolomon ----------------------------
(* The coefficients of a Reed-Solomon code as jerasure makes them           *)
(* (src/erasure_code/lrc/src/reed_sol.c), and the elimination that decides  *)
(* whether a set of equations can be solved (jerasure.c), over GF(2^8), in  *)
(* which the LRC library asks for them.  A matrix is a function from rows   *)
(* to functions from columns to bytes, both numbered from 0 as in the code. *)
EXTENDS GaloisField
LOCAL INSTANCE TLC

\* The same function, which TLC then keeps as a table.
Tabled(f) == f @@ <<>>

\* The field galois_init_default_field makes.
GF8 == [w |-> 8, poly |-> {0, 2, 3, 4}]
Byte == Words(GF8)
ByteOf(i) == {k \in 0..7 : (i \div 2 ^ k) % 2 = 1}

Products == Tabled([a \in Byte |-> Tabled([b \in Byte |-> Times(GF8, a, b)])])
Mul(a, b) == Products[a][b]
Reciprocal == Tabled([a \in Byte \ {Zero} |-> CHOOSE b \in Byte : Mul(a, b) = One])

Matrix(rows, cols, Entry(_, _)) ==
    Tabled([i \in 0..rows-1 |-> Tabled([j \in 0..cols-1 |-> Entry(i, j)])])

-----------------------------------------------------------------------------
(* reed_sol.c. *)

\* Row i holds the powers of i, but the first and the last, which are those of
\* 0 and of infinity.
ExtendedVandermonde(rows, cols) ==
    LET Unit(j, k) == IF j = k THEN One ELSE Zero
    IN  Matrix(rows, cols, LAMBDA i, j :
            CASE i = 0        -> Unit(j, 0)
              [] i = rows - 1 -> Unit(j, cols - 1)
              [] OTHER        -> Power(GF8, ByteOf(i), j))

\* Row i becomes the unit row: rows are swapped for an element i,i that is not
\* 0 (the program exits if there is none, "this should never happen"), column i
\* is divided by it, and every other column of row i cleared.
UnitRow(D, rows, cols, i) ==
    LET pivots == {j \in i..rows-1 : D[j][i] # Zero}
        p == CHOOSE j \in pivots : \A k \in pivots : j <= k
        S == [D EXCEPT ![i] = D[p], ![p] = D[i]]
        Scaled(r) == Mul(Reciprocal[S[i][i]], S[r][i])
    IN  IF pivots = {} THEN D
        ELSE Matrix(rows, cols, LAMBDA r, j :
                 IF j = i THEN Scaled(r) ELSE Xor(S[r][j], Mul(S[i][j], Scaled(r))))

\* The rows below the unit rows; the first is made all ones, column by column,
\* then the first column of the others, row by row.
CodingMatrix(k, m) ==
    LET D == Repeat(k - 1, ExtendedVandermonde(k + m, k),
                    LAMBDA E, i : UnitRow(E, k + m, k, i + 1))
        Ones(r, j) == Mul(D[r][j], Reciprocal[D[k][j]])
    IN  Matrix(m, k, LAMBDA r, j :
            Mul(Ones(k + r, j), Reciprocal[Ones(k + r, 0)]))

-----------------------------------------------------------------------------
(* jerasure.c. *)

\* A row with something in column d is divided by it and taken from the others
\* so that they have nothing there; without such a row nothing is done.
Eliminated(A, d) ==
    LET pivots == {c \in DOMAIN A : A[c][d] # Zero}
        p == CHOOSE c \in pivots : \A b \in pivots : c <= b
        Unit(x) == Mul(Reciprocal[A[p][d]], A[p][x])
    IN  IF pivots = {} THEN A
        ELSE Tabled([c \in DOMAIN A \ {p} |->
                 Tabled([x \in DOMAIN A[c] |-> Xor(A[c][x], Mul(A[c][d], Unit(x)))])])

\* jerasure_invert_matrix goes through the columns; as many rows as there are
\* unknowns among 0..k-1 are inverted if each of these uses up a row.
Invertible(A, k, unknown) ==
    LET after == Repeat(k, A, LAMBDA B, d : IF d \in unknown THEN Eliminated(B, d) ELSE B)
    IN  DOMAIN after = {}
=============================================================================
