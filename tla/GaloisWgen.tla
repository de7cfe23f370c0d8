---------------------------- MODULE GaloisWgen -----------------------------
(***************************************************************************)
(* gf_wgen.c: fields of any width from 1 to 32 that has no file of its     *)
(* own, and the region of packets, gf_wgen_cauchy_region, that every width *)
(* uses with GF_REGION_CAUCHY; and from gf.c the inverse by a binary       *)
(* matrix.  F is the field, P its powers of x.                              *)
(***************************************************************************)
EXTENDS GaloisBytwo, GaloisRegion, GaloisMethod

(* gf_invert_binary_matrix: rows of words, made upper triangular with      *)
(* swaps and then cleared from the bottom up.  Only a matrix with an       *)
(* inverse gets to the end; for another the program exits.                 *)
SwappedRows(m, i, j) == [m EXCEPT ![i] = m[j], ![j] = m[i]]

AddedRows(m, i, Js) == [j \in DOMAIN m |-> IF j \in Js THEN Xor(m[j], m[i]) ELSE m[j]]

PivotRow(mat, i) ==
    CHOOSE j \in DOMAIN mat : /\ j >= i
                              /\ i \in mat[j]
                              /\ \A k \in i..(j - 1) : i \notin mat[k]

GfInvertBinaryMatrix(matrix, rows) ==
    LET Down(s, i) ==
            LET p   == PivotRow(s.mat, i)
                mat == SwappedRows(s.mat, i, p)
                inv == SwappedRows(s.inv, i, p)
                low == {j \in (i + 1)..(rows - 1) : i \in mat[j]}
            IN  [mat |-> AddedRows(mat, i, low), inv |-> AddedRows(inv, i, low)]
        Up(s, k) ==
            LET i == rows - 1 - k
            IN  [s EXCEPT !.inv = AddedRows(s.inv, i, {j \in 0..(i - 1) : i \in s.mat[j]})]
        identity == [i \in 0..(rows - 1) |-> {i}]
    IN  Repeat(rows, Repeat(rows, [mat |-> matrix, inv |-> identity], Down), Up).inv

(* Row i is y x^i; the first row of the inverse is the inverse element.    *)
GfBitmatrixInverse(F, y) ==
    GfInvertBinaryMatrix(Doublings(F, y, F.w), F.w)[0]

(* The inverse from the quotient, the quotient from the inverse.           *)
GfWgenInverseFromDivide(a, div) == div[<<One, a>>]

GfWgenDivideFromInverse(a, b, mult, inv) == mult[<<a, inv[b]>>]

(* -1 is returned for 0, which callers never divide by.                    *)
GfWgenEuclid(F, b, mult) == EuclidInverse(F, b, mult)

GfWgenMatrix(F, b) == GfBitmatrixInverse(F, b)

(***************************************************************************)
(* SHIFT: the product of 2w bits, then reduced from the top.               *)
(***************************************************************************)
GfWgenShiftMultiply(F, a, b) ==
    ReducedFrom(F, Repeat(F.w, Zero, LAMBDA p, i : IF i \in a THEN Xor(p, Shl(b, i)) ELSE p),
                2 * F.w - 1)

GfWgenBytwoBMultiply(F, a, b) == BytwoBMultiply(F, a, b)
GfWgenBytwoPMultiply(F, a, b) == BytwoPMultiply(F, a, b)

(***************************************************************************)
(* GROUP: a is read g_s bits at a time through the multiples of b in the   *)
(* shift table, and the product reduced g_r bits at a time.                *)
(***************************************************************************)
GfWgenGroupSetShiftTables(F, val, g_s) ==
    LET row == Doublings(F, val, g_s)
    IN  [i \in SUBSET (0..(g_s - 1)) |-> SumOver(i, row)]

(* The multiples of the polynomial by their bits from w up.                *)
GfWgenGroupInit(F, g_r) ==
    LET tops  == SUBSET (0..(g_r - 1))
        multiple == [i \in tops |-> Product(i, Whole(F))]
    IN  [l \in tops |->
            Cut(multiple[CHOOSE i \in tops : Shr(multiple[i], F.w) = l], F.w)]

FirstGroup(w, g_s) == IF w % g_s = 0 THEN g_s ELSE w % g_s

(* With g_s = g_r every group read is followed by its reduction.           *)
GfWgenGroupSEqualsRMultiply(F, g_s, a, b) ==
    LET shift  == GfWgenGroupSetShiftTables(F, b, g_s)
        reduce == GfWgenGroupInit(F, g_s)
        rs     == F.w - FirstGroup(F.w, g_s)
        Turn(p, k) ==
            LET ind == Cut(Shr(a, rs - (k + 1) * g_s), g_s)
            IN  Cut(Xor(Xor(shift[ind], reduce[Shr(p, F.w - g_s)]), Shl(p, g_s)), F.w)
    IN  Repeat(rs \div g_s, shift[Shr(a, rs)], Turn)

(* Otherwise the whole product is formed and reduced from tshift down.     *)
(* The last group is added even when the first was all of a: g_s = w.      *)
GfWgenGroupMultiply(F, g_s, g_r, a, b) ==
    LET shift  == GfWgenGroupSetShiftTables(F, b, g_s)
        reduce == GfWgenGroupInit(F, g_r)
        rs     == F.w - FirstGroup(F.w, g_s)
        Read(p, k) == Xor(Shl(p, g_s), shift[Cut(Shr(a, rs - (k + 1) * g_s), g_s)])
        whole  == IF rs = 0 THEN Shl(shift[a], g_s)
                  ELSE Repeat(rs \div g_s, shift[Shr(a, rs)], Read)
        turns  == IF rs > 0 THEN (rs - 1) \div g_r + 1 ELSE IF g_r > 1 THEN 1 ELSE 0
        Reduce(p, k) ==
            LET i == (turns - 1 - k) * g_r
            IN  Xor(p, Shl(reduce[Cut(Shr(p, F.w + i), g_r)], i))
    IN  Cut(Repeat(turns, whole, Reduce), F.w)

(***************************************************************************)
(* TABLE: every product, filled by SHIFT; the quotients at the products.   *)
(***************************************************************************)
GfWgenTable(F) ==
    [ab \in Words(F) \X Words(F) |->
        IF Zero \in {ab[1], ab[2]} THEN Zero ELSE GfWgenShiftMultiply(F, ab[1], ab[2])]

GfWgenTableMultiply(T, a, b) == T[<<a, b>>]

(* div[<<p, a>>] = b for every a, b with the product p.                    *)
GfWgenTableDivide(F, T, p, a) ==
    IF Zero \in {p, a} THEN Zero
    ELSE CHOOSE b \in Words(F) : T[<<a, b>>] = p

(***************************************************************************)
(* LOG: the antilogs stand twice in a row, so that neither the sum of two  *)
(* logs nor their difference has to be reduced.                            *)
(***************************************************************************)
GfWgenAnti(P, i) ==
    LET n == Cardinality(DOMAIN P.antilog) IN IF i < n THEN P.antilog[i] ELSE P.antilog[i - n]

GfWgenLogMultiply(P, a, b) ==
    IF Zero \in {a, b} THEN Zero ELSE GfWgenAnti(P, P.log[a] + P.log[b])

GfWgenLogDivide(P, a, b) ==
    IF Zero \in {a, b} THEN Zero
    ELSE GfWgenAnti(P, Cardinality(DOMAIN P.antilog) + P.log[a] - P.log[b])

(***************************************************************************)
(* CAUCHY regions: a region is w packets, and word number n is made of bit *)
(* n of every packet.  A packet is the set of its 1 bits, so that a        *)
(* multiplication is a number of ^ of whole packets (gf_multby_one); the   *)
(* first one into a packet is a copy unless the region is to be added to.  *)
(***************************************************************************)
GfWgenExtractWord(region, index) == {i \in DOMAIN region : index \in region[i]}

GfMultbyOne(src, dest, xor) == IF xor THEN Xor(dest, src) ELSE src

GfMultbyZero(dest, xor) == IF xor THEN dest ELSE Zero

GfWgenCauchyRegion(F, src, dest, val, xor, mult) ==
    LET Packet(s, i) ==
            [dest    |-> [j \in DOMAIN dest |->
                            IF j \in s.val
                            THEN GfMultbyOne(src[i], s.dest[j], j \in s.written)
                            ELSE s.dest[j]],
             written |-> s.written \cup s.val,
             val     |-> mult[<<s.val, {1}>>]]
        start == [dest |-> dest, written |-> IF xor THEN DOMAIN dest ELSE {}, val |-> val]
    IN  IF val = Zero THEN [j \in DOMAIN dest |-> GfMultbyZero(dest[j], xor)]
        ELSE IF val = One THEN [j \in DOMAIN dest |-> GfMultbyOne(src[j], dest[j], xor)]
        ELSE Repeat(F.w, start, Packet).dest

(* A region of bytes as its packets, and back.                             *)
Packets(w, x, bytes) ==
    LET bits == 8 * (bytes \div w)
    IN  [i \in 0..(w - 1) |-> {j - i * bits : j \in {k \in x : k \div bits = i}}]

Joined(w, packets, bytes) ==
    UNION {Shl(packets[i], 8 * i * (bytes \div w)) : i \in 0..(w - 1)}

CauchyRegion(F, rd, mult) ==
    IF rd.bytes % F.w # 0 THEN Refused
    ELSE Joined(F.w, GfWgenCauchyRegion(F, Packets(F.w, rd.src, rd.bytes),
                                        Packets(F.w, rd.dest, rd.bytes),
                                        rd.val, rd.xor, mult), rd.bytes)

(***************************************************************************)
(* The choice of the method.  DEFAULT is a table up to a width of 8,       *)
(* logarithms up to 16 and BYTWO_p beyond.                                 *)
(***************************************************************************)
GfWgenDefaultPoly(w) ==
    CASE w \in {2, 3, 4, 6, 15, 22} -> {0, 1}
      [] w \in {5, 11, 21, 29} -> {0, 2}
      [] w \in {7, 10, 17, 20, 25, 28, 31} -> {0, 3}
      [] w = 1 -> {0}
      [] w = 8 -> {0, 2, 3, 4}
      [] w = 9 -> {0, 4}
      [] w = 12 -> {0, 1, 4, 6}
      [] w = 13 -> {0, 1, 3, 4}
      [] w = 16 -> {0, 1, 3, 12}
      [] w = 14 -> {0, 1, 6, 10}
      [] w = 18 -> {0, 7}
      [] w \in {19, 27} -> {0, 1, 2, 5}
      [] w = 23 -> {0, 5}
      [] w = 24 -> {0, 1, 2, 7}
      [] w = 26 -> {0, 1, 2, 6}
      [] w = 30 -> {0, 1, 2, 23}

GfWgenScratchSize(m) ==
    CASE m.mult = "DEFAULT" -> IF m.w <= 8 THEN "table" ELSE IF m.w <= 16 THEN "log" ELSE "group"
      [] m.mult \in {"SHIFT", "BYTWO_b", "BYTWO_p"} -> "none"
      [] m.mult = "GROUP" -> "group"
      [] m.mult = "TABLE" -> IF m.w < 15 THEN "table" ELSE "0"
      [] m.mult = "LOG_TABLE" -> IF m.w <= 27 THEN "log" ELSE "0"
      [] OTHER -> "0"

GfWgenLogChoice(primitive) ==
    IF primitive THEN Chosen("log", "log", "NULL", "cauchy", "log") ELSE Failed

GfWgenTableChoice == Chosen("table", "table", "NULL", "cauchy", "table")

GfWgenInit(m, primitive) ==
    LET bytwo(name) == Chosen(name, "NULL", "NULL", "cauchy", "none")
    IN  Completed(m,
        CASE m.mult = "DEFAULT" ->
               IF m.w <= 8 THEN GfWgenTableChoice
               ELSE IF m.w <= 16 THEN GfWgenLogChoice(primitive) ELSE bytwo("BYTWO_p")
          [] m.mult = "SHIFT" -> Chosen("shift", "NULL", "NULL", "cauchy", "none")
          [] m.mult \in {"BYTWO_b", "BYTWO_p"} -> bytwo(m.mult)
          [] m.mult = "GROUP" ->
               Chosen(IF m.arg1 = m.arg2 THEN "group_s_equals_r" ELSE "group",
                      "NULL", "NULL", "cauchy", "group")
          [] m.mult = "TABLE" -> GfWgenTableChoice
          [] m.mult = "LOG_TABLE" -> GfWgenLogChoice(primitive)
          [] OTHER -> Failed)

============================================================================
