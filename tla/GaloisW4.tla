----------------------------- MODULE GaloisW4 ------------------------------
(***************************************************************************)
(* gf_w4.c and neon/gf_w4_neon.c: GF(2^4), two words to a byte.            *)
(* F is the field, P the powers of x that the logarithm tables hold.       *)
(***************************************************************************)
EXTENDS GaloisRegion, GaloisBytwo, GaloisMethod

GfW4DefaultPoly == {1, 0}                                       \* 0x13

GfW4Euclid(F, b, mult) == EuclidInverse(F, b, mult)
GfW4ExtractWord(region, index) == WordAt(4, region, index)

(* The reduction starts at bit 6, the highest a product can have.          *)
GfW4ShiftMultiply(F, a, b) ==
    ReducedFrom(F, Repeat(4, Zero, LAMBDA p, i : IF i \in a THEN Xor(p, Shl(b, i)) ELSE p), 6)

(* One reduction is enough as the polynomial has no x^2 and no x^3.        *)
GfW4ClmMultiply(F, a, b) == ClmMultiply(F, 1, a, b)
GfW4NeonClmMultiply(F, a, b) == ClmMultiply(F, 1, a, b)

(* Both halves of a byte, multiplied one at a time.                        *)
GfW4MultiplyRegionFromSingle(rd, mult) ==
    WordRegion(4, rd, 1, mult, [s \in Bits |-> mult[<<rd.val, s>>]])

GfW4NeonClmRegion(F, rd, mult) ==
    WordRegion(4, rd, 16, mult, [s \in Bits |-> ClmMultiply(F, 1, rd.val, s)])

(***************************************************************************)
(* LOG_TABLE.  The loop ends at 1, so its turns are the order of x.        *)
(***************************************************************************)
GfW4LogMultiply(P, a, b) ==
    IF Zero \in {a, b} THEN Zero ELSE P.antilog[(P.log[a] + P.log[b]) % 15]

GfW4LogDivide(P, a, b) ==
    IF Zero \in {a, b} THEN Zero ELSE P.antilog[(15 + P.log[a] - P.log[b]) % 15]

GfW4LogMultiplyRegion(P, rd) ==
    IF rd.val = Zero THEN IF rd.xor THEN rd.dest ELSE Zero
    ELSE Stored(rd, PerWord(4, rd.src, [s \in Bits |-> GfW4LogMultiply(P, rd.val, s)]))

GfW4LogInit(P) ==
    IF MetAgain(P) THEN Failed
    ELSE Chosen("log", "log", "inverse_from_divide", "log", "log")

(***************************************************************************)
(* TABLE: single, double (pairs of words at once) and quad tables (four at *)
(* once, filled when the field is made or, LAZY, for each multiplier).     *)
(***************************************************************************)
GfW4SingleTable(F) ==
    [ab \in Words(F) \X Words(F) |->
        IF Zero \in {ab[1], ab[2]} THEN Zero ELSE GfW4ShiftMultiply(F, ab[1], ab[2])]

GfW4SingleTableMultiply(T, a, b) == T[<<a, b>>]

(* div[prod][b] = a for each a, b with the product prod.                   *)
GfW4SingleTableDivide(F, T, p, b) ==
    IF Zero \in {p, b} THEN Zero ELSE CHOOSE a \in Words(F) : T[<<a, b>>] = p

GfW4SingleTableRegion(T, rd) ==
    Stored(rd, PerWord(4, rd.src, [s \in Bits |-> T[<<rd.val, s>>]]))

(* 16 bytes at a time: the low halves through a row of the table, the high *)
(* halves through the same row moved up by four.                           *)
SseTableRegion(T, x, val) ==
    Xor(PerWord(8, x, [s \in Bits |-> T[<<val, Cut(s, 4)>>]]),
        PerWord(8, x, [s \in Bits |-> Shl(T[<<val, Shr(s, 4)>>], 4)]))

GfW4SingleTableSseRegion(T, rd) ==
    RegionOp(4, rd, 16, T, [x \in Bits |-> SseTableRegion(T, x, rd.val)])

GfW4SingleTableRegionNeon(T, rd) ==
    RegionOp(4, rd, 16, T, [x \in Bits |-> SseTableRegion(T, x, rd.val)])

GfW4DoubleTable(T, a, bc) == T[<<a, Cut(bc, 4)>>] \cup Shl(T[<<a, Shr(bc, 4)>>], 4)

GfW4DoubleTableMultiply(T, a, b) == GfW4DoubleTable(T, a, b)

GfW4DoubleTableRegion(T, rd) ==
    IF ~Aligned(4, rd, 8) THEN Refused
    ELSE Stored(rd, PerWord(8, rd.src, [s \in Bits |-> GfW4DoubleTable(T, rd.val, s)]))

GfW4QuadTable(T, a, bcde) ==
    UNION {Shl(T[<<a, Cut(Shr(bcde, 4 * k), 4)>>], 4 * k) : k \in 0..3}

GfW4QuadTableMultiply(T, a, b) == GfW4QuadTable(T, a, b)

GfW4QuadTableRegion(T, rd) ==
    RegionOp(4, rd, 8, T,
             [x \in Bits |-> GfTwoByteRegionTableMultiply(x, [s \in Bits |-> GfW4QuadTable(T, rd.val, s)])])

GfW4QuadTableLazyMultiply(P, a, b) == GfW4LogMultiply(P, a, b)

(***************************************************************************)
(* BYTWO, by words and by regions.                                         *)
(***************************************************************************)
GfW4BytwoPMultiply(F, a, b) == BytwoPMultiply(F, a, b)
GfW4BytwoBMultiply(F, a, b) == BytwoBMultiply(F, a, b)

GfW4BytwoPNosseRegion(F, rd) ==
    RegionOp(4, rd, 8, Binary(LAMBDA a, b : BytwoPMultiply(F, a, b)),
             [x \in Bits |-> PackedBytwoP(F, rd.val, x)])

GfW4BytwoPSseRegion(F, rd) ==
    RegionOp(4, rd, 16, Binary(LAMBDA a, b : BytwoPMultiply(F, a, b)),
             [x \in Bits |-> PackedBytwoP(F, rd.val, x)])

(* The multipliers 2 to 7 have loops of their own, which double once or    *)
(* twice and add what the multiplier's bits name.                          *)
GfW4BytwoBSseRegion2(F, x) == PackedDouble(F, x)
GfW4BytwoBSseRegion3(F, x) == Xor(PackedDouble(F, x), x)
GfW4BytwoBSseRegion4(F, x) == PackedDouble(F, PackedDouble(F, x))
GfW4BytwoBSseRegion5(F, x) == Xor(GfW4BytwoBSseRegion4(F, x), x)
(* Mutant: the first doubling is not added.                                *)
Region6Lost(F, x) == PackedDouble(F, PackedDouble(F, x))

GfW4BytwoBSseRegion6(F, x) ==
    LET va == PackedDouble(F, x) IN Xor(PackedDouble(F, va), va)
GfW4BytwoBSseRegion7(F, x) ==
    LET va == PackedDouble(F, x) IN Xor(PackedDouble(F, va), Xor(va, x))

GfW4BytwoBSseRegion(F, rd) ==
    RegionOp(4, rd, 16, Binary(LAMBDA a, b : BytwoBMultiply(F, a, b)), [x \in Bits |->
        CASE rd.val = {1}       -> GfW4BytwoBSseRegion2(F, x)
          [] rd.val = {0, 1}    -> GfW4BytwoBSseRegion3(F, x)
          [] rd.val = {2}       -> GfW4BytwoBSseRegion4(F, x)
          [] rd.val = {0, 2}    -> GfW4BytwoBSseRegion5(F, x)
          [] rd.val = {1, 2}    -> GfW4BytwoBSseRegion6(F, x)
          [] rd.val = {0, 1, 2} -> GfW4BytwoBSseRegion7(F, x)
          [] OTHER              -> PackedBytwoB(F, rd.val, x)])

(* 64 bits at a time.  Each case is what its doublings yield; but for the  *)
(* multiplier 9 without xor the destination moves on by two words for      *)
(* each word of the source, so that the loop ends half way and writes only *)
(* every other word.                                                       *)
GfW4BytwoBNosseRegion(F, rd) ==
    LET mult == Binary(LAMBDA a, b : BytwoBMultiply(F, a, b))
        span == GfSetRegionData(rd, 16)
        left == span.top - span.start
        Skipped(x) == PackedBytwoB(F, rd.val, Cut(x, 4 * left))
    IN  IF rd.val = {0, 3} /\ ~rd.xor /\ Aligned(4, rd, 16)
        THEN UNION {GfSlowMultiplyRegion(4, rd, 0, span.start, mult),
                    {128 * (j \div 64) + (j % 64) + 8 * span.start :
                        j \in Skipped(Shr(Middle(rd.src, span), 8 * span.start))},
                    {i \in Middle(rd.dest, span) : ((i - 8 * span.start) \div 64) % 2 = 1},
                    GfSlowMultiplyRegion(4, rd, span.top, rd.bytes, mult)}
        ELSE RegionOp(4, rd, 16, mult, [x \in Bits |-> PackedBytwoB(F, rd.val, x)])

(***************************************************************************)
(* The functions each method chooses, and the tables it needs.             *)
(***************************************************************************)
GfW4TableInit(m, build) ==
    LET flags == IF m.mult = "DEFAULT" /\ ~Simd(build) THEN {"DOUBLE"} ELSE m.region
    IN  CASE "DOUBLE" \in flags ->
               Chosen("double_table", "double_table", "NULL", "double_table", "double")
          [] "DOUBLE" \notin flags /\ "QUAD" \in flags ->
               IF "LAZY" \in flags
               THEN Chosen("quad_table_lazy", "quad_table_lazy", "NULL", "quad_table", "quad_lazy")
               ELSE Chosen("quad_table", "quad_table", "NULL", "quad_table", "quad")
          [] OTHER ->
               IF "SIMD" \in flags /\ ~Simd(build) THEN Failed
               ELSE Chosen("single_table", "single_table", "NULL",
                           IF ~Simd(build) \/ flags \cap {"NOSIMD", "CAUCHY"} # {}
                           THEN "single_table"
                           ELSE IF "SSSE3" \in build THEN "single_table_sse"
                                ELSE "single_table_neon",
                           "single")

GfW4BytwoInit(m, build) ==
    IF "SIMD" \in m.region /\ "SSE2" \notin build THEN Failed
    ELSE Chosen(m.mult, "NULL", "NULL",
                IF "SSE2" \in build /\ "NOSIMD" \notin m.region THEN "bytwo_sse"
                ELSE "bytwo_nosse",
                "bytwo")

GfW4CfmInit(m, build) ==
    IF "PCLMUL" \in build THEN Chosen("clm", "NULL", "NULL", "NULL", "none")
    ELSE IF "NEON" \in build THEN Chosen("neon_clm", "NULL", "NULL", "neon_clm", "none")
    ELSE Failed

GfW4ScratchSize(m, build) ==
    CASE m.mult \in {"BYTWO_p", "BYTWO_b"} -> "bytwo"
      [] m.mult = "LOG_TABLE" -> "log"
      [] m.mult \in {"CARRY_FREE", "SHIFT"} -> "none"
      [] m.mult \in {"DEFAULT", "TABLE"} ->
           LET flags == IF m.mult = "DEFAULT" /\ ~Simd(build) THEN {"DOUBLE"} ELSE m.region
           IN  IF m.region = {"CAUCHY"} THEN "single"
               ELSE IF "DOUBLE" \in flags THEN "double"
               ELSE IF "QUAD" \in flags
                    THEN IF "LAZY" \in flags THEN "quad_lazy" ELSE "quad"
               ELSE "single"
      [] OTHER -> "0"

GfW4Init(m, P, build) ==
    Completed(m,
        CASE m.mult = "CARRY_FREE" -> GfW4CfmInit(m, build)
          [] m.mult = "SHIFT" -> Chosen("shift", "NULL", "NULL", "NULL", "none")
          [] m.mult \in {"BYTWO_p", "BYTWO_b"} -> GfW4BytwoInit(m, build)
          [] m.mult = "LOG_TABLE" -> GfW4LogInit(P)
          [] m.mult \in {"DEFAULT", "TABLE"} -> GfW4TableInit(m, build)
          [] OTHER -> Failed)

============================================================================
