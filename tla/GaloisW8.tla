----------------------------- MODULE GaloisW8 ------------------------------
(***************************************************************************)
(* gf_w8.c and neon/gf_w8_neon.c: GF(2^8), the width the erasure coder     *)
(* computes in.  F is the field, P the powers of x.                        *)
(***************************************************************************)
EXTENDS GaloisComposite, GaloisBytwo, GaloisMethod

GfW8DefaultPoly == {0, 2, 3, 4}                                 \* 0x11d

GfW8DivideFromInverse(mult, inverse, a, b) == mult[<<a, inverse[b]>>]
GfW8Euclid(F, b, mult) == EuclidInverse(F, b, mult)
GfW8ExtractWord(region, index) == WordAt(8, region, index)

GfW8ShiftMultiply(F, a, b) ==
    ReducedFrom(F, Repeat(8, Zero, LAMBDA p, i : IF i \in a THEN Xor(p, Shl(b, i)) ELSE p), 14)

(***************************************************************************)
(* CARRY_FREE, the function chosen by the gap under x^8: the product is    *)
(* reduced as often as its high byte can come back.                        *)
(***************************************************************************)
GfW8ClmMultiply2(F, a, b) == ClmMultiply(F, 2, a, b)
GfW8ClmMultiply3(F, a, b) == ClmMultiply(F, 3, a, b)
GfW8ClmMultiply4(F, a, b) == ClmMultiply(F, 4, a, b)

(* NEON keeps eight bits of the polynomial: the high byte is not cleared   *)
(* by the reduction but added to the next one.                             *)
GfW8NeonClmMultiplyX(F, x, a, b) ==
    LET Turn(s, i) == LET v == Xor(s.v, Shr(s.result, 8))
                      IN  [v |-> v, result |-> Xor(s.result, Product(F.poly, v))]
    IN  Cut(Repeat(x, [v |-> Zero, result |-> Product(a, b)], Turn).result, 8)

Reductions(F) ==
    CASE F.poly \cap {5, 6, 7} = {} -> 2
      [] F.poly \cap {5, 6, 7} = {5} -> 3
      [] F.poly \cap {6, 7} = {6} -> 4
      [] OTHER -> 0

GfW8ClmRegion2(F, rd, mult) ==
    WordRegion(8, rd, 1, mult, [s \in Bits |-> ClmMultiply(F, 2, rd.val, s)])
GfW8ClmRegion3(F, rd, mult) ==
    WordRegion(8, rd, 1, mult, [s \in Bits |-> ClmMultiply(F, 3, rd.val, s)])
GfW8ClmRegion4(F, rd, mult) ==
    WordRegion(8, rd, 1, mult, [s \in Bits |-> ClmMultiply(F, 4, rd.val, s)])
GfW8NeonClmRegion(F, x, rd, mult) ==
    WordRegion(8, rd, 16, mult, [s \in Bits |-> GfW8NeonClmMultiplyX(F, x, rd.val, s)])

GfW8MultiplyRegionFromSingle(rd, mult) ==
    WordRegion(8, rd, 1, mult, [s \in Bits |-> mult[<<rd.val, s>>]])

(***************************************************************************)
(* LOG_TABLE, and the two that need no test for 0: they give it a log so   *)
(* great that the antilogarithms from there on are 0.  The memory of the   *)
(* tables is not cleared, so what is not filled in is not known.           *)
(***************************************************************************)
GfW8LogMultiply(P, a, b) ==
    IF Zero \in {a, b} THEN Zero ELSE P.antilog[(P.log[a] + P.log[b]) % 255]

GfW8LogDivide(P, a, b) ==
    IF Zero \in {a, b} THEN Zero ELSE P.antilog[(P.log[a] - P.log[b] + 255) % 255]

(* inv[x^k] is the entry 255 - k.                                          *)
GfW8LogInverse(P, a) == IF a = Zero THEN Zero ELSE P.antilog[(255 - P.log[a]) % 255]

GfW8LogMultiplyRegion(P, rd) == PlainRegion(8, rd, [s \in Bits |-> GfW8LogMultiply(P, rd.val, s)])

NotKnown == {-1}

(* LOG_ZERO: log 0 = 510.  The entry 765 is the first of the table of the  *)
(* inverses, which lies behind, and is 0.                                  *)
SmallAntilog(P, i) == IF i < 510 THEN P.antilog[i % 255] ELSE Zero
SmallLog(P, a) == IF a = Zero THEN 510 ELSE P.log[a]

GfW8LogzeroSmallMultiply(P, a, b) ==
    IF b = Zero THEN Zero ELSE SmallAntilog(P, SmallLog(P, a) + SmallLog(P, b))

GfW8LogzeroSmallDivide(P, a, b) == SmallAntilog(P, 255 + SmallLog(P, a) - SmallLog(P, b))
GfW8LogzeroSmallInverse(P, a) == GfW8LogInverse(P, a)

(* LOG_ZERO_EXT: log 0 = 512, the zeroes are at 512 to 766 and at 1024,    *)
(* the inverses from 768 on.                                               *)
ExtAntilog(P, i) ==
    CASE i < 510 -> P.antilog[i % 255]
      [] i \in 512..766 \/ i = 1024 -> Zero
      [] OTHER -> NotKnown

ExtLog(P, a) == IF a = Zero THEN 512 ELSE P.log[a]

GfW8LogzeroMultiply(P, a, b) == ExtAntilog(P, ExtLog(P, a) + ExtLog(P, b))
GfW8LogzeroDivide(P, a, b) == ExtAntilog(P, 255 + ExtLog(P, a) - ExtLog(P, b))
GfW8LogzeroInverse(P, a) == GfW8LogInverse(P, a)

(* The two tables begin alike, so the region operation takes either.       *)
GfW8LogzeroMultiplyRegion(rd, antilog, log) ==
    PlainRegion(8, rd, [s \in Bits |-> antilog[log[rd.val] + log[s]]])

GfW8LogInit(m, P) ==
    IF MetAgain(P) THEN Failed
    ELSE CASE m.mult = "LOG_TABLE" -> Chosen("log", "log", "log", "log", "log")
           [] m.mult = "LOG_ZERO" ->
                Chosen("logzero_small", "logzero_small", "logzero_small", "logzero", "logzero_small")
           [] OTHER -> Chosen("logzero", "logzero", "logzero", "logzero", "logzero")

(***************************************************************************)
(* TABLE and SPLIT.                                                        *)
(***************************************************************************)
GfW8TableMultiply(F, a, b) ==
    IF Zero \in {a, b} THEN Zero ELSE GfW8ShiftMultiply(F, a, b)

(* divtable[prod][b] = a: found back as every quotient has its product.    *)
GfW8TableDivide(F, p, b) ==
    IF Zero \in {p, b} THEN Zero
    ELSE CHOOSE a \in Words(F) \ {Zero} : GfW8ShiftMultiply(F, a, b) = p

GfW8TableMultiplyRegion(F, rd) == PlainRegion(8, rd,
                                              [s \in Bits |-> GfW8TableMultiply(F, s, rd.val)])

(* mult[a][bc], filled by the low byte and by the high one.                *)
GfW8DoubleTable(F, a, bc) ==
    GfW8TableMultiply(F, a, Cut(bc, 8)) \cup Shl(GfW8TableMultiply(F, a, Shr(bc, 8)), 8)

GfW8DoubleTableMultiply(F, a, b) == GfW8DoubleTable(F, a, b)

GfW8DoubleTableMultiplyRegion(F, rd) ==
    RegionOp(8, rd, 8, Binary(LAMBDA a, b : GfW8TableMultiply(F, a, b)),
             [x \in Bits |-> GfTwoByteRegionTableMultiply(x, [s \in Bits |-> GfW8DoubleTable(F, rd.val, s)])])

GfW8DoubleTableLazyMultiply(F, a, b) == GfW8TableMultiply(F, a, b)

SplitLow(F, a, b) == GfW8TableMultiply(F, a, b)
SplitHigh(F, a, b) == GfW8TableMultiply(F, a, Shl(b, 4))

GfW8SplitMultiply(F, a, b) == Xor(SplitHigh(F, b, Shr(a, 4)), SplitLow(F, b, Cut(a, 4)))

GfW8SplitMultiplyRegion(F, rd) ==
    PlainRegion(8, rd,
                [s \in Bits |-> Xor(SplitHigh(F, rd.val, Shr(s, 4)), SplitLow(F, rd.val, Cut(s, 4)))])

(* 16 bytes at a time.  The initial and final words use the method's own   *)
(* multiplication, in the DEFAULT method that of the table.                *)
GfW8SplitMultiplyRegionSse(F, rd, mult) ==
    WordRegion(8, rd, 16, mult,
               [s \in Bits |-> Xor(SplitHigh(F, rd.val, Shr(s, 4)), SplitLow(F, rd.val, Cut(s, 4)))])

GfW8SplitMultiplyRegionNeon(F, rd, mult) == GfW8SplitMultiplyRegionSse(F, rd, mult)

GfW8SplitInit(m, build) ==
    IF "SIMD" \in m.region /\ ~Simd(build) THEN Failed
    ELSE Chosen("split", "NULL", "NULL",
                IF ~Simd(build) \/ "NOSIMD" \in m.region THEN "split"
                ELSE IF "SSSE3" \in build THEN "split_sse" ELSE "split_neon",
                "half")

(* A TABLE with any other flags ends the program.                          *)
GfW8TableInit(m, build) ==
    IF m.mult = "DEFAULT" /\ Simd(build)
    THEN Chosen("default", "default", "NULL",
                IF "SSSE3" \in build THEN "split_sse" ELSE "split_neon", "default")
    ELSE IF m.mult = "DEFAULT" \/ m.region = {} \/ "CAUCHY" \in m.region
    THEN Chosen("table", "table", "NULL", "table", "single")
    ELSE IF m.region = {"DOUBLE"}
    THEN Chosen("double_table", "double_table", "NULL", "double_table", "double")
    ELSE IF m.region = {"DOUBLE", "LAZY"}
    THEN Chosen("double_table_lazy", "double_table_lazy", "NULL", "double_table", "double_lazy")
    ELSE Failed

(***************************************************************************)
(* COMPOSITE over GF(2^4), with a table of the base field where there is   *)
(* one, and BYTWO.                                                         *)
(***************************************************************************)
GfW8CompositeMultiplyRecursive(s, mult, a, b) == CompositeMultiply(4, s, mult, a, b)
GfW8CompositeMultiplyInline(s, T, a, b) ==
    CompositeMultiply(4, s, T, a, b)
GfW8CompositeInverse(s, mult, inverse, a) == CompositeInverse(4, s, mult, inverse, a)
GfW8CompositeMultiplyRegion(s, rd, mult) == CompositeRegion(4, s, rd, 1, mult)
GfW8CompositeMultiplyRegionAlt(s, rd, mult, baseRegion) ==
    IF rd.val = Zero THEN IF rd.xor THEN rd.dest ELSE Zero
    ELSE CompositeRegionAlt(4, s, rd, 32, mult, baseRegion)
GfW8CompositeExtractWord(x, rd, index, baseExtract) ==
    CompositeExtractWord(4, x, rd, 32, index, baseExtract)

GfW8CompositeInit(m, base) ==
    IF base = "NULL" THEN Failed
    ELSE Chosen(IF base = "table" THEN "composite_inline" ELSE "composite_recursive",
                "NULL", "composite",
                IF "ALTMAP" \in m.region THEN "composite_alt" ELSE "composite",
                "composite")

GfW8BytwoPMultiply(F, a, b) == BytwoPMultiply(F, a, b)

(* The loop is left when a is used up, before a last doubling.             *)
GfW8BytwoBMultiply(F, a, b) == BytwoBMultiply(F, a, b)

GfW8BytwoPNosseRegion(F, rd) ==
    RegionOp(8, rd, 8, Binary(LAMBDA a, b : BytwoPMultiply(F, a, b)),
             [x \in Bits |-> PackedBytwoP(F, rd.val, x)])
GfW8BytwoPSseRegion(F, rd) ==
    RegionOp(8, rd, 16, Binary(LAMBDA a, b : BytwoPMultiply(F, a, b)),
             [x \in Bits |-> PackedBytwoP(F, rd.val, x)])
GfW8BytwoBSseRegion(F, rd) ==
    RegionOp(8, rd, 16, Binary(LAMBDA a, b : BytwoBMultiply(F, a, b)), [x \in Bits |->
        IF rd.val = {1} THEN PackedDouble(F, x) ELSE PackedBytwoB(F, rd.val, x)])

(* Loops of their own for 2 to 6 and 8: two or three doublings in a row.   *)
GfW8BytwoBNosseRegion(F, rd) ==
    LET Twice(x) == PackedDouble(F, PackedDouble(F, x))
    IN  RegionOp(8, rd, 16, Binary(LAMBDA a, b : BytwoBMultiply(F, a, b)), [x \in Bits |->
            CASE rd.val = {1}    -> PackedDouble(F, x)
              [] rd.val = {0, 1} -> Xor(PackedDouble(F, x), x)
              [] rd.val = {2}    -> Twice(x)
              [] rd.val = {0, 2} -> Xor(Twice(x), x)
              [] rd.val = {1, 2} -> Xor(Twice(x), PackedDouble(F, x))
              [] rd.val = {3}    -> PackedDouble(F, Twice(x))
              [] OTHER           -> PackedBytwoB(F, rd.val, x)])

GfW8BytwoInit(m, build) ==
    IF "SIMD" \in m.region /\ "SSE2" \notin build THEN Failed
    ELSE Chosen(m.mult, "NULL", "NULL",
                IF "SSE2" \in build /\ "NOSIMD" \notin m.region THEN "bytwo_sse" ELSE "bytwo_nosse",
                "bytwo")

(***************************************************************************)
(* The choice of the method.                                               *)
(***************************************************************************)
GfW8CfmInit(F, build) ==
    IF {"PCLMUL", "NEON"} \cap build = {} \/ Reductions(F) = 0 THEN Failed
    ELSE IF "PCLMUL" \in build THEN Chosen("clm", "NULL", "NULL", "clm", "none")
    ELSE Chosen("neon_clm", "NULL", "NULL", "neon_clm", "none")

(* Mutant: room for one kind of table whatever the build.                  *)
W8SingleScratch(m, build) == IF m.mult \in {"DEFAULT", "TABLE"} THEN "single" ELSE "none"

GfW8ScratchSize(m, build) ==
    CASE m.mult = "DEFAULT" -> IF Simd(build) THEN "default" ELSE "single"
      [] m.mult = "TABLE" ->
           IF m.region \in {{}, {"CAUCHY"}} THEN "single"
           ELSE IF m.region = {"DOUBLE"} THEN "double"
           ELSE IF m.region = {"DOUBLE", "LAZY"} THEN "double_lazy" ELSE "0"
      [] m.mult \in {"BYTWO_p", "BYTWO_b"} -> "bytwo"
      [] m.mult = "SPLIT" -> IF {m.arg1, m.arg2} = {4, 8} THEN "half" ELSE "0"
      [] m.mult = "LOG_TABLE" -> "log"
      [] m.mult = "LOG_ZERO" -> "logzero_small"
      [] m.mult = "LOG_ZERO_EXT" -> "logzero"
      [] m.mult \in {"CARRY_FREE", "SHIFT"} -> "none"
      [] m.mult = "COMPOSITE" -> "composite"
      [] OTHER -> "0"

GfW8Init(m, F, P, base, build) ==
    Completed(m,
        CASE m.mult \in {"DEFAULT", "TABLE"} -> GfW8TableInit(m, build)
          [] m.mult \in {"BYTWO_p", "BYTWO_b"} -> GfW8BytwoInit(m, build)
          [] m.mult \in {"LOG_TABLE", "LOG_ZERO", "LOG_ZERO_EXT"} -> GfW8LogInit(m, P)
          [] m.mult = "CARRY_FREE" -> GfW8CfmInit(F, build)
          [] m.mult = "SHIFT" -> Chosen("shift", "NULL", "NULL", "NULL", "none")
          [] m.mult = "SPLIT" -> GfW8SplitInit(m, build)
          [] m.mult = "COMPOSITE" -> GfW8CompositeInit(m, base)
          [] OTHER -> Failed)

============================================================================
