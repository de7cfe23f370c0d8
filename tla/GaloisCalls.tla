---------------------------- MODULE GaloisCalls -----------------------------
(***************************************************************************)
(* Calls through the function pointers of a field (gf_complete.h):         *)
(* multiply, divide, inverse, multiply_region and extract_word do what the *)
(* function does that the init function stored there, on the polynomial,   *)
(* the arguments and the base that the field holds.                        *)
(***************************************************************************)
EXTENDS GaloisInit

CONSTANTS
    Polys,          \* the polynomials callers give: records of w and poly
    LogExponents    \* where the tables of GF(2^16) are read: see Log16

ASSUME LogAssumption == LogExponents \subseteq Nat

FieldOf(gf) == [w |-> gf.w, poly |-> gf.poly]

(***************************************************************************)
(* The tables of logarithms.  The antilogarithms are written out, and the  *)
(* logarithms too but for GF(2^16), where they are of x^e .. x^(e+16) for  *)
(* the e in LogExponents; what the other entries hold is computed, modulo  *)
(* 255 and modulo 257, and then together.                                  *)
(***************************************************************************)
DefaultPolys == {[w |-> 4, poly |-> GfW4DefaultPoly], [w |-> 8, poly |-> GfW8DefaultPoly],
                 [w |-> 16, poly |-> GfW16DefaultPoly]}
                \cup {[w |-> w, poly |-> GfWgenDefaultPoly(w)] : w \in 1..31 \ {4, 8, 16}}

KnownFields == {F \in DefaultPolys : \E P \in Polys : P.w = F.w}
               \cup {[w |-> P.w, poly |-> Cut(P.poly, P.w)] : P \in {Q \in Polys : Q.poly # Zero}}

PowersTable == [F \in {G \in KnownFields : G.w <= 10} |-> Powers(F)]

IsPrimitive == [F \in {G \in KnownFields : G.w <= 16} |-> XHasFullOrder(F)]
Primitive(F) == IF F.w <= 16 THEN IsPrimitive[F] ELSE XHasFullOrder(F)

LogFields16 == {F \in KnownFields : F.w = 16 /\ IsPrimitive[F]}
LogEntries  == UNION {{(e + i) % 65535 : i \in 0..16} : e \in LogExponents}
Antilogs16  == [F \in LogFields16 |-> PowerRow(F)]
Logs16      == [F \in LogFields16 |->
                   LET row == {<<e, PowerOfX(F, e)>> : e \in LogEntries}
                   IN  [x \in {ex[2] : ex \in row} |-> (CHOOSE ex \in row : ex[2] = x)[1]]]

(* The logarithms of the words of the order 255, and of the order 257.     *)
Residues(F, n) ==
    LET row == {<<k, PowerOfX(F, k * (65535 \div n))>> : k \in 0..(n - 1)}
    IN  [x \in {kx[2] : kx \in row} |-> (CHOOSE kx \in row : kx[2] = x)[1]]

Residues255 == [F \in LogFields16 |-> Residues(F, 255)]
Residues257 == [F \in LogFields16 |-> Residues(F, 257)]

DiscreteLog16(F, x) ==
    (Residues255[F][Power(F, x, 257)] * 128 * 257
       + Residues257[F][Power(F, x, 255)] * 128 * 255) % 65535

Alog16(F, i) == Antilogs16[F][i + 1]
Log16(F, x)  == IF x \in DOMAIN Logs16[F] THEN Logs16[F][x] ELSE DiscreteLog16(F, x)

Tables16 == [F \in LogFields16 |-> [antilog |-> [i \in Int |-> Alog16(F, i)],
                                    log     |-> [x \in Bits |-> Log16(F, x)]]]

(* Those of the greater widths are not kept.                               *)
PowersOf(F) ==
    CASE F.w = 16 -> Tables16[F]
      [] F.w <= 10 -> PowersTable[F]
      [] F.w > 10 /\ F.w # 16 -> Powers(F)

(***************************************************************************)
(* Fields of 4 bits.                                                       *)
(***************************************************************************)
W4Multiply(gf, P, a, b) ==
    LET F == FieldOf(gf)
        T == GfW4SingleTable(F)
    IN  CASE gf.f.multiply = "shift"           -> GfW4ShiftMultiply(F, a, b)
          [] gf.f.multiply = "clm"             -> GfW4ClmMultiply(F, a, b)
          [] gf.f.multiply = "neon_clm"        -> GfW4NeonClmMultiply(F, a, b)
          [] gf.f.multiply = "log"             -> GfW4LogMultiply(P, a, b)
          [] gf.f.multiply = "single_table"    -> GfW4SingleTableMultiply(T, a, b)
          [] gf.f.multiply = "double_table"    -> GfW4DoubleTableMultiply(T, a, b)
          [] gf.f.multiply = "quad_table"      -> GfW4QuadTableMultiply(T, a, b)
          [] gf.f.multiply = "quad_table_lazy" -> GfW4QuadTableLazyMultiply(P, a, b)
          [] gf.f.multiply = "BYTWO_p"         -> GfW4BytwoPMultiply(F, a, b)
          [] gf.f.multiply = "BYTWO_b"         -> GfW4BytwoBMultiply(F, a, b)

(* A quotient from the tables or the logarithms.                           *)
W4Quotient(gf, P, mult, a, b) ==
    LET F == FieldOf(gf)
    IN  CASE gf.f.divide = "log" -> GfW4LogDivide(P, a, b)
          [] gf.f.divide # "log" ->
               GfW4SingleTableDivide(F, mult, a, b)

W4Inverse(gf, P, mult, a) ==
    LET F == FieldOf(gf)
    IN  CASE gf.f.inverse = "euclid" -> GfW4Euclid(F, a, mult)
          [] gf.f.inverse = "matrix" -> GfBitmatrixInverse(F, a)
          [] gf.f.inverse = "inverse_from_divide" -> W4Quotient(gf, P, mult, One, a)

W4Divide(gf, P, mult, inverse, a, b) ==
    IF gf.f.divide = "divide_from_inverse" THEN mult[<<a, inverse[b]>>]
    ELSE W4Quotient(gf, P, mult, a, b)

W4Region(gf, P, rd, mult) ==
    LET F == FieldOf(gf)
        T == GfW4SingleTable(F)
    IN  CASE gf.f.region = "from_single"       -> GfW4MultiplyRegionFromSingle(rd, mult)
          [] gf.f.region = "neon_clm"          -> GfW4NeonClmRegion(F, rd, mult)
          [] gf.f.region = "log"               -> GfW4LogMultiplyRegion(P, rd)
          [] gf.f.region = "single_table"      -> GfW4SingleTableRegion(T, rd)
          [] gf.f.region = "single_table_sse"  -> GfW4SingleTableSseRegion(T, rd)
          [] gf.f.region = "single_table_neon" -> GfW4SingleTableRegionNeon(T, rd)
          [] gf.f.region = "double_table"      -> GfW4DoubleTableRegion(T, rd)
          [] gf.f.region = "quad_table"        -> GfW4QuadTableRegion(T, rd)
          [] gf.f.region = "cauchy"            -> CauchyRegion(F, rd, mult)
          [] gf.f.region = "bytwo_sse" ->
               IF gf.f.multiply = "BYTWO_p" THEN GfW4BytwoPSseRegion(F, rd)
               ELSE GfW4BytwoBSseRegion(F, rd)
          [] gf.f.region = "bytwo_nosse" ->
               IF gf.f.multiply = "BYTWO_p" THEN GfW4BytwoPNosseRegion(F, rd)
               ELSE GfW4BytwoBNosseRegion(F, rd)

(* Word i of a region x of so many bytes.                                  *)
CauchyWord(gf, x, bytes, i) == GfWgenExtractWord(Packets(gf.w, x, bytes), i)

W4Extract(gf, x, bytes, i) ==
    IF gf.f.region = "cauchy" THEN CauchyWord(gf, x, bytes, i) ELSE GfW4ExtractWord(x, i)

(***************************************************************************)
(* Fields of 8 bits.                                                       *)
(***************************************************************************)
W8Multiply(gf, P, baseMult, a, b) ==
    LET F == FieldOf(gf)
    IN  CASE gf.f.multiply = "shift"             -> GfW8ShiftMultiply(F, a, b)
          [] gf.f.multiply = "clm" ->
               (CASE Reductions(F) = 2 -> GfW8ClmMultiply2(F, a, b)
                 [] Reductions(F) = 3 -> GfW8ClmMultiply3(F, a, b)
                 [] Reductions(F) = 4 -> GfW8ClmMultiply4(F, a, b))
          [] gf.f.multiply = "neon_clm"          -> GfW8NeonClmMultiplyX(F, Reductions(F), a, b)
          [] gf.f.multiply = "log"               -> GfW8LogMultiply(P, a, b)
          [] gf.f.multiply = "logzero_small"     -> GfW8LogzeroSmallMultiply(P, a, b)
          [] gf.f.multiply = "logzero"           -> GfW8LogzeroMultiply(P, a, b)
          [] gf.f.multiply \in {"table", "default"} -> GfW8TableMultiply(F, a, b)
          [] gf.f.multiply = "double_table"      -> GfW8DoubleTableMultiply(F, a, b)
          [] gf.f.multiply = "double_table_lazy" -> GfW8DoubleTableLazyMultiply(F, a, b)
          [] gf.f.multiply = "split"             -> GfW8SplitMultiply(F, a, b)
          [] gf.f.multiply = "composite_recursive" ->
               GfW8CompositeMultiplyRecursive(gf.poly, baseMult, a, b)
          [] gf.f.multiply = "composite_inline" ->
               GfW8CompositeMultiplyInline(gf.poly, GfW4SingleTable(FieldOf(gf.base)), a, b)
          [] gf.f.multiply = "BYTWO_p"           -> GfW8BytwoPMultiply(F, a, b)
          [] gf.f.multiply = "BYTWO_b"           -> GfW8BytwoBMultiply(F, a, b)

W8Quotient(gf, P, a, b) ==
    CASE gf.f.divide = "log"           -> GfW8LogDivide(P, a, b)
          [] gf.f.divide = "logzero_small" -> GfW8LogzeroSmallDivide(P, a, b)
          [] gf.f.divide = "logzero"       -> GfW8LogzeroDivide(P, a, b)
          [] OTHER                         -> GfW8TableDivide(FieldOf(gf), a, b)

W8Inverse(gf, P, mult, baseMult, baseInverse, a) ==
    LET F == FieldOf(gf)
    IN  CASE gf.f.inverse = "euclid" -> GfW8Euclid(F, a, mult)
          [] gf.f.inverse = "matrix"        -> GfBitmatrixInverse(F, a)
          [] gf.f.inverse = "log"           -> GfW8LogInverse(P, a)
          [] gf.f.inverse = "logzero_small" -> GfW8LogzeroSmallInverse(P, a)
          [] gf.f.inverse = "logzero"       -> GfW8LogzeroInverse(P, a)
          [] gf.f.inverse = "inverse_from_divide" -> W8Quotient(gf, P, One, a)
          [] gf.f.inverse = "composite" ->
               GfW8CompositeInverse(gf.poly, baseMult, baseInverse, a)

W8Divide(gf, P, mult, inverse, a, b) ==
    IF gf.f.divide = "divide_from_inverse"
    THEN GfW8DivideFromInverse(mult, inverse, a, b)
    ELSE W8Quotient(gf, P, a, b)

W8Region(gf, P, rd, mult, baseMult, baseRegion) ==
    LET F == FieldOf(gf)
    IN  CASE gf.f.region = "from_single" -> GfW8MultiplyRegionFromSingle(rd, mult)
          [] gf.f.region = "clm" ->
               (CASE Reductions(F) = 2 -> GfW8ClmRegion2(F, rd, mult)
                 [] Reductions(F) = 3 -> GfW8ClmRegion3(F, rd, mult)
                 [] Reductions(F) = 4 -> GfW8ClmRegion4(F, rd, mult))
          [] gf.f.region = "neon_clm"     -> GfW8NeonClmRegion(F, Reductions(F), rd, mult)
          [] gf.f.region = "log"          -> GfW8LogMultiplyRegion(P, rd)
          [] gf.f.region = "logzero" ->
               IF gf.mult = "LOG_ZERO"
               THEN GfW8LogzeroMultiplyRegion(rd, [i \in Nat |-> SmallAntilog(P, i)],
                                                  [x \in Bits |-> SmallLog(P, x)])
               ELSE GfW8LogzeroMultiplyRegion(rd, [i \in Nat |-> ExtAntilog(P, i)],
                                                  [x \in Bits |-> ExtLog(P, x)])
          [] gf.f.region = "table"        -> GfW8TableMultiplyRegion(F, rd)
          [] gf.f.region = "double_table" -> GfW8DoubleTableMultiplyRegion(F, rd)
          [] gf.f.region = "split"        -> GfW8SplitMultiplyRegion(F, rd)
          [] gf.f.region = "split_sse"    -> GfW8SplitMultiplyRegionSse(F, rd, mult)
          [] gf.f.region = "split_neon"   -> GfW8SplitMultiplyRegionNeon(F, rd, mult)
          [] gf.f.region = "composite"    -> GfW8CompositeMultiplyRegion(gf.poly, rd, baseMult)
          [] gf.f.region = "composite_alt" ->
               GfW8CompositeMultiplyRegionAlt(gf.poly, rd, baseMult, baseRegion)
          [] gf.f.region = "cauchy"       -> CauchyRegion(F, rd, mult)
          [] gf.f.region = "bytwo_sse" ->
               IF gf.f.multiply = "BYTWO_p" THEN GfW8BytwoPSseRegion(F, rd)
               ELSE GfW8BytwoBSseRegion(F, rd)
          [] gf.f.region = "bytwo_nosse" ->
               IF gf.f.multiply = "BYTWO_p" THEN GfW8BytwoPNosseRegion(F, rd)
               ELSE GfW8BytwoBNosseRegion(F, rd)

W8Extract(gf, baseExtract, x, bytes, at, i) ==
    LET rd == [bytes |-> bytes, at |-> at, to |-> at]
    IN  CASE gf.f.region = "cauchy" -> CauchyWord(gf, x, bytes, i)
          [] gf.alt /\ gf.mult = "COMPOSITE" ->
               GfW8CompositeExtractWord(x, rd, i, baseExtract)
          [] OTHER -> GfW8ExtractWord(x, i)

(***************************************************************************)
(* Fields of 16 bits.                                                      *)
(***************************************************************************)
W16Multiply(gf, P, baseMult, a, b) ==
    LET F == FieldOf(gf)
    IN  CASE gf.f.multiply = "shift"     -> GfW16ShiftMultiply(F, a, b)
          [] gf.f.multiply = "clm" ->
               (CASE GfW16Reductions(F) = 2 -> GfW16ClmMultiply2(F, a, b)
                 [] GfW16Reductions(F) = 3 -> GfW16ClmMultiply3(F, a, b)
                 [] GfW16Reductions(F) = 4 -> GfW16ClmMultiply4(F, a, b))
          [] gf.f.multiply = "log"       -> GfW16LogMultiply(P.antilog, P.log, a, b)
          [] gf.f.multiply = "log_zero"  -> GfW16LogZeroMultiply(P.antilog, P.log, a, b)
          [] gf.f.multiply = "split_8_8" -> GfW16Split88Multiply(F, a, b)
          [] gf.f.multiply = "group_4_4" -> GfW16Group44Multiply(F, a, b)
          [] gf.f.multiply = "BYTWO_p"   -> GfW16BytwoPMultiply(F, a, b)
          [] gf.f.multiply = "BYTWO_b"   -> GfW16BytwoBMultiply(F, a, b)
          [] gf.f.multiply = "composite_recursive" ->
               GfW16CompositeMultiplyRecursive(gf.poly, baseMult, a, b)
          [] gf.f.multiply = "composite_inline" ->
               GfW16CompositeMultiplyInline(gf.poly,
                   Binary(LAMBDA x, y : GfW8TableMultiply(FieldOf(gf.base), x, y)), a, b)

W16Quotient(gf, P, a, b) ==
    CASE gf.f.divide = "log"      -> GfW16LogDivide(P.antilog, P.log, a, b)
          [] gf.f.divide = "log_zero" -> GfW16LogZeroDivide(P.antilog, P.log, a, b)

W16Inverse(gf, P, mult, baseMult, baseInverse, a) ==
    LET F == FieldOf(gf)
    IN  CASE gf.f.inverse = "euclid" -> GfW16Euclid(F, a, mult)
          [] gf.f.inverse = "matrix"   -> GfBitmatrixInverse(F, a)
          [] gf.f.inverse = "log"      -> GfW16LogInverse(P.antilog, P.log, a)
          [] gf.f.inverse = "log_zero" -> GfW16LogZeroInverse(P.antilog, P.log, a)
          [] gf.f.inverse = "inverse_from_divide" -> W16Quotient(gf, P, One, a)
          [] gf.f.inverse = "composite" ->
               GfW16CompositeInverse(gf.poly, baseMult, baseInverse, a)

W16Divide(gf, P, mult, inverse, a, b) ==
    IF gf.f.divide = "divide_from_inverse"
    THEN GfW16DivideFromInverse(mult, inverse, a, b)
    ELSE W16Quotient(gf, P, a, b)

W16Region(gf, P, rd, mult, baseMult, baseRegion) ==
    LET F == FieldOf(gf)
    IN  CASE gf.f.region = "from_single" -> GfW16MultiplyRegionFromSingle(rd, mult)
          [] gf.f.region = "clm" ->
               (CASE GfW16Reductions(F) = 2 -> GfW16ClmRegion2(F, rd, mult)
                 [] GfW16Reductions(F) = 3 -> GfW16ClmRegion3(F, rd, mult)
                 [] GfW16Reductions(F) = 4 -> GfW16ClmRegion4(F, rd, mult))
          [] gf.f.region = "log"            -> GfW16LogMultiplyRegion(P.antilog, P.log, rd)
          [] gf.f.region = "log_zero"       -> GfW16LogZeroMultiplyRegion(P.antilog, P.log, rd)
          [] gf.f.region = "table_lazy"     -> GfW16TableLazyMultiplyRegion(F, rd, mult)
          [] gf.f.region = "split_8_16"     -> GfW16Split816LazyMultiplyRegion(F, rd, mult)
          [] gf.f.region = "split_4_16"     -> GfW16Split416LazyMultiplyRegion(rd, mult)
          [] gf.f.region = "split_4_16_sse" -> GfW16Split416LazySseMultiplyRegion(rd, mult)
          [] gf.f.region = "split_4_16_sse_alt" ->
               GfW16Split416LazySseAltmapMultiplyRegion(rd, mult)
          [] gf.f.region = "split_4_16_nosse_alt" ->
               GfW16Split416LazyNosseAltmapMultiplyRegion(rd, mult)
          [] gf.f.region = "split_4_16_neon" ->
               GfW16Split416LazyNeonMultiplyRegion(rd, FALSE, mult)
          [] gf.f.region = "split_4_16_neon_alt" ->
               GfW16Split416LazyNeonMultiplyRegion(rd, TRUE, mult)
          [] gf.f.region = "group_4_4"      -> GfW16Group44RegionMultiply(F, rd, mult)
          [] gf.f.region = "composite"      -> GfW16CompositeMultiplyRegion(gf.poly, rd, baseMult)
          [] gf.f.region = "composite_alt" ->
               GfW16CompositeMultiplyRegionAlt(gf.poly, rd, baseMult, baseRegion)
          [] gf.f.region = "cauchy"         -> CauchyRegion(F, rd, mult)
          [] gf.f.region = "bytwo_sse" ->
               IF gf.f.multiply = "BYTWO_p" THEN GfW16BytwoPSseRegion(F, rd)
               ELSE GfW16BytwoBSseRegion(F, rd)
          [] gf.f.region = "bytwo_nosse" ->
               IF gf.f.multiply = "BYTWO_p" THEN GfW16BytwoPNosseRegion(F, rd)
               ELSE GfW16BytwoBNosseRegion(F, rd)

(* Which layout a word is taken from depends on the flags of the field     *)
(* alone, not on the function that multiplied the region.                  *)
W16Extract(gf, baseExtract, x, bytes, at, i) ==
    LET rd == [bytes |-> bytes, at |-> at, to |-> at]
    IN  CASE gf.alt /\ gf.mult = "COMPOSITE" ->
               GfW16CompositeExtractWord(x, rd, i, baseExtract)
          [] gf.alt /\ gf.mult # "COMPOSITE" -> GfW16SplitExtractWord(x, rd, i)
          [] OTHER ->
               IF gf.f.region = "cauchy" THEN CauchyWord(gf, x, bytes, i) ELSE GfW16ExtractWord(x, i)

(***************************************************************************)
(* Fields of the other widths.                                             *)
(***************************************************************************)
WgenMultiply(gf, P, a, b) ==
    LET F == FieldOf(gf)
    IN  CASE gf.f.multiply = "shift"   -> GfWgenShiftMultiply(F, a, b)
          [] gf.f.multiply = "BYTWO_p" -> GfWgenBytwoPMultiply(F, a, b)
          [] gf.f.multiply = "BYTWO_b" -> GfWgenBytwoBMultiply(F, a, b)
          [] gf.f.multiply = "table"   -> GfWgenTableMultiply(GfWgenTable(F), a, b)
          [] gf.f.multiply = "log"     -> GfWgenLogMultiply(P, a, b)
          [] gf.f.multiply = "group_s_equals_r" ->
               GfWgenGroupSEqualsRMultiply(F, gf.arg1, a, b)
          [] gf.f.multiply = "group"   -> GfWgenGroupMultiply(F, gf.arg1, gf.arg2, a, b)

WgenQuotient(gf, P, a, b) ==
    LET F == FieldOf(gf)
    IN  CASE gf.f.divide = "table" -> GfWgenTableDivide(F, GfWgenTable(F), a, b)
          [] gf.f.divide = "log"   -> GfWgenLogDivide(P, a, b)

WgenInverse(gf, P, mult, a) ==
    LET F == FieldOf(gf)
    IN  CASE gf.f.inverse = "euclid" -> GfWgenEuclid(F, a, mult)
          [] gf.f.inverse = "matrix" -> GfWgenMatrix(F, a)
          [] gf.f.inverse = "inverse_from_divide" ->
               GfWgenInverseFromDivide(a, Binary(LAMBDA x, y : WgenQuotient(gf, P, x, y)))

WgenDivide(gf, P, mult, inverse, a, b) ==
    IF gf.f.divide = "divide_from_inverse"
    THEN GfWgenDivideFromInverse(a, b, mult, inverse)
    ELSE WgenQuotient(gf, P, a, b)

(***************************************************************************)
(* The calls, of any width.  The functions of a field call others of that  *)
(* field, and of the one below it, through the pointers: Mult, Inv,        *)
(* RegionMult and Extract are what is found there.                         *)
(***************************************************************************)
MultiplyWith(gf, P, baseMult, a, b) ==
    CASE gf.w = 4  -> W4Multiply(gf, P, a, b)
      [] gf.w = 8  -> W8Multiply(gf, P, baseMult, a, b)
      [] gf.w = 16 -> W16Multiply(gf, P, baseMult, a, b)
      [] OTHER     -> WgenMultiply(gf, P, a, b)

MultOn(gf, baseMult) ==
    Binary(LAMBDA a, b : MultiplyWith(gf, PowersOf(FieldOf(gf)), baseMult, a, b))

Mult(gf) == Over(MultOn, gf)

Multiply(gf, a, b) == MultiplyWith(gf, PowersOf(FieldOf(gf)), Mult(gf.base), a, b)

InverseWith(gf, P, mult, baseMult, baseInverse, a) ==
    CASE gf.w = 4  -> W4Inverse(gf, P, mult, a)
      [] gf.w = 8  -> W8Inverse(gf, P, mult, baseMult, baseInverse, a)
      [] gf.w = 16 -> W16Inverse(gf, P, mult, baseMult, baseInverse, a)
      [] OTHER     -> WgenInverse(gf, P, mult, a)

InvOn(gf, baseInverse) ==
    [a \in Bits |-> InverseWith(gf, PowersOf(FieldOf(gf)), Mult(gf), Mult(gf.base), baseInverse, a)]

Inv(gf) == Over(InvOn, gf)

InverseOf(gf, a) ==
    InverseWith(gf, PowersOf(FieldOf(gf)), Mult(gf), Mult(gf.base), Inv(gf.base), a)

DivideWith(gf, P, mult, inverse, a, b) ==
    CASE gf.w = 4  -> W4Divide(gf, P, mult, inverse, a, b)
      [] gf.w = 8  -> W8Divide(gf, P, mult, inverse, a, b)
      [] gf.w = 16 -> W16Divide(gf, P, mult, inverse, a, b)
      [] OTHER     -> WgenDivide(gf, P, mult, inverse, a, b)

Divide(gf, a, b) == DivideWith(gf, PowersOf(FieldOf(gf)), Mult(gf), Inv(gf), a, b)

RegionWith(gf, P, rd, mult, baseMult, baseRegion) ==
    CASE gf.w = 4  -> W4Region(gf, P, rd, mult)
      [] gf.w = 8  -> W8Region(gf, P, rd, mult, baseMult, baseRegion)
      [] gf.w = 16 -> W16Region(gf, P, rd, mult, baseMult, baseRegion)
      [] OTHER     -> CauchyRegion(FieldOf(gf), rd, mult)

(* The multiplication by v of an aligned region x of n bytes.              *)
AlignedRegion(v, x, n) ==
    [src |-> x, dest |-> Zero, val |-> v, xor |-> FALSE, bytes |-> n, at |-> 0, to |-> 0]

RegionMultOn(gf, baseRegion) ==
    [vxn \in Bits \X Bits \X Nat |->
        RegionWith(gf, PowersOf(FieldOf(gf)), AlignedRegion(vxn[1], vxn[2], vxn[3]),
                   Mult(gf), Mult(gf.base), baseRegion)]

RegionMult(gf) == Over(RegionMultOn, gf)

MultiplyRegion(gf, rd) ==
    RegionWith(gf, PowersOf(FieldOf(gf)), rd, Mult(gf), Mult(gf.base), RegionMult(gf.base))

ExtractWith(gf, baseExtract, x, bytes, at, i) ==
    CASE gf.w = 4  -> W4Extract(gf, x, bytes, i)
      [] gf.w = 8  -> W8Extract(gf, baseExtract, x, bytes, at, i)
      [] gf.w = 16 -> W16Extract(gf, baseExtract, x, bytes, at, i)
      [] OTHER     -> CauchyWord(gf, x, bytes, i)

ExtractOn(gf, baseExtract) ==
    [xni \in Bits \X Nat \X Nat |-> ExtractWith(gf, baseExtract, xni[1], xni[2], 0, xni[3])]

Extract(gf) == Over(ExtractOn, gf)

ExtractWord(gf, x, bytes, at, i) == ExtractWith(gf, Extract(gf.base), x, bytes, at, i)

=============================================================================
