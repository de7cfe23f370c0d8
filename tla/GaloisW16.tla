----------------------------- MODULE GaloisW16 -----------------------------
(***************************************************************************)
(* gf_w16.c and neon/gf_w16_neon.c: GF(2^16).  F is the field.  The        *)
(* tables of logarithms have 65536 entries, which are not written out: alog *)
(* and log are what they hold, alog[i] = x^i for i from 0 to 65534, and    *)
(* the operators say how the library finds its way in them.                *)
(***************************************************************************)
EXTENDS GaloisSplit, GaloisComposite, GaloisBytwo, GaloisMethod

GfW16DefaultPoly == {0, 1, 3, 12}                               \* 0x1100b

GfW16DivideFromInverse(mult, inverse, a, b) == mult[<<a, inverse[b]>>]
GfW16Euclid(F, b, mult) == EuclidInverse(F, b, mult)
GfW16ExtractWord(region, index) == WordAt(16, region, index)

GfW16MultiplyRegionFromSingle(rd, mult) ==
    WordRegion(16, rd, 2, mult, [s \in Bits |-> mult[<<rd.val, s>>]])

GfW16ShiftMultiply(F, a, b) ==
    ReducedFrom(F, Repeat(16, Zero, LAMBDA p, i : IF i \in a THEN Xor(p, Shl(b, i)) ELSE p), 30)

(***************************************************************************)
(* CARRY_FREE.                                                             *)
(***************************************************************************)
GfW16ClmMultiply2(F, a, b) == ClmMultiply(F, 2, a, b)
GfW16ClmMultiply3(F, a, b) == ClmMultiply(F, 3, a, b)
GfW16ClmMultiply4(F, a, b) == ClmMultiply(F, 4, a, b)

GfW16ClmRegion2(F, rd, mult) ==
    WordRegion(16, rd, 2, mult, [s \in Bits |-> ClmMultiply(F, 2, rd.val, s)])
GfW16ClmRegion3(F, rd, mult) ==
    WordRegion(16, rd, 2, mult, [s \in Bits |-> ClmMultiply(F, 3, rd.val, s)])
GfW16ClmRegion4(F, rd, mult) ==
    WordRegion(16, rd, 2, mult, [s \in Bits |-> ClmMultiply(F, 4, rd.val, s)])

GfW16Reductions(F) ==
    CASE F.poly \cap 9..15 = {} -> 2
      [] F.poly \cap 9..15 # {} /\ F.poly \cap 12..15 = {} -> 3
      [] F.poly \cap 12..15 = {12} -> 4
      [] OTHER -> 0

(* Without the instruction there is nothing to choose: 0, also with NEON.  *)
GfW16CfmInit(F, build) ==
    IF "PCLMUL" \notin build \/ GfW16Reductions(F) = 0 THEN Failed
    ELSE Chosen("clm", "NULL", "NULL", "clm", "none")

(***************************************************************************)
(* LOG_TABLE and LOG_ZERO.                                                 *)
(***************************************************************************)
GfW16LogMultiply(alog, log, a, b) ==
    IF Zero \in {a, b} THEN Zero ELSE alog[(log[a] + log[b]) % 65535]

(* d_antilog points into the middle of the antilogarithms.                 *)
GfW16LogDivide(alog, log, a, b) ==
    IF Zero \in {a, b} THEN Zero ELSE alog[(65535 + log[a] - log[b]) % 65535]

GfW16LogInverse(alog, log, a) ==
    CASE a = Zero -> Zero
      [] a = One -> One
      [] OTHER -> alog[(65535 - log[a]) % 65535]

GfW16LogMultiplyRegion(alog, log, rd) ==
    LET mult == Binary(LAMBDA a, b : GfW16LogMultiply(alog, log, a, b))
    IN  WordRegion(16, rd, 2, mult, [s \in Bits |-> mult[<<rd.val, s>>]])

(* When the powers repeat, a method that only relies on the logarithms     *)
(* falls back to another multiplication: CARRY_FREE in a library compiled  *)
(* for it, though that may have none for this polynomial, else SHIFT.      *)
GfW16LogInit(m, F, primitive, build) ==
    IF primitive THEN Chosen("log", "log", "log", "log", "log")
    ELSE IF m.mult = "LOG_TABLE" THEN Failed
    ELSE IF "PCLMUL" \in build THEN GfW16CfmInit(F, build)
    ELSE Chosen("shift", "NULL", "NULL", "NULL", "none")

(* log 0 is (-GF_MULT_GROUP_SIZE) + 1 where GF_MULT_GROUP_SIZE is the text *)
(* GF_FIELD_SIZE-1, without parentheses.  From the middle of its table     *)
(* antilog_tbl reaches 131072 entries down, all of them 0.                 *)
LogOfZeroInParentheses == 0 - 65535 + 1

LogOfZero == 0 - 65536 - 1 + 1

ZeroLog(log, a) == IF a = Zero THEN LogOfZero ELSE log[a]
ZeroAlog(alog, i) == IF 0 - 131072 <= i /\ i < 0 THEN Zero ELSE alog[i % 65535]

GfW16LogZeroMultiply(alog, log, a, b) ==
    ZeroAlog(alog, ZeroLog(log, a) + ZeroLog(log, b))

GfW16LogZeroDivide(alog, log, a, b) ==
    IF Zero \in {a, b} THEN Zero ELSE ZeroAlog(alog, log[a] - log[b] + 65535)

GfW16LogZeroInverse(alog, log, a) == GfW16LogInverse(alog, log, a)

GfW16LogZeroMultiplyRegion(alog, log, rd) ==
    LET mult == Binary(LAMBDA a, b : GfW16LogZeroMultiply(alog, log, a, b))
    IN  WordRegion(16, rd, 2, mult, [s \in Bits |-> mult[<<rd.val, s>>]])

(* Nothing is compared here: a polynomial that is not primitive leaves     *)
(* entries of the table as they were.                                      *)
GfW16LogZeroInit == Chosen("log_zero", "log_zero", "log_zero", "log_zero", "log_zero")

(***************************************************************************)
(* SPLIT and TABLE: every region operation fills its tables first.         *)
(***************************************************************************)
GfW16Split416LazyMultiplyRegion(rd, mult) ==
    WordRegion(16, rd, 2, mult, [s \in Bits |-> SplitProduct(16, 4, mult, rd.val, s)])

GfW16Split416LazySseMultiplyRegion(rd, mult) ==
    WordRegion(16, rd, 32, mult, [s \in Bits |-> SplitProduct(16, 4, mult, rd.val, s)])

GfW16Split416LazyNosseAltmapMultiplyRegion(rd, mult) ==
    AltRegion(16, rd, 32, mult, [s \in Bits |-> SplitProduct(16, 4, mult, rd.val, s)])

GfW16Split416LazySseAltmapMultiplyRegion(rd, mult) ==
    AltRegion(16, rd, 32, mult, [s \in Bits |-> SplitProduct(16, 4, mult, rd.val, s)])

GfW16Split416LazyNeonMultiplyRegion(rd, altmap, mult) ==
    IF altmap THEN GfW16Split416LazySseAltmapMultiplyRegion(rd, mult)
    ELSE GfW16Split416LazySseMultiplyRegion(rd, mult)

GfW16Split816LazyMultiplyRegion(F, rd, mult) ==
    WordRegion(16, rd, 8, mult, [s \in Bits |-> DoubledProduct(F, 8, rd.val, s)])

GfW16TableLazyMultiplyRegion(F, rd, mult) ==
    RegionOp(16, rd, 8, mult, [x \in Bits |->
        GfTwoByteRegionTableMultiply(x, [s \in Bits |-> GfW16ShiftMultiply(F, s, rd.val)])])

GfW16SplitExtractWord(x, rd, index) == AltExtractWord(16, x, rd, 32, index)

(* tables[k][i][j] is i j x^(8k), by doublings and sums of smaller ones.   *)
Table88(F, k, i, j) ==
    LET row == Doublings(F, One, 8 * k + 16)
    IN  SumOver(i, [n \in i |-> SumOver(j, [l \in j |-> row[8 * k + n + l]])])

GfW16Split88Multiply(F, a, b) ==
    LET Low(x)  == Piece(8, x, 0)
        High(x) == Piece(8, x, 1)
    IN  Xor(Xor(Table88(F, 0, Low(a), Low(b)), Table88(F, 1, Low(a), High(b))),
            Xor(Table88(F, 1, High(a), Low(b)), Table88(F, 2, High(a), High(b))))

(* After the logarithms, what log_init returns is not looked at: the       *)
(* multiplication may still be missing.                                    *)
GfW16SplitInit(m, F, primitive, build) ==
    LET log   == GfW16LogInit(m, F, primitive, build)
        half  == {m.arg1, m.arg2} = {4, 16}
        split == IF "SSSE3" \in build THEN "split_4_16_sse"
                 ELSE IF "NEON" \in build
                      THEN IF "ALTMAP" \in m.region THEN "split_4_16_neon_alt"
                           ELSE "split_4_16_neon"
                 ELSE "split_8_16"
        region ==
            IF {m.arg1, m.arg2} = {8, 16} THEN "split_8_16"
            ELSE IF ~half THEN split
            ELSE IF ~Simd(build) \/ "NOSIMD" \in m.region
                 THEN IF "ALTMAP" \in m.region THEN "split_4_16_nosse_alt" ELSE "split_4_16"
            ELSE IF "ALTMAP" \in m.region /\ "SSSE3" \in build THEN "split_4_16_sse_alt"
            ELSE split
    IN  CASE m.arg1 = 8 /\ m.arg2 = 8 ->
               Chosen("split_8_8", "NULL", "NULL", "split_8_16", "split_8_8")
          [] ~(m.arg1 = 8 /\ m.arg2 = 8) /\ half /\ ~Simd(build) /\ "SIMD" \in m.region -> Failed
          [] OTHER -> [log EXCEPT !.ok = TRUE, !.region = region, !.tables = "log"]

GfW16TableInit(m, F, primitive, build) ==
    [GfW16LogInit(m, F, primitive, build) EXCEPT
        !.ok = TRUE, !.region = "table_lazy", !.tables = "table_lazy"]

(***************************************************************************)
(* BYTWO.                                                                  *)
(***************************************************************************)
GfW16BytwoPMultiply(F, a, b) == BytwoPMultiply(F, a, b)
GfW16BytwoBMultiply(F, a, b) == BytwoBMultiply(F, a, b)

GfW16BytwoPNosseRegion(F, rd) ==
    RegionOp(16, rd, 8, Binary(LAMBDA a, b : BytwoPMultiply(F, a, b)),
             [x \in Bits |-> PackedBytwoP(F, rd.val, x)])
GfW16BytwoPSseRegion(F, rd) ==
    RegionOp(16, rd, 16, Binary(LAMBDA a, b : BytwoPMultiply(F, a, b)),
             [x \in Bits |-> PackedBytwoP(F, rd.val, x)])
GfW16BytwoBSseRegion(F, rd) ==
    RegionOp(16, rd, 16, Binary(LAMBDA a, b : BytwoBMultiply(F, a, b)), [x \in Bits |->
        IF rd.val = {1} THEN PackedDouble(F, x) ELSE PackedBytwoB(F, rd.val, x)])

GfW16BytwoBNosseRegion(F, rd) ==
    LET Twice(x) == PackedDouble(F, PackedDouble(F, x))
    IN  RegionOp(16, rd, 16, Binary(LAMBDA a, b : BytwoBMultiply(F, a, b)), [x \in Bits |->
            CASE rd.val = {1}    -> PackedDouble(F, x)
              [] rd.val = {0, 1} -> Xor(PackedDouble(F, x), x)
              [] rd.val = {2}    -> Twice(x)
              [] rd.val = {0, 2} -> Xor(Twice(x), x)
              [] OTHER           -> PackedBytwoB(F, rd.val, x)])

GfW16BytwoInit(m, build) ==
    IF "SIMD" \in m.region /\ "SSE2" \notin build THEN Failed
    ELSE Chosen(m.mult, "NULL", "NULL",
                IF "SSE2" \in build /\ "NOSIMD" \notin m.region THEN "bytwo_sse" ELSE "bytwo_nosse",
                "bytwo")

(***************************************************************************)
(* COMPOSITE over GF(2^8).                                                 *)
(***************************************************************************)
GfW16CompositeMultiplyRecursive(s, mult, a, b) == CompositeMultiply(8, s, mult, a, b)
GfW16CompositeMultiplyInline(s, T, a, b) == CompositeMultiply(8, s, T, a, b)
GfW16CompositeInverse(s, mult, inverse, a) == CompositeInverse(8, s, mult, inverse, a)
GfW16CompositeMultiplyRegion(s, rd, mult) == CompositeRegion(8, s, rd, 2, mult)
GfW16CompositeMultiplyRegionAlt(s, rd, mult, baseRegion) ==
    CompositeRegionAlt(8, s, rd, 32, mult, baseRegion)
GfW16CompositeExtractWord(x, rd, index, baseExtract) ==
    CompositeExtractWord(8, x, rd, 32, index, baseExtract)

GfW16CompositeInit(m, base) ==
    IF base = "NULL" THEN Failed
    ELSE Chosen(IF base = "table" THEN "composite_inline" ELSE "composite_recursive",
                "NULL", "composite",
                IF "ALTMAP" \in m.region THEN "composite_alt" ELSE "composite", "composite")

(***************************************************************************)
(* GROUP 4 4: four bits of a at a time from the top.  shift[i] is i times  *)
(* b; reduce[l] what the four bits l that leave the product come back as,  *)
(* the low part of the multiple of the polynomial that has l above it.     *)
(***************************************************************************)
GfW16Group4SetShiftTables(F, val, i) ==
    LET doubled == Doublings(F, val, 4) IN SumOver(i, [n \in i |-> doubled[n]])

GfW16GroupReduce(F, l) ==
    Cut(CHOOSE p \in {Product(i, Whole(F)) : i \in SUBSET (0..3)} : Shr(p, 16) = l, 16)

GfW16Group44Multiply(F, a, b) ==
    Repeat(4, Zero, LAMBDA p, k :
        Xor(Xor(GfW16Group4SetShiftTables(F, b, Piece(4, a, 3 - k)),
                GfW16GroupReduce(F, Shr(p, 12))),
            Shl(Cut(p, 12), 4)))

GfW16Group44RegionMultiply(F, rd, mult) ==
    WordRegion(16, rd, 2, mult, [s \in Bits |-> GfW16Group44Multiply(F, s, rd.val)])

(***************************************************************************)
(* The choice of the method.                                               *)
(***************************************************************************)
GfW16ScratchSize(m) ==
    CASE m.mult = "TABLE" -> "table_lazy"
      [] m.mult \in {"BYTWO_p", "BYTWO_b"} -> "bytwo"
      [] m.mult = "LOG_ZERO" -> "log_zero"
      [] m.mult = "LOG_TABLE" -> "log"
      [] m.mult \in {"DEFAULT", "SPLIT"} ->
           IF m.arg1 = 8 /\ m.arg2 = 8 THEN "split_8_8"
           ELSE IF m.mult = "DEFAULT" \/ {m.arg1, m.arg2} \in {{8, 16}, {4, 16}} THEN "log"
           ELSE "0"
      [] m.mult = "GROUP" -> "group"
      [] m.mult \in {"CARRY_FREE", "SHIFT"} -> "none"
      [] m.mult = "COMPOSITE" -> "composite"
      [] OTHER -> "0"

GfW16Init(m, F, primitive, base, build) ==
    Completed(m,
        CASE m.mult = "LOG_ZERO" -> GfW16LogZeroInit
          [] m.mult = "LOG_TABLE" -> GfW16LogInit(m, F, primitive, build)
          [] m.mult \in {"DEFAULT", "SPLIT"} -> GfW16SplitInit(m, F, primitive, build)
          [] m.mult = "TABLE" -> GfW16TableInit(m, F, primitive, build)
          [] m.mult = "CARRY_FREE" -> GfW16CfmInit(F, build)
          [] m.mult = "SHIFT" -> Chosen("shift", "NULL", "NULL", "NULL", "none")
          [] m.mult = "COMPOSITE" -> GfW16CompositeInit(m, base)
          [] m.mult \in {"BYTWO_p", "BYTWO_b"} -> GfW16BytwoInit(m, build)
          [] m.mult = "GROUP" -> Chosen("group_4_4", "NULL", "NULL", "group_4_4", "group")
          [] OTHER -> Failed)

============================================================================
