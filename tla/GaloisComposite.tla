-------------------------- MODULE GaloisComposite --------------------------
(***************************************************************************)
(* COMPOSITE fields, which every width from 8 to 128 builds in the same    *)
(* way on the field of half its width: a word is a polynomial a1 y + a0,   *)
(* and y^2 = s y + 1.  h is half the width; mult, inverse and s are those  *)
(* of the base field.                                                      *)
(***************************************************************************)
EXTENDS GaloisRegion

CompositeMultiply(h, s, mult, a, b) ==
    LET a0   == Cut(a, h)
        a1   == Shr(a, h)
        b0   == Cut(b, h)
        b1   == Shr(b, h)
        a1b1 == mult[<<a1, b1>>]
    IN  Xor(mult[<<a0, b0>>], a1b1)
          \cup Shl(Xor(Xor(mult[<<a1, b0>>], mult[<<a0, b1>>]), mult[<<a1b1, s>>]), h)

(* Mutant: d is taken for d + 1.                                           *)
InverseWithoutOne(h, s, mult, inverse, a) ==
    LET a0   == Cut(a, h)
        a1   == Shr(a, h)
        over == mult[<<a1, inverse[a0]>>]
        sum  == Xor(Xor(over, mult[<<a0, inverse[a1]>>]), s)
        d    == mult[<<over, inverse[sum]>>]
    IN  mult[<<d, inverse[a0]>>] \cup Shl(mult[<<d, inverse[a1]>>], h)

(* With d = a1 c1 and d + 1 = a0 c0, s a1 c1 + a1 c0 + a0 c1 = 0.          *)
CompositeInverse(h, s, mult, inverse, a) ==
    LET a0 == Cut(a, h)
        a1 == Shr(a, h)
    IN  IF a0 = Zero THEN mult[<<inverse[a1], s>>] \cup Shl(inverse[a1], h)
        ELSE IF a1 = Zero THEN inverse[a0]
        ELSE LET over == mult[<<a1, inverse[a0]>>]
                 sum  == Xor(Xor(over, mult[<<a0, inverse[a1]>>]), s)
                 d    == mult[<<over, inverse[sum]>>]
             IN  mult[<<Xor(d, One), inverse[a0]>>] \cup Shl(mult[<<d, inverse[a1]>>], h)

CompositeRegion(h, s, rd, align, mult) ==
    LET both == Binary(LAMBDA a, b : CompositeMultiply(h, s, mult, a, b))
    IN  IF rd.val = Zero THEN IF rd.xor THEN rd.dest ELSE Zero
        ELSE InParts(2 * h, rd, align, both,
                     [x \in Bits |-> PerWord(2 * h, x, [a \in Bits |-> both[<<rd.val, a>>]])])

(***************************************************************************)
(* ALTMAP: the middle of the region holds the low halves of all its words  *)
(* and then their high halves, so that five region operations of the base  *)
(* field on half of it are the multiplication: baseRegion[<<v, x, n>>] is  *)
(* v times the region x of n bytes.  With 0 the function for 8 bits never  *)
(* comes here, the one for 16 does and looks at the alignment first.       *)
(***************************************************************************)
HalfOf(x, span, n) ==
    LET half == (span.top - span.start) \div 2
    IN  Cut(Shr(x, 8 * (span.start + n * half)), 8 * half)

CompositeRegionAlt(h, s, rd, align, mult, baseRegion) ==
    LET span  == GfSetRegionData(rd, align)
        half  == (span.top - span.start) \div 2
        val0  == Cut(rd.val, h)
        val1  == Shr(rd.val, h)
        By(v, x) == baseRegion[<<v, x, half>>]
        low   == HalfOf(rd.src, span, 0)
        high  == HalfOf(rd.src, span, 1)
        both == Binary(LAMBDA a, b : CompositeMultiply(h, s, mult, a, b))
    IN  IF ~Aligned(2 * h, rd, align) THEN Refused
        ELSE Stored(rd, UNION {
                GfSlowMultiplyRegion(2 * h, rd, 0, span.start, both),
                Shl(Xor(By(val0, low), By(val1, high)), 8 * span.start),
                Shl(Xor(Xor(By(val1, low), By(val0, high)), By(mult[<<s, val1>>], high)),
                    8 * (span.start + half)),
                GfSlowMultiplyRegion(2 * h, rd, span.top, rd.bytes, both)})

(* The word of an index in that layout; baseExtract[<<x, n, i>>] is word i *)
(* of a region x of n bytes of the base field.                             *)
CompositeExtractWord(h, x, rd, align, index, baseExtract) ==
    LET span  == GfSetRegionData(rd, align)
        bytes == WordBytes(2 * h)
        half  == (span.top - span.start) \div 2
    IN  IF index * bytes < span.start \/ index * bytes >= span.top
        THEN WordAt(2 * h, x, index)
        ELSE LET i == index - (span.start \div bytes)
             IN  baseExtract[<<HalfOf(x, span, 0), half, i>>]
                   \cup Shl(baseExtract[<<HalfOf(x, span, 1), half, i>>], h)

============================================================================
