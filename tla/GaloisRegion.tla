--------------------------- MODULE GaloisRegion ----------------------------
(***************************************************************************)
(* Regions of words, from gf.c: how the multiplication of a region is cut  *)
(* into an aligned middle, done many words at a time, and the words before *)
(* and after it, done one by one.                                          *)
(*                                                                         *)
(* A region is the set of the positions of its 1 bits, bit b of byte n at  *)
(* 8n + b, so that word k of width w is in the positions kw .. kw + w - 1. *)
(* An operation rd is a record: src and dest, the regions; val, the        *)
(* multiplier; xor, whether the product is added to dest; bytes; at and    *)
(* to, the addresses of src and dest modulo 16.                            *)
(***************************************************************************)
EXTENDS GaloisField

WordBytes(w) == IF w < 8 THEN 1 ELSE w \div 8

(* What % yields in C, where / truncates towards zero.                     *)
Rem(n, d) == IF n >= 0 THEN n % d ELSE 0 - ((0 - n) % d)

(* The words of a region, and a region from its words.                     *)
WordAt(w, x, k) == {i - k * w : i \in {j \in x : j \div w = k}}

PerWord(w, x, op) ==
    UNION {Shl(op[WordAt(w, x, k)], k * w) : k \in {i \div w : i \in x}}

(***************************************************************************)
(* gf_set_region_data.  The program exits when the addresses are not       *)
(* aligned to each other, or not to a word, or the size is not one of      *)
(* whole words: Refused stands for the result there is not.  start and top *)
(* are the bytes the middle runs between.                                  *)
(***************************************************************************)
Refused == {-1}

Aligned(w, rd, align) ==
    LET a == IF align <= 16 THEN align ELSE 16
    IN  /\ rd.at % a = rd.to % a
        /\ rd.at % WordBytes(w) = 0
        /\ rd.bytes % WordBytes(w) = 0

GfSetRegionData(rd, align) ==
    LET a    == IF align <= 16 THEN align ELSE 16
        gap  == IF rd.at % a = 0 THEN 0 ELSE a - (rd.at % a)
        left == rd.bytes - gap
    IN  [start |-> gap, top |-> gap + left - Rem(left, align)]

(* The middle of a region, and what is outside it.                         *)
Middle(x, span) == {i \in x : 8 * span.start <= i /\ i < 8 * span.top}

(***************************************************************************)
(* gf_slow_multiply_region: one word after the other, from a byte up to    *)
(* another, by the multiplication of the method.  A region that ends       *)
(* before the first aligned address is not in the model: there the loops   *)
(* of the code, which test for != and not for <, run beyond its end.       *)
(***************************************************************************)
GfSlowMultiplyRegion(w, rd, from, upTo, mult) ==
    PerWord(w, {i \in rd.src : 8 * from <= i /\ i < 8 * upTo},
            [s \in Bits |-> mult[<<rd.val, s>>]])

Stored(rd, product) == IF rd.xor THEN Xor(rd.dest, product) ELSE product

(***************************************************************************)
(* A region in its parts: the initial words, the middle, whose product is  *)
(* fast of its bits, and the final words.  A region operation is           *)
(* gf_multby_zero and gf_multby_one for 0 and 1, else these parts.         *)
(***************************************************************************)
InParts(w, rd, align, mult, fast) ==
    LET span == GfSetRegionData(rd, align)
        x    == Middle(rd.src, span)
    IN  IF ~Aligned(w, rd, align) THEN Refused
        ELSE Stored(rd, UNION {
                GfSlowMultiplyRegion(w, rd, 0, span.start, mult),
                Shl(fast[Shr(x, 8 * span.start)], 8 * span.start),
                GfSlowMultiplyRegion(w, rd, span.top, rd.bytes, mult)})

RegionOp(w, rd, align, mult, fast) ==
    IF rd.val = Zero THEN IF rd.xor THEN rd.dest ELSE Zero
    ELSE IF rd.val = One THEN Stored(rd, rd.src)
    ELSE InParts(w, rd, align, mult, fast)

(* The middle done word by word with a table look-up or a formula.         *)
WordRegion(w, rd, align, mult, op) ==
    RegionOp(w, rd, align, mult, [x \in Bits |-> PerWord(w, x, op)])

(* No middle: the loop runs over the region from its first word to its     *)
(* last, whatever its alignment.                                           *)
PlainRegion(w, rd, op) ==
    IF rd.val = Zero THEN IF rd.xor THEN rd.dest ELSE Zero
    ELSE Stored(rd, PerWord(w, rd.src, op))

(***************************************************************************)
(* gf_two_byte_region_table_multiply: 64 bits at a time through a table    *)
(* for 16 bits, the highest 16 first, each product moved up by the next.   *)
(***************************************************************************)
GfTwoByteRegionTableMultiply(x, table) ==
    PerWord(64, x, [a \in Bits |->
        Repeat(4, Zero, LAMBDA prod, k :
            Xor(Shl(prod, 16), table[Cut(Shr(a, 48 - 16 * k), 16)]))])

(***************************************************************************)
(* gf_multby_one with xor, a byte or a machine word at a time: aligned     *)
(* with each other to 16 bytes (SSE2, NEON) or to 8, in the three parts;   *)
(* else unaligned loads, or gf_unaligned_xor, which aligns to dest only.   *)
(* Every part is added once: the parts cover the region without overlap.   *)
(***************************************************************************)
XorParts(rd, align) ==
    LET span == GfSetRegionData(rd, align)
    IN  {0..(span.start - 1), span.start..(span.top - 1), span.top..(rd.bytes - 1)}

GfMultbyOneParts(rd, simd) ==
    IF simd /\ rd.at % 16 = rd.to % 16 THEN XorParts(rd, 16)
    ELSE IF simd THEN LET whole == rd.bytes - (rd.bytes % 16)
                      IN  {0..(whole - 1), whole..(rd.bytes - 1)}
    ELSE IF rd.at % 8 # rd.to % 8 THEN XorParts([rd EXCEPT !.at = rd.to], 64)
    ELSE XorParts(rd, 8)

============================================================================
