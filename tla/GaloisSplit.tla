---------------------------- MODULE GaloisSplit ----------------------------
(***************************************************************************)
(* SPLIT tables, for the widths whose whole table would be too great: a    *)
(* word is cut into pieces of n bits, table k holds the products of val    *)
(* with each piece k, and the product is the sum of what the pieces find.  *)
(***************************************************************************)
EXTENDS GaloisRegion

Piece(n, x, k) == Cut(Shr(x, n * k), n)

(* The tables filled with the multiplication of the method.                *)
SplitProduct(w, n, mult, val, x) ==
    Repeat(w \div n, Zero,
           LAMBDA prod, k : Xor(prod, mult[<<Shl(Piece(n, x, k), n * k), val>>]))

(* The tables filled with val, which is doubled from entry to entry and    *)
(* from table to table: an entry is the sum of those its bits name.        *)
DoubledProduct(F, n, val, x) ==
    LET doubled == Doublings(F, val, F.w)
    IN  Repeat(F.w \div n, Zero, LAMBDA prod, k :
            Xor(prod, SumOver(Piece(n, x, k), [i \in Piece(n, x, k) |-> doubled[n * k + i]])))

(***************************************************************************)
(* ALTMAP: the words lie in blocks of sixteen, first the high bytes of     *)
(* all sixteen, last the low bytes, so that a vector holds one byte of     *)
(* each.  Bit i of a region laid out word by word is at AltBit(w, i).      *)
(***************************************************************************)
AltBit(w, i) ==
    LET word == i \div w
        byte == (i % w) \div 8
    IN  8 * ((word \div 16) * 2 * w + (w \div 8 - 1 - byte) * 16 + (word % 16)) + (i % 8)

PlainBit(w, i) ==
    LET byte  == i \div 8
        place == byte % (2 * w)
    IN  ((byte \div (2 * w)) * 16 + (place % 16)) * w
          + (w \div 8 - 1 - (place \div 16)) * 8 + (i % 8)

AltRegion(w, rd, align, mult, op) ==
    RegionOp(w, rd, align, mult, [x \in Bits |->
        {AltBit(w, i) : i \in PerWord(w, {PlainBit(w, i) : i \in x}, op)}])

(* The word of an index in that layout, byte by byte, the highest first.   *)
AltExtractWord(w, x, rd, align, index) ==
    LET span  == GfSetRegionData(rd, align)
        bytes == w \div 8
        i     == index - (span.start \div bytes)
        At(n) == span.start + (i - (i % 16)) * bytes + (i % 16) + 16 * n
    IN  IF index * bytes < span.start \/ index * bytes >= span.top
        THEN WordAt(w, x, index)
        ELSE UNION {Shl(WordAt(8, x, At(n)), 8 * (bytes - 1 - n)) : n \in 0..(bytes - 1)}

============================================================================
