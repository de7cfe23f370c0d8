---------------------------- MODULE GaloisBytwo ----------------------------
(***************************************************************************)
(* What the fields of several widths do alike: multiplication by repeated  *)
(* doubling, in a word or in all the words of a region at once, and by the *)
(* carry-less multiplication of the processor.                             *)
(***************************************************************************)
EXTENDS GaloisField

Deg(a) == CHOOSE i \in a : \A j \in a : j <= i

(* A product with a bit n at most, reduced from bit n down to bit w.       *)
ReducedFrom(F, product, n) ==
    Repeat(n - F.w + 1, product,
           LAMBDA p, k : IF n - k \in p THEN Xor(p, Shl(Whole(F), n - k - F.w)) ELSE p)

(* The carry-less product, then as many times the multiple of the          *)
(* polynomial that its high part names.                                    *)
ClmMultiply(F, reductions, a, b) ==
    Cut(Repeat(reductions, Product(a, b),
               LAMBDA p, k : Xor(p, Product(Whole(F), Shr(p, F.w)))), F.w)

(* BYTWO_p: the product is doubled while a is read from its high bit.      *)
BytwoPMultiply(F, a, b) ==
    Repeat(F.w, Zero,
           LAMBDA prod, i : IF F.w - 1 - i \in a THEN Xor(Double(F, prod), b)
                            ELSE Double(F, prod))

(* BYTWO_b: b is doubled while a is read from its low bit.                 *)
BytwoBMultiply(F, a, b) ==
    LET Turn(s, i) == [prod |-> IF i \in a THEN Xor(s.prod, s.b) ELSE s.prod,
                       b    |-> Double(F, s.b)]
    IN  Repeat(F.w, [prod |-> Zero, b |-> b], Turn).prod

(* AB2: all the words of x doubled.  The bits that leave a word are masked *)
(* away, and (t2 << 1) - (t2 >> (w - 1)) is all ones in the words that     *)
(* lost one, where the polynomial is added.                                *)
PackedDouble(F, x) ==
    Xor({i + 1 : i \in {j \in x : j % F.w # F.w - 1}},
        {i - F.w + 1 + p : i \in {j \in x : j % F.w = F.w - 1}, p \in F.poly})

PackedBytwoP(F, val, x) ==
    Repeat(F.w, Zero,
           LAMBDA prod, i : IF F.w - 1 - i \in val THEN Xor(PackedDouble(F, prod), x)
                            ELSE PackedDouble(F, prod))

PackedBytwoB(F, val, x) ==
    LET Turn(s, i) == [prod |-> IF i \in val THEN Xor(s.prod, s.va) ELSE s.prod,
                       va   |-> PackedDouble(F, s.va)]
    IN  Repeat(F.w, [prod |-> Zero, va |-> x], Turn).prod

(***************************************************************************)
(* Euclid: a turn divides the remainder before the last by the last, and   *)
(* carries the cofactors y along.  mult multiplies as the method does.     *)
(***************************************************************************)
LongDivision(e, d) ==
    LET Turn(s, i) ==
            IF s.e = Zero \/ Deg(s.e) < Deg(d) THEN s
            ELSE [c |-> Xor(s.c, {Deg(s.e) - Deg(d)}),
                  e |-> Xor(s.e, Shl(d, Deg(s.e) - Deg(d)))]
    IN  Repeat(Deg(e) + 1, [c |-> Zero, e |-> e], Turn)

EuclidInverse(F, b, mult) ==
    LET Turn(s, i) ==
            IF s.e \in {One, Zero} THEN s
            ELSE LET d == LongDivision(s.before, s.e)
                 IN  [before |-> s.e, e |-> d.e,
                      yBefore |-> s.y,
                      y |-> IF d.e = Zero THEN Zero
                            ELSE Xor(s.yBefore, mult[<<d.c, s.y>>])]
    IN  Repeat(2 * F.w, [before |-> Whole(F), e |-> b, yBefore |-> Zero, y |-> One], Turn).y

============================================================================
