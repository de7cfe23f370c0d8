---------------------------- MODULE GaloisField ----------------------------
(***************************************************************************)
(* Arithmetic in GF(2^w) as GF-Complete, the library under the erasure     *)
(* coder, does it (src/erasure_code/lrc/src/gf*.c).  A word is the set of  *)
(* the positions of its 1 bits, which is also the set of the exponents of  *)
(* its polynomial: ^ is the symmetric difference, << moves the positions.  *)
(*                                                                         *)
(* A field is a record: w, its width, and poly, the primitive polynomial   *)
(* without x^w (the tables of the library leave that bit out, or set it,   *)
(* as suits the method).  The operators of this module are the reference,  *)
(* Times, and what the methods of the other modules have in common.        *)
(***************************************************************************)
EXTENDS Integers, FiniteSets, Sequences

Zero == {}
One == {0}

(* What a word or a region may be, for the functions passed as arguments.  *)
Bits == SUBSET Nat

(* An operation on two words, as the function that is passed.              *)
Binary(op(_, _)) == [ab \in Bits \X Bits |-> op(ab[1], ab[2])]

Xor(a, b) == (a \ b) \cup (b \ a)
Shl(a, n) == {i + n : i \in a}
Shr(a, n) == {i - n : i \in {j \in a : j >= n}}
Cut(a, n) == {i \in a : i < n}            \* a & ((1 << n) - 1)

Odd(S) == Cardinality(S) % 2 = 1

(* The value after n turns of a loop, Turn(v, i) being turn i = 0, 1, ...  *)
Repeat(n, first, Turn(_, _)) ==
    LET after[i \in 0..n] == IF i = 0 THEN first ELSE Turn(after[i - 1], i - 1)
    IN  after[n]

(* The sum of f[s] for s in S.                                             *)
SumOver(S, f) == {k \in UNION {f[s] : s \in S} : Odd({s \in S : k \in f[s]})}

(* The product of two polynomials over GF(2).                              *)
Product(a, b) ==
    {k \in {i + j : i \in a, j \in b} : Odd({i \in a : k - i \in b})}

Whole(F) == F.poly \cup {F.w}
Words(F) == SUBSET (0..(F.w - 1))

(* a times x, the step of every BYTWO method.                              *)
Double(F, a) ==
    IF F.w - 1 \in a THEN Xor(Cut(Shl(a, 1), F.w), F.poly) ELSE Shl(a, 1)

(* a, a x, a x^2 ... a x^(n-1), as a function from 0.                      *)
Doublings(F, a, n) ==
    LET row == Repeat(n - 1, <<a>>, LAMBDA s, i : Append(s, Double(F, s[i + 1])))
    IN  [i \in 0..(n - 1) |-> row[i + 1]]

(***************************************************************************)
(* The reference.  x^w is poly, so the part of a polynomial from x^w on is *)
(* that part times poly, lower down, until there is no such part.          *)
(***************************************************************************)
Reduced(F, a) ==
    LET residue[p \in SUBSET (0..(2 * F.w))] ==
            IF Shr(p, F.w) = Zero THEN p
            ELSE residue[Xor(Cut(p, F.w), Product(Shr(p, F.w), F.poly))]
    IN  residue[a]

Times(F, a, b) == Reduced(F, Product(a, b))

(* a^n, squared and multiplied along the bits of n, the highest first.     *)
Power(F, a, n) ==
    LET power[m \in Nat] ==
            IF m = 0 THEN One
            ELSE LET half == power[m \div 2]
                     even == Times(F, half, half)
                 IN  IF m % 2 = 0 THEN even ELSE Times(F, even, a)
    IN  power[n]

PowerOfX(F, n) == Power(F, {1}, n)

(* The polynomial is primitive: the order of x is that of the field's      *)
(* group, as no quotient of it by a prime is.                              *)
XHasFullOrder(F) ==
    LET n        == 2 ^ F.w - 1
        small    == {d \in 2..(2 ^ ((F.w + 1) \div 2)) : n % d = 0}
        divisors == (small \cup {n \div d : d \in small} \cup {n}) \ {1}
        primes   == {p \in divisors : \A d \in divisors : d < p => p % d # 0}
    IN  PowerOfX(F, n) = One /\ \A p \in primes : PowerOfX(F, n \div p) # One

(***************************************************************************)
(* The powers of x in order, x^0 to x^(2^w - 1), a row of them from the one *)
(* before, half as long; all logarithm tables are filled from them: the    *)
(* log of a is the index that held it.                                     *)
(***************************************************************************)
PowerRow(F) ==
    LET rows[k \in 0..F.w] ==
            IF k = 0 THEN <<One>>
            ELSE LET row  == rows[k - 1]
                     next == Double(F, row[Len(row)])
                 IN  row \o [i \in 1..Len(row) |-> Times(F, row[i], next)]
    IN  rows[F.w]

Powers(F) ==
    LET row     == PowerRow(F)
        indices == 0..(2 ^ F.w - 2)
    IN  [antilog |-> [i \in indices |-> row[i + 1]],
         log     |-> [a \in {row[i + 1] : i \in indices} |->
                         CHOOSE i \in indices : row[i + 1] = a]]

(* The polynomial is not primitive: a power is met twice.                  *)
MetAgain(P) == Cardinality(DOMAIN P.log) # Cardinality(DOMAIN P.antilog)

============================================================================
