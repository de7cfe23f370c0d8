--------------------------- MODULE Galois_proofs ---------------------------
(* Theorems about the arithmetic of GF-Complete, the fields GF(2^w): what    *)
(* its methods compute is the product of polynomials, for every width and    *)
(* every polynomial.                                                         *)
EXTENDS GaloisCalls, CommonFacts

-----------------------------------------------------------------------------
(* Polynomials over GF(2): finite sets of exponents. *)

Polynomial == {p \in SUBSET Nat : IsFiniteSet(p)}

\* Polynomials and their exponents.
LEMMA PolynomialIs ==
    ASSUME NEW p \in Polynomial
    PROVE  IsFiniteSet(p) /\ p \subseteq Nat /\ \A i \in p : i \in Nat
BY DEF Polynomial

\* A part of a polynomial is one.
LEMMA SmallerPolynomial ==
    ASSUME NEW p \in Polynomial, NEW q \in SUBSET p
    PROVE  q \in Polynomial
BY FS_Subset DEF Polynomial

\* What has no exponent above n is a polynomial.
LEMMA WordPolynomial ==
    ASSUME NEW m \in Int, NEW p \in SUBSET (0..m)
    PROVE  p \in Polynomial
<1>1. IsFiniteSet(0..m)
  BY FS_Interval
<1>2. p \subseteq Nat
  OBVIOUS
<1>3. IsFiniteSet(p)
  BY <1>1, FS_Subset
<1> QED BY <1>2, <1>3 DEF Polynomial

\* What is in a sum.
LEMMA InXor == \A a, b, x : x \in Xor(a, b) <=> ~(x \in a <=> x \in b)
BY DEF Xor

\* A sum of polynomials is one.
LEMMA XorPolynomial ==
    ASSUME NEW a \in Polynomial, NEW b \in Polynomial
    PROVE  Xor(a, b) \in Polynomial
<1>1. IsFiniteSet(a \cup b)
  BY FS_Union DEF Polynomial
<1>2. Xor(a, b) \subseteq a \cup b
  BY DEF Xor
<1>3. IsFiniteSet(Xor(a, b))
  BY <1>1, <1>2, FS_Subset
<1> QED BY <1>2, <1>3 DEF Polynomial

\* The parity of a sum is the sum of the parities.
LEMMA OddXor ==
    ASSUME NEW S, NEW T, IsFiniteSet(S), IsFiniteSet(T)
    PROVE  Odd(Xor(S, T)) <=> ~(Odd(S) <=> Odd(T))
<1> DEFINE D == S \ T
           E == T \ S
           I == S \cap T
<1>1. S = D \cup I /\ T = E \cup I /\ Xor(S, T) = D \cup E
  BY DEF Xor
<1>2. IsFiniteSet(D) /\ IsFiniteSet(E) /\ IsFiniteSet(I)
  BY FS_Subset
<1>3. D \cap I = {} /\ E \cap I = {} /\ D \cap E = {}
  OBVIOUS
<1> HIDE DEF D, E, I
<1>4. Cardinality(S) = Cardinality(D) + Cardinality(I)
  BY <1>1, <1>2, <1>3, DisjointCount
<1>5. Cardinality(T) = Cardinality(E) + Cardinality(I)
  BY <1>1, <1>2, <1>3, DisjointCount
<1>6. Cardinality(Xor(S, T)) = Cardinality(D) + Cardinality(E)
  BY <1>1, <1>2, <1>3, DisjointCount
<1>7. Cardinality(D) \in Nat /\ Cardinality(E) \in Nat /\ Cardinality(I) \in Nat
  BY <1>2, FS_CardinalityType
<1>8. \A d, e, i \in Nat :
        (d + e) % 2 = 1 <=> ~((d + i) % 2 = 1 <=> (e + i) % 2 = 1)
  OBVIOUS
<1> QED BY <1>4, <1>5, <1>6, <1>7, <1>8 DEF Odd

\* Nothing is an even number of things, one an odd one.
LEMMA OddFew == ~Odd({}) /\ \A x : Odd({x})
<1>1. Cardinality({}) = 0 /\ \A x : Cardinality({x}) = 1
  BY FS_EmptySet, FS_Singleton
<1> QED BY <1>1 DEF Odd

\* As many numbers on the other side of k / 2.
LEMMA Reflected ==
    ASSUME NEW S \in SUBSET Int, NEW T \in SUBSET Int, IsFiniteSet(S), NEW k \in Int,
           \A i \in S : k - i \in T, \A j \in T : k - j \in S
    PROVE  Odd(S) <=> Odd(T)
<1> DEFINE f == [i \in S |-> k - i]
<1>1. f \in [S -> T] /\ \A t \in T : \E i \in S : f[i] = t
  <2>1. \A t \in T : f[k - t] = t
    OBVIOUS
  <2> QED BY <2>1
<1>2. \A i, j \in S : f[i] = f[j] => i = j
  OBVIOUS
<1> HIDE DEF f
<1>3. f \in Bijection(S, T)
  BY <1>1, <1>2 DEF Bijection, Injection, Surjection, IsInjective
<1>4. ExistsBijection(S, T)
  BY <1>3 DEF ExistsBijection
<1>5. Cardinality(T) = Cardinality(S)
  BY <1>4, FS_Bijection
<1> QED BY <1>5 DEF Odd

\* What is in a product.
LEMMA InProduct ==
    ASSUME NEW a \in Polynomial, NEW b \in Polynomial
    PROVE  /\ Product(a, b) \subseteq Nat
           /\ \A k \in Nat : k \in Product(a, b) <=> Odd({i \in a : k - i \in b})
<1>0. (\A i \in a : i \in Nat) /\ (\A i \in b : i \in Nat)
  BY PolynomialIs
<1>1. Product(a, b) \subseteq Nat
  BY <1>0 DEF Product
<1>2. ASSUME NEW k \in Nat, Odd({i \in a : k - i \in b})
      PROVE  k \in {i + j : i \in a, j \in b}
  <2>1. PICK i \in a : k - i \in b
    BY <1>2, OddFew
  <2>2. k = i + (k - i)
    BY <1>0
  <2> QED BY <2>1, <2>2
<1> DEFINE P(k) == Odd({i \in a : k - i \in b})
           T == {i + j : i \in a, j \in b}
<1>3. Product(a, b) = {k \in T : P(k)}
  BY DEF Product
<1>4. \A k \in Nat : P(k) => k \in T
  BY <1>2
<1> HIDE DEF P, T
<1>5. \A k \in Nat : k \in Product(a, b) <=> P(k)
  BY <1>3, <1>4
<1> QED BY <1>1, <1>5 DEF P

\* The degree of a product is the sum of the degrees.
LEMMA ProductBound ==
    ASSUME NEW m \in Int, NEW n \in Int, NEW a \in SUBSET (0..m), NEW b \in SUBSET (0..n)
    PROVE  Product(a, b) \in SUBSET (0..(m + n))
<1> SUFFICES ASSUME NEW k \in Product(a, b) PROVE k \in 0..(m + n)
  OBVIOUS
<1>1. PICK i \in a, j \in b : k = i + j
  BY DEF Product
<1>2. i \in 0..m /\ j \in 0..n
  OBVIOUS
<1> QED BY <1>1, <1>2

\* A product of polynomials is one.
LEMMA ProductPolynomial ==
    ASSUME NEW a \in Polynomial, NEW b \in Polynomial
    PROVE  Product(a, b) \in Polynomial
<1> DEFINE S == {p[1] + p[2] : p \in a \X b}
           f == [p \in a \X b |-> p[1] + p[2]]
<1>1. IsFiniteSet(a \X b)
  BY FS_Product DEF Polynomial
<1>2. Product(a, b) \subseteq S
  <2> SUFFICES ASSUME NEW i \in a, NEW j \in b PROVE i + j \in S
    BY DEF Product
  <2>1. <<i, j>> \in a \X b /\ <<i, j>>[1] = i /\ <<i, j>>[2] = j
    OBVIOUS
  <2> QED BY <2>1
<1>3. f \in Surjection(a \X b, S)
  BY DEF Surjection
<1> HIDE DEF S, f
<1>4. IsFiniteSet(S)
  BY <1>1, <1>3, FS_Surjection
<1>5. IsFiniteSet(Product(a, b))
  BY <1>2, <1>4, FS_Subset
<1> QED BY <1>5, InProduct DEF Polynomial

\* Polynomials with the same exponents are the same.
LEMMA SamePolynomial ==
    ASSUME NEW p \in SUBSET Nat, NEW q \in SUBSET Nat, \A k \in Nat : k \in p <=> k \in q
    PROVE  p = q
OBVIOUS

\* Multiplication commutes and distributes over the sum.
LEMMA ProductCommutes ==
    ASSUME NEW a \in Polynomial, NEW b \in Polynomial
    PROVE  Product(a, b) = Product(b, a)
<1>1. ASSUME NEW k \in Nat
      PROVE  Odd({i \in a : k - i \in b}) <=> Odd({i \in b : k - i \in a})
  <2> DEFINE S == {i \in a : k - i \in b}
             T == {i \in b : k - i \in a}
  <2>0. (\A i \in a : i \in Nat) /\ (\A i \in b : i \in Nat)
    BY PolynomialIs
  <2>1. S \in SUBSET Int /\ T \in SUBSET Int
    BY <2>0
  <2>2. IsFiniteSet(S)
    BY FS_Subset DEF Polynomial
  <2>3. (\A i \in S : k - i \in T) /\ (\A j \in T : k - j \in S)
    BY <2>0
  <2> HIDE DEF S, T
  <2>4. Odd(S) <=> Odd(T)
    BY <2>1, <2>2, <2>3, Reflected
  <2> QED BY <2>4 DEF S, T
<1>2. ASSUME NEW k \in Nat PROVE k \in Product(a, b) <=> k \in Product(b, a)
  <2>1. /\ k \in Product(a, b) <=> Odd({i \in a : k - i \in b})
        /\ k \in Product(b, a) <=> Odd({i \in b : k - i \in a})
    BY InProduct
  <2> QED BY <1>1, <2>1
<1>3. Product(a, b) \subseteq Nat /\ Product(b, a) \subseteq Nat
  BY InProduct
<1> QED BY <1>2, <1>3, SamePolynomial

\* The product distributes over the sum.
LEMMA ProductOfSum ==
    ASSUME NEW a \in Polynomial, NEW b \in Polynomial, NEW c \in Polynomial
    PROVE  /\ Product(Xor(a, b), c) = Xor(Product(a, c), Product(b, c))
           /\ Product(c, Xor(a, b)) = Xor(Product(c, a), Product(c, b))
<1>0. Xor(a, b) \in Polynomial
  BY XorPolynomial
<1>1. ASSUME NEW k \in Nat
      PROVE  k \in Product(Xor(a, b), c) <=> k \in Xor(Product(a, c), Product(b, c))
  <2> DEFINE S == {i \in a : k - i \in c}
             T == {i \in b : k - i \in c}
             U == {i \in Xor(a, b) : k - i \in c}
  <2>1. IsFiniteSet(S) /\ IsFiniteSet(T)
    BY FS_Subset DEF Polynomial
  <2>2. U = Xor(S, T)
    BY DEF Xor
  <2>3. /\ k \in Product(a, c) <=> Odd(S)
        /\ k \in Product(b, c) <=> Odd(T)
        /\ k \in Product(Xor(a, b), c) <=> Odd(U)
    BY <1>0, InProduct
  <2> HIDE DEF S, T, U
  <2>4. Odd(U) <=> ~(Odd(S) <=> Odd(T))
    BY <2>1, <2>2, OddXor
  <2> QED BY <2>3, <2>4, InXor
<1>2. Product(Xor(a, b), c) \subseteq Nat /\ Xor(Product(a, c), Product(b, c)) \subseteq Nat
  <2>1. Product(a, c) \subseteq Nat /\ Product(b, c) \subseteq Nat /\ Product(Xor(a, b), c) \subseteq Nat
    BY <1>0, InProduct
  <2> QED BY <2>1 DEF Xor
<1>3. Product(Xor(a, b), c) = Xor(Product(a, c), Product(b, c))
  BY <1>1, <1>2, SamePolynomial
<1>4. /\ Product(c, Xor(a, b)) = Product(Xor(a, b), c)
      /\ Product(c, a) = Product(a, c) /\ Product(c, b) = Product(b, c)
  BY <1>0, ProductCommutes
<1> QED BY <1>3, <1>4

\* By a power of x: a shift.
LEMMA ProductOfPower ==
    ASSUME NEW a \in Polynomial, NEW n \in Nat
    PROVE  /\ {n} \in Polynomial
           /\ Product({n}, a) = Shl(a, n) /\ Product(a, {n}) = Shl(a, n)
           /\ Shl(a, n) \in Polynomial
<1>1. {n} \in Polynomial
  BY FS_Singleton DEF Polynomial
<1>2. \A i \in a : i \in Nat
  BY PolynomialIs
<1>3. ASSUME NEW k \in Nat PROVE k \in Product({n}, a) <=> k \in Shl(a, n)
  <2>1. k - n \in a <=> k \in Shl(a, n)
    BY <1>2 DEF Shl
  <2>2. {i \in {n} : k - i \in a} = IF k - n \in a THEN {n} ELSE {}
    OBVIOUS
  <2>3. k \in Product({n}, a) <=> Odd({i \in {n} : k - i \in a})
    BY <1>1, InProduct
  <2> QED BY <2>1, <2>2, <2>3, OddFew
<1>4. Shl(a, n) \subseteq Nat /\ Product({n}, a) \subseteq Nat
  BY <1>1, <1>2, InProduct DEF Shl
<1>5. Product({n}, a) = Shl(a, n)
  BY <1>3, <1>4, SamePolynomial
<1>6. Product(a, {n}) = Product({n}, a) /\ Product({n}, a) \in Polynomial
  BY <1>1, ProductCommutes, ProductPolynomial
<1> QED BY <1>1, <1>5, <1>6

\* A product with 0 is 0.
LEMMA ProductOfZero ==
    ASSUME NEW a \in Polynomial
    PROVE  {} \in Polynomial /\ Product({}, a) = {} /\ Product(a, {}) = {}
BY FS_EmptySet DEF Polynomial, Product

\* How far what is moved reaches.
LEMMA ShlWithin ==
    ASSUME NEW m \in Int, NEW p \in SUBSET (0..m), NEW g \in Nat, NEW n \in Int, m + g <= n
    PROVE  Shl(p, g) \in SUBSET (0..n)
<1> SUFFICES ASSUME NEW k \in Shl(p, g) PROVE k \in 0..n
  OBVIOUS
<1>1. PICK i \in p : k = i + g
  BY DEF Shl
<1>2. i \in Int /\ 0 <= i /\ i <= m
  OBVIOUS
<1> QED BY <1>1, <1>2

\* A sum is moved by moving what is added.
LEMMA ShlXor ==
    ASSUME NEW a \in SUBSET Nat, NEW b \in SUBSET Nat, NEW n \in Nat
    PROVE  Shl(Xor(a, b), n) = Xor(Shl(a, n), Shl(b, n))
<1>1. \A k : /\ k \in Shl(a, n) <=> \E i \in a : k = i + n
             /\ k \in Shl(b, n) <=> \E i \in b : k = i + n
             /\ k \in Shl(Xor(a, b), n) <=> \E i \in Xor(a, b) : k = i + n
  BY DEF Shl
<1>2. \A i, j \in Nat : i + n = j + n => i = j
  OBVIOUS
<1>3. ASSUME NEW i \in Nat
      PROVE  /\ i + n \in Shl(a, n) <=> i \in a
             /\ i + n \in Shl(b, n) <=> i \in b
  BY <1>1, <1>2
<1>4. ASSUME NEW k PROVE k \in Shl(Xor(a, b), n) <=> k \in Xor(Shl(a, n), Shl(b, n))
  <2>1. Xor(a, b) \in SUBSET Nat
    BY DEF Xor
  <2>2. \A i \in Nat : i \in Xor(a, b) <=> i + n \in Xor(Shl(a, n), Shl(b, n))
    BY <1>3 DEF Xor
  <2>3. CASE k \in Shl(Xor(a, b), n)
    <3>1. PICK i \in Xor(a, b) : k = i + n
      BY <1>1, <2>3
    <3> QED BY <2>1, <2>2, <2>3, <3>1
  <2>4. CASE k \in Xor(Shl(a, n), Shl(b, n))
    <3>1. k \in Shl(a, n) \/ k \in Shl(b, n)
      BY <2>4 DEF Xor
    <3>2. PICK i \in a \cup b : k = i + n
      BY <1>1, <3>1
    <3>3. i \in Nat
      OBVIOUS
    <3>4. i \in Xor(a, b)
      BY <2>2, <2>4, <3>2, <3>3
    <3> QED BY <1>1, <2>4, <3>2, <3>4
  <2> QED BY <2>3, <2>4
<1> QED BY <1>4

\* Moving twice.
LEMMA ShlShl ==
    ASSUME NEW a \in SUBSET Nat, NEW m \in Nat, NEW n \in Nat
    PROVE  Shl(Shl(a, m), n) = Shl(a, m + n)
<1>1. \A i \in a : (i + m) + n = i + (m + n)
  OBVIOUS
<1>2. \A k : /\ k \in Shl(Shl(a, m), n) <=> \E i \in a : k = (i + m) + n
             /\ k \in Shl(a, m + n) <=> \E i \in a : k = i + (m + n)
  BY DEF Shl
<1>3. \A k : k \in Shl(Shl(a, m), n) <=> k \in Shl(a, m + n)
  BY <1>1, <1>2
<1> QED BY <1>3

\* Shifting a factor shifts the product.
LEMMA ProductOfShifted ==
    ASSUME NEW a \in Polynomial, NEW b \in Polynomial, NEW n \in Nat
    PROVE  Product(Shl(a, n), b) = Shl(Product(a, b), n)
<1>1. (\A i \in a : i \in Nat) /\ (\A i \in b : i \in Nat)
  BY PolynomialIs
<1>2. Shl(a, n) \in Polynomial /\ Product(a, b) \in Polynomial
  BY ProductOfPower, ProductPolynomial
<1>3. ASSUME NEW k \in Nat
      PROVE  k \in Product(Shl(a, n), b) <=> k \in Shl(Product(a, b), n)
  <2> DEFINE S == {i \in a : (k - n) - i \in b}
             R == {i \in b : (k - n) - i \in a}
             T == {i \in Shl(a, n) : k - i \in b}
  <2>1. S \in SUBSET Int /\ R \in SUBSET Int /\ T \in SUBSET Int
    BY <1>1 DEF Shl
  <2>2. IsFiniteSet(S) /\ IsFiniteSet(R)
    BY FS_Subset DEF Polynomial
  <2>3. (\A i \in S : (k - n) - i \in R) /\ (\A j \in R : (k - n) - j \in S)
    BY <1>1
  <2>4. \A j \in R : k - j \in T
    <3>1. \A j \in R : k - j = ((k - n) - j) + n /\ k - (k - j) = j
      BY <1>1
    <3> QED BY <3>1 DEF Shl
  <2>5. \A t \in T : k - t \in R
    <3> SUFFICES ASSUME NEW i \in a, k - (i + n) \in b PROVE k - (i + n) \in R
      BY DEF Shl
    <3>1. (k - n) - (k - (i + n)) = i
      BY <1>1
    <3> QED BY <3>1
  <2> HIDE DEF S, R, T
  <2>6. k - n \in Int
    OBVIOUS
  <2>7. Odd(S) <=> Odd(R)
    BY <2>1, <2>2, <2>3, <2>6, Reflected
  <2>8. Odd(R) <=> Odd(T)
    BY <2>1, <2>2, <2>4, <2>5, Reflected
  <2>9. k \in Product(Shl(a, n), b) <=> Odd(T)
    BY <1>2, InProduct DEF T
  <2>10. CASE k - n \in Nat
    <3>1. k - n \in Product(a, b) <=> Odd(S)
      BY <2>10, InProduct DEF S
    <3>2. k \in Shl(Product(a, b), n) <=> k - n \in Product(a, b)
      BY <1>2, PolynomialIs DEF Shl
    <3> QED BY <2>7, <2>8, <2>9, <3>1, <3>2
  <2>11. CASE k - n \notin Nat
    <3>1. S = {}
      BY <1>1, <2>11 DEF S
    <3>2. k \notin Shl(Product(a, b), n)
      BY <1>2, <2>11, PolynomialIs DEF Shl
    <3> QED BY <2>7, <2>8, <2>9, <3>1, <3>2, OddFew
  <2> QED BY <2>10, <2>11
<1>4. Product(Shl(a, n), b) \subseteq Nat /\ Shl(Product(a, b), n) \subseteq Nat
  BY <1>2, InProduct, PolynomialIs, ProductOfPower
<1> QED BY <1>3, <1>4, SamePolynomial

-----------------------------------------------------------------------------
(* The reference: the product reduced by the polynomial of the field. *)

IsGF(F) == F.w \in Nat \ {0} /\ F.poly \in SUBSET (0..(F.w - 1))

\* One turn of Reduced.
Lowered(F, p) == Xor(Cut(p, F.w), Product(Shr(p, F.w), F.poly))

\* A polynomial is its part from x^w on, moved down, and the part below.
LEMMA HighAndLow ==
    ASSUME NEW p \in SUBSET Nat, NEW n \in Nat
    PROVE  /\ Cut(p, n) \in SUBSET (0..(n - 1)) /\ Shr(p, n) \in SUBSET Nat
           /\ p = Xor(Cut(p, n), Shl(Shr(p, n), n))
           /\ Shr(p, n) = Zero <=> p \in SUBSET (0..(n - 1))
           /\ p \in SUBSET (0..(n - 1)) => Cut(p, n) = p
           /\ \A m \in Nat : p \in SUBSET (0..m) => Shr(p, n) \in SUBSET (0..(m - n))
<1>0. \A j \in p : j \in Nat /\ (j < n <=> j \in 0..(n - 1)) /\ (j < n <=> ~(j >= n))
                  /\ (j >= n => j - n \in Nat)
  OBVIOUS
<1>1. Cut(p, n) \in SUBSET (0..(n - 1)) /\ Shr(p, n) \in SUBSET Nat
  BY <1>0 DEF Cut, Shr
<1>2. \A k : k \in Shl(Shr(p, n), n) <=> k \in p /\ k >= n
  <2>1. \A i \in p : (i - n) + n = i
    OBVIOUS
  <2> QED BY <2>1 DEF Shl, Shr
<1>3. p = Xor(Cut(p, n), Shl(Shr(p, n), n))
  <2>1. \A k : k \in Cut(p, n) <=> k \in p /\ ~(k >= n)
    BY <1>0 DEF Cut
  <2>2. \A k : k \in p <=> k \in Xor(Cut(p, n), Shl(Shr(p, n), n))
    BY <1>2, <2>1, InXor
  <2> QED BY <2>2
<1>4. Shr(p, n) = Zero <=> p \in SUBSET (0..(n - 1))
  <2>1. Shr(p, n) = {} <=> \A j \in p : ~(j >= n)
    BY DEF Shr
  <2>2. \A j \in p : ~(j >= n) <=> j \in 0..(n - 1)
    OBVIOUS
  <2> QED BY <2>1, <2>2 DEF Zero
<1>5. p \in SUBSET (0..(n - 1)) => Cut(p, n) = p
  BY <1>0 DEF Cut
<1>6. \A m \in Nat : p \in SUBSET (0..m) => Shr(p, n) \in SUBSET (0..(m - n))
  BY DEF Shr
<1> QED BY <1>1, <1>3, <1>4, <1>5, <1>6

\* The two parts of a sum.
LEMMA HighAndLowOfSum ==
    ASSUME NEW p \in SUBSET Nat, NEW q \in SUBSET Nat, NEW n \in Nat
    PROVE  /\ Cut(Xor(p, q), n) = Xor(Cut(p, n), Cut(q, n))
           /\ Shr(Xor(p, q), n) = Xor(Shr(p, n), Shr(q, n))
           /\ Cut(Shl(p, n), n) = {} /\ Shr(Shl(p, n), n) = p
<1>1. Cut(Xor(p, q), n) = Xor(Cut(p, n), Cut(q, n))
  BY DEF Cut, Xor
<1>2. \A r \in SUBSET Nat : \A k : k \in Shr(r, n) <=> k \in Nat /\ k + n \in r
  <2> SUFFICES ASSUME NEW r \in SUBSET Nat, NEW k
               PROVE  k \in Shr(r, n) <=> k \in Nat /\ k + n \in r
    OBVIOUS
  <2>1. k \in Shr(r, n) <=> \E i \in r : i >= n /\ k = i - n
    BY DEF Shr
  <2>2. \A i \in r : i \in Nat
    OBVIOUS
  <2>3. k \in Nat => (k + n) - n = k /\ k + n >= n
    OBVIOUS
  <2> QED BY <2>1, <2>2, <2>3
<1>3. Shr(Xor(p, q), n) = Xor(Shr(p, n), Shr(q, n))
  <2>1. Xor(p, q) \in SUBSET Nat
    BY DEF Xor
  <2>2. \A k : k \in Shr(Xor(p, q), n) <=> k \in Xor(Shr(p, n), Shr(q, n))
    BY <1>2, <2>1, InXor
  <2> QED BY <2>2
<1>4. Cut(Shl(p, n), n) = {}
  BY DEF Cut, Shl
<1>5. Shr(Shl(p, n), n) = p
  <2>1. Shl(p, n) \in SUBSET Nat
    BY DEF Shl
  <2>2. \A k \in Nat : k + n \in Shl(p, n) <=> k \in p
    BY DEF Shl
  <2>3. \A k : k \in Shr(Shl(p, n), n) <=> k \in p
    BY <1>2, <2>1, <2>2
  <2> QED BY <2>3
<1> QED BY <1>1, <1>3, <1>4, <1>5

\* A turn of the reduction makes a polynomial of a lower degree.
LEMMA LoweredIs ==
    ASSUME NEW F, IsGF(F), NEW p \in Polynomial
    PROVE  /\ Cut(p, F.w) \in Polynomial /\ Shr(p, F.w) \in Polynomial
           /\ F.poly \in Polynomial /\ Product(Shr(p, F.w), F.poly) \in Polynomial
           /\ Lowered(F, p) \in Polynomial
           /\ p \in SUBSET (0..(F.w - 1)) => Lowered(F, p) = p
           /\ \A k \in Nat : k >= F.w /\ p \in SUBSET (0..k) => Lowered(F, p) \in SUBSET (0..(k - 1))
<1>0. F.w \in Nat /\ F.w >= 1 /\ F.poly \in SUBSET (0..(F.w - 1)) /\ p \in SUBSET Nat
  BY DEF IsGF, Polynomial
<1>1. F.poly \in Polynomial
  <2>1. F.w - 1 \in Int
    BY <1>0
  <2> QED BY <1>0, <2>1, WordPolynomial
<1>2. Cut(p, F.w) \in Polynomial
  <2>1. Cut(p, F.w) \in SUBSET p
    BY DEF Cut
  <2> QED BY <2>1, SmallerPolynomial
<1>3. Shr(p, F.w) \in Polynomial
  <2> DEFINE h == {j \in p : j >= F.w}
             f == [j \in h |-> j - F.w]
  <2>1. h \in Polynomial
    BY SmallerPolynomial
  <2>2. f \in Surjection(h, Shr(p, F.w))
    BY DEF Surjection, Shr
  <2> HIDE DEF f, h
  <2>3. IsFiniteSet(h)
    BY <2>1, PolynomialIs
  <2>4. IsFiniteSet(Shr(p, F.w))
    BY <2>2, <2>3, FS_Surjection
  <2> QED BY <1>0, <2>4, HighAndLow DEF Polynomial
<1>4. Product(Shr(p, F.w), F.poly) \in Polynomial
  BY <1>1, <1>3, ProductPolynomial
<1>5. Lowered(F, p) \in Polynomial
  BY <1>2, <1>4, XorPolynomial DEF Lowered
<1>6. p \in SUBSET (0..(F.w - 1)) => Lowered(F, p) = p
  <2> SUFFICES ASSUME p \in SUBSET (0..(F.w - 1)) PROVE Lowered(F, p) = p
    OBVIOUS
  <2>1. Shr(p, F.w) = {} /\ Cut(p, F.w) = p
    BY <1>0, HighAndLow DEF Zero
  <2>2. Product(Shr(p, F.w), F.poly) = {}
    BY <1>1, <2>1, ProductOfZero
  <2> QED BY <2>1, <2>2 DEF Lowered, Xor
<1>7. ASSUME NEW k \in Nat, k >= F.w, p \in SUBSET (0..k)
      PROVE  Lowered(F, p) \in SUBSET (0..(k - 1))
  <2>1. Shr(p, F.w) \in SUBSET (0..(k - F.w)) /\ Cut(p, F.w) \in SUBSET (0..(F.w - 1))
    BY <1>0, <1>7, HighAndLow
  <2>2. k - F.w \in Int /\ F.w - 1 \in Int /\ (k - F.w) + (F.w - 1) = k - 1
    BY <1>0
  <2>3. Product(Shr(p, F.w), F.poly) \in SUBSET (0..(k - 1))
    BY <1>0, <2>1, <2>2, ProductBound
  <2>4. 0..(F.w - 1) \subseteq 0..(k - 1)
    BY <1>0, <1>7
  <2> QED BY <2>1, <2>3, <2>4 DEF Lowered, Xor
<1> QED BY <1>1, <1>2, <1>3, <1>4, <1>5, <1>6, <1>7

\* What Reduced computes: the function it defines exists, as every turn lowers
\* the degree.
LEMMA ReducedTurn ==
    ASSUME NEW F, IsGF(F), NEW p \in SUBSET (0..(2 * F.w))
    PROVE  Reduced(F, p) = IF p \in SUBSET (0..(F.w - 1)) THEN p ELSE Reduced(F, Lowered(F, p))
<1> DEFINE D == SUBSET (0..(2 * F.w))
           Value(q, g) == IF Shr(q, F.w) = Zero THEN q
                          ELSE g[Xor(Cut(q, F.w), Product(Shr(q, F.w), F.poly))]
           residue == CHOOSE g : g = [q \in D |-> Value(q, g)]
           Part(k) == SUBSET (0..k)
           Upto(k) == \E g : g = [q \in Part(k) |-> Value(q, g)]
           T == {k \in Nat : k >= F.w - 1 /\ ~Upto(k)}
<1>0. F.w \in Nat /\ F.w >= 1
  BY DEF IsGF
<1>1. \A q : Reduced(F, q) = residue[q]
  BY DEF Reduced
<1>2. ASSUME NEW k \in Nat, NEW q \in Part(k)
      PROVE  /\ q \in Polynomial /\ Shr(q, F.w) = Zero <=> q \in Part(F.w - 1)
             /\ Lowered(F, q) = Xor(Cut(q, F.w), Product(Shr(q, F.w), F.poly))
             /\ k >= F.w => Lowered(F, q) \in Part(k - 1)
  <2>0. q \in SUBSET (0..k) /\ k \in Int
    OBVIOUS
  <2>1. q \in Polynomial /\ q \in SUBSET Nat
    <3>1. q \in Polynomial
      BY <2>0, WordPolynomial
    <3> QED BY <3>1, PolynomialIs
  <2>2. Shr(q, F.w) = Zero <=> q \in Part(F.w - 1)
    BY <1>0, <2>1, HighAndLow
  <2>3. k >= F.w => Lowered(F, q) \in Part(k - 1)
    BY <2>1, LoweredIs
  <2> QED BY <2>1, <2>2, <2>3 DEF Lowered
<1>3. \A q, g : Value(q, g) = IF Shr(q, F.w) = Zero THEN q ELSE g[Lowered(F, q)]
  BY DEF Lowered
<1>4. T = {}
  <2> SUFFICES ASSUME T # {} PROVE FALSE
    OBVIOUS
  <2>0. T \in SUBSET Nat
    OBVIOUS
  <2>1. PICK k \in T : \A l \in T : k <= l
    <3> HIDE DEF T
    <3> QED BY <2>0, LeastNat
  <2>2. CASE k = F.w - 1
    <3> DEFINE g == [q \in Part(k) |-> q]
    <3>1. \A q \in Part(k) : Value(q, g) = q
      BY <1>0, <1>2, <2>2
    <3>2. g = [q \in Part(k) |-> Value(q, g)]
      BY <3>1
    <3>3. Upto(k)
      BY <3>2
    <3> QED BY <2>1, <3>3
  <2>3. CASE k # F.w - 1
    <3>1. k \in Nat /\ k >= F.w /\ k - 1 \in Nat /\ k - 1 \notin T /\ k - 1 >= F.w - 1
      <4>1. k \in Nat /\ k >= F.w - 1
        BY <2>1
      <4>2. k >= F.w /\ ~(k <= k - 1) /\ k - 1 \in Nat /\ k - 1 >= F.w - 1
        BY <1>0, <2>3, <4>1
      <4> HIDE DEF T
      <4> QED BY <2>1, <4>1, <4>2
    <3>2. PICK g : g = [q \in Part(k - 1) |-> Value(q, g)]
      BY <3>1
    <3> DEFINE h == [q \in Part(k) |-> Value(q, g)]
    <3>3. \A q \in Part(k) : Lowered(F, q) \in Part(k - 1)
      BY <1>2, <3>1
    <3>4. \A q \in Part(k - 1) : q \in Part(k)
      BY <3>1
    <3> HIDE DEF Part
    <3>5. \A q \in Part(k - 1) : h[q] = Value(q, g) /\ g[q] = Value(q, g)
      BY <3>2, <3>4
    <3>6. \A q \in Part(k) : Value(q, h) = Value(q, g)
      <4> HIDE DEF h, Value
      <4> QED BY <1>3, <3>3, <3>5
    <3> HIDE DEF Value
    <3>7. h = [q \in Part(k) |-> Value(q, h)]
      <4>1. h = [q \in Part(k) |-> Value(q, g)]
        OBVIOUS
      <4> HIDE DEF h
      <4> QED BY <3>6, <4>1
    <3> HIDE DEF h
    <3>8. Upto(k)
      BY <3>7
    <3> QED BY <2>1, <3>8
  <2> QED BY <2>2, <2>3
<1>5. residue = [q \in D |-> Value(q, residue)]
  <2>1. 2 * F.w \in Nat /\ 2 * F.w >= F.w - 1 /\ 2 * F.w \notin T
    <3> HIDE DEF T
    <3> QED BY <1>0, <1>4
  <2>2. \E g : g = [q \in D |-> Value(q, g)]
    BY <2>1
  <2> HIDE DEF Value, D
  <2> QED BY <2>2
<1> HIDE DEF residue
<1>6. residue[p] = Value(p, residue)
  <2> HIDE DEF Value
  <2> QED BY <1>5
<1>7. Shr(p, F.w) = Zero <=> p \in SUBSET (0..(F.w - 1))
  <2>1. p \in SUBSET Nat
    OBVIOUS
  <2> QED BY <1>0, <2>1, HighAndLow
<1> HIDE DEF Value
<1> QED BY <1>1, <1>3, <1>6, <1>7

\* A turn does not change what is left in the end.
LEMMA ReducedLowered ==
    ASSUME NEW F, IsGF(F), NEW p \in SUBSET (0..(2 * F.w))
    PROVE  Reduced(F, p) = Reduced(F, Lowered(F, p))
<1>1. p \in Polynomial
  <2>1. 2 * F.w \in Int
    BY DEF IsGF
  <2> QED BY <2>1, WordPolynomial
<1>2. p \in SUBSET (0..(F.w - 1)) => Lowered(F, p) = p
  BY <1>1, LoweredIs
<1> QED BY <1>2, ReducedTurn

\* The sum is associative and commutative, and a sum with itself is 0.
LEMMA XorAlgebra ==
    /\ \A a, b, c, d : Xor(Xor(a, b), Xor(c, d)) = Xor(Xor(a, c), Xor(b, d))
    /\ \A a : Xor(a, {}) = a /\ Xor({}, a) = a /\ Xor(a, a) = {}
    /\ \A a, b : Xor(a, b) = Xor(b, a)
    /\ \A a, b, c : Xor(Xor(a, b), c) = Xor(a, Xor(b, c))
    /\ \A a, b : Xor(a, Xor(a, b)) = b
<1>1. \A a, b, c, d : Xor(Xor(a, b), Xor(c, d)) = Xor(Xor(a, c), Xor(b, d))
  BY DEF Xor
<1>2. \A a : Xor(a, {}) = a /\ Xor({}, a) = a /\ Xor(a, a) = {}
  BY DEF Xor
<1>3. \A a, b : Xor(a, b) = Xor(b, a)
  BY DEF Xor
<1>4. \A a, b, c : Xor(Xor(a, b), c) = Xor(a, Xor(b, c))
  BY DEF Xor
<1>5. \A a, b : Xor(a, Xor(a, b)) = b
  BY DEF Xor
<1> QED BY <1>1, <1>2, <1>3, <1>4, <1>5

\* A sum has no bit that neither part has.
LEMMA XorWithin ==
    ASSUME NEW S, NEW a \in SUBSET S, NEW b \in SUBSET S
    PROVE  Xor(a, b) \in SUBSET S
BY DEF Xor

\* A turn of the reduction keeps sums.
LEMMA LoweredSum ==
    ASSUME NEW F, IsGF(F), NEW p \in Polynomial, NEW q \in Polynomial
    PROVE  Lowered(F, Xor(p, q)) = Xor(Lowered(F, p), Lowered(F, q))
<1>1. /\ p \in SUBSET Nat /\ q \in SUBSET Nat /\ F.w \in Nat
      /\ Shr(p, F.w) \in Polynomial /\ Shr(q, F.w) \in Polynomial /\ F.poly \in Polynomial
  BY LoweredIs DEF IsGF, Polynomial
<1>2. /\ Cut(Xor(p, q), F.w) = Xor(Cut(p, F.w), Cut(q, F.w))
      /\ Shr(Xor(p, q), F.w) = Xor(Shr(p, F.w), Shr(q, F.w))
  <2> DEFINE w == F.w
  <2>1. p \in SUBSET Nat /\ q \in SUBSET Nat /\ w \in Nat
    BY <1>1
  <2> HIDE DEF w
  <2>2. Cut(Xor(p, q), w) = Xor(Cut(p, w), Cut(q, w)) /\ Shr(Xor(p, q), w) = Xor(Shr(p, w), Shr(q, w))
    BY ONLY <2>1, HighAndLowOfSum
  <2> QED BY <2>2 DEF w
<1>3. Product(Xor(Shr(p, F.w), Shr(q, F.w)), F.poly)
        = Xor(Product(Shr(p, F.w), F.poly), Product(Shr(q, F.w), F.poly))
  BY <1>1, ProductOfSum
<1> QED BY <1>2, <1>3, XorAlgebra DEF Lowered

\* Reduced yields a word and takes sums to sums.
LEMMA ReducedSum ==
    ASSUME NEW F, IsGF(F), NEW p \in SUBSET (0..(2 * F.w)), NEW q \in SUBSET (0..(2 * F.w))
    PROVE  /\ Reduced(F, p) \in Words(F)
           /\ Reduced(F, Xor(p, q)) = Xor(Reduced(F, p), Reduced(F, q))
<1> DEFINE Good(r, s) == /\ Reduced(F, r) \in Words(F)
                         /\ Reduced(F, Xor(r, s)) = Xor(Reduced(F, r), Reduced(F, s))
           G == {k \in Nat : k <= 2 * F.w => \A r, s \in SUBSET (0..k) : Good(r, s)}
           a == F.w - 1
<1>0. F.w \in Nat /\ a \in Nat /\ a <= 2 * F.w /\ 2 * F.w \in Nat /\ 2 * F.w >= a
  BY DEF IsGF
<1>1. a \in G
  <2> SUFFICES ASSUME NEW r \in SUBSET (0..a), NEW s \in SUBSET (0..a) PROVE Good(r, s)
    BY <1>0
  <2>1. r \in SUBSET (0..(2 * F.w)) /\ s \in SUBSET (0..(2 * F.w))
    BY <1>0
  <2>2. Xor(r, s) \in SUBSET (0..a) /\ Xor(r, s) \in SUBSET (0..(2 * F.w))
    BY <2>1, XorWithin
  <2>3. Reduced(F, r) = r /\ Reduced(F, s) = s /\ Reduced(F, Xor(r, s)) = Xor(r, s)
    BY <2>1, <2>2, ReducedTurn
  <2> QED BY <2>3 DEF Words
<1>2. ASSUME NEW k \in Nat, k >= a, k \in G PROVE k + 1 \in G
  <2> SUFFICES ASSUME k + 1 <= 2 * F.w, NEW r \in SUBSET (0..(k + 1)), NEW s \in SUBSET (0..(k + 1))
               PROVE  Good(r, s)
    OBVIOUS
  <2>1. k + 1 \in Nat /\ k + 1 \in Int /\ k + 1 >= F.w /\ (k + 1) - 1 = k /\ k <= 2 * F.w
    BY <1>0, <1>2
  <2>2. r \in SUBSET (0..(2 * F.w)) /\ s \in SUBSET (0..(2 * F.w))
    BY <1>0
  <2>3. Xor(r, s) \in SUBSET (0..(2 * F.w))
    BY <2>2, XorWithin
  <2>4. r \in Polynomial /\ s \in Polynomial
    BY <2>1, WordPolynomial
  <2>5. Lowered(F, r) \in SUBSET (0..k) /\ Lowered(F, s) \in SUBSET (0..k)
    BY <2>1, <2>4, LoweredIs
  <2>6. Lowered(F, Xor(r, s)) = Xor(Lowered(F, r), Lowered(F, s))
    BY <2>4, LoweredSum
  <2>7. /\ Reduced(F, r) = Reduced(F, Lowered(F, r)) /\ Reduced(F, s) = Reduced(F, Lowered(F, s))
        /\ Reduced(F, Xor(r, s)) = Reduced(F, Lowered(F, Xor(r, s)))
    BY <2>2, <2>3, ReducedLowered
  <2>8. Good(Lowered(F, r), Lowered(F, s))
    <3> HIDE DEF Good
    <3> QED BY <1>2, <2>1, <2>5
  <2> QED BY <2>6, <2>7, <2>8
<1> HIDE DEF G
<1>3. 2 * F.w \in G
  <2>1. \A k \in Nat : k >= a => k \in G
    <3> HIDE DEF a
    <3> QED BY <1>0, <1>1, <1>2, Upwards
  <2> QED BY <1>0, <2>1
<1> HIDE DEF Good
<1>4. Good(p, q)
  BY <1>3 DEF G
<1> QED BY <1>4 DEF Good

\* A shift by one is what the library doubles a word by.
LEMMA DoubleWord ==
    ASSUME NEW F, IsGF(F), NEW p \in Words(F)
    PROVE  /\ Double(F, p) \in Words(F) /\ Shl(p, 1) \in SUBSET (0..F.w)
           /\ Lowered(F, Shl(p, 1)) = Double(F, p)
<1>0. F.w \in Nat /\ F.w >= 1 /\ F.w \in Int /\ p \in SUBSET (0..(F.w - 1)) /\ F.poly \in SUBSET Nat
  BY DEF IsGF, Words
<1>1. p \in SUBSET Nat /\ \A i \in p : i \in Nat /\ i <= F.w - 1
  BY <1>0
<1>2. Shl(p, 1) \in SUBSET (0..F.w)
  BY <1>0, <1>1 DEF Shl
<1>3. Shl(p, 1) \in Polynomial /\ Shl(p, 1) \in SUBSET Nat
  <2>1. Shl(p, 1) \in Polynomial
    BY <1>0, <1>2, WordPolynomial
  <2> QED BY <2>1, PolynomialIs
<1>4. F.poly \in Polynomial
  BY <1>3, LoweredIs
<1>5. Lowered(F, Shl(p, 1)) \in SUBSET (0..(F.w - 1))
  BY <1>0, <1>2, <1>3, LoweredIs
<1>6. CASE F.w - 1 \in p
  <2>1. Shr(Shl(p, 1), F.w) = {0}
    <3>1. F.w \in Shl(p, 1)
      <4>1. (F.w - 1) + 1 = F.w
        BY <1>0
      <4> QED BY <1>6, <4>1 DEF Shl
    <3>2. \A j \in Shl(p, 1) : j >= F.w => j = F.w
      BY <1>0, <1>2
    <3>3. F.w - F.w = 0 /\ F.w >= F.w
      BY <1>0
    <3> QED BY <3>1, <3>2, <3>3 DEF Shr
  <2>2. Product({0}, F.poly) = F.poly
    <3>1. Product({0}, F.poly) = Shl(F.poly, 0)
      BY <1>4, ProductOfPower
    <3>2. \A i \in F.poly : i + 0 = i
      BY <1>0
    <3> QED BY <3>1, <3>2 DEF Shl
  <2> QED BY <1>2, <1>5, <1>6, <2>1, <2>2 DEF Lowered, Double, Words
<1>7. CASE F.w - 1 \notin p
  <2>1. Shl(p, 1) \in SUBSET (0..(F.w - 1))
    <3>1. \A i \in p : i + 1 \in 0..(F.w - 1)
      BY <1>0, <1>1, <1>7
    <3> QED BY <3>1 DEF Shl
  <2>2. Lowered(F, Shl(p, 1)) = Shl(p, 1)
    BY <1>3, <2>1, LoweredIs
  <2> QED BY <1>2, <1>7, <2>1, <2>2 DEF Double, Words
<1> QED BY <1>6, <1>7

\* Doubling before the reduction, or after it in the word.
LEMMA ReducedDouble ==
    ASSUME NEW F, IsGF(F), NEW p \in SUBSET (0..(2 * F.w - 1))
    PROVE  /\ Shl(p, 1) \in SUBSET (0..(2 * F.w))
           /\ Reduced(F, Shl(p, 1)) = Double(F, Reduced(F, p))
<1> DEFINE Good(r) == Reduced(F, Shl(r, 1)) = Double(F, Reduced(F, r))
           G == {k \in Nat : k <= 2 * F.w - 1 => \A r \in SUBSET (0..k) : Good(r)}
           a == F.w - 1
           b == 2 * F.w - 1
<1>0. F.w \in Nat /\ F.w >= 1 /\ a \in Nat /\ a <= b /\ b \in Nat /\ b >= a /\ b + 1 = 2 * F.w /\ a + 1 = F.w
  BY DEF IsGF
<1>1. ASSUME NEW k \in Nat, k <= b, NEW r \in SUBSET (0..k)
      PROVE  r \in SUBSET (0..(2 * F.w)) /\ Shl(r, 1) \in SUBSET (0..(2 * F.w))
  <2>1. \A i \in r : i \in Nat /\ i <= 2 * F.w /\ i + 1 \in Nat /\ i + 1 <= 2 * F.w
    BY <1>0, <1>1
  <2> QED BY <1>0, <2>1 DEF Shl
<1>2. a \in G
  <2> SUFFICES ASSUME NEW r \in SUBSET (0..a) PROVE Good(r)
    BY <1>0
  <2>1. r \in SUBSET (0..(2 * F.w)) /\ Shl(r, 1) \in SUBSET (0..(2 * F.w))
    <3> HIDE DEF a, b
    <3> QED BY <1>0, <1>1
  <2>2. r \in Words(F)
    BY DEF Words
  <2>3. Lowered(F, Shl(r, 1)) = Double(F, r) /\ Double(F, r) \in Words(F)
    BY <2>2, DoubleWord
  <2>4. Double(F, r) \in SUBSET (0..a) /\ Double(F, r) \in SUBSET (0..(2 * F.w))
    BY <1>0, <2>3 DEF Words
  <2>5. Reduced(F, r) = r /\ Reduced(F, Double(F, r)) = Double(F, r)
    BY <2>1, <2>4, ReducedTurn
  <2>6. Reduced(F, Shl(r, 1)) = Reduced(F, Lowered(F, Shl(r, 1)))
    BY <2>1, ReducedLowered
  <2> QED BY <2>3, <2>5, <2>6
<1>3. ASSUME NEW k \in Nat, k >= a, k \in G PROVE k + 1 \in G
  <2> SUFFICES ASSUME k + 1 <= b, NEW r \in SUBSET (0..(k + 1)) PROVE Good(r)
    OBVIOUS
  <2>1. k + 1 \in Nat /\ k + 1 \in Int /\ k + 1 >= F.w /\ (k + 1) - 1 = k /\ k <= b
    BY <1>0, <1>3
  <2>2. r \in SUBSET (0..(2 * F.w)) /\ Shl(r, 1) \in SUBSET (0..(2 * F.w))
    <3> HIDE DEF b
    <3> QED BY <1>1, <2>1
  <2>3. r \in Polynomial /\ r \in SUBSET Nat
    <3>1. r \in Polynomial
      BY <2>1, WordPolynomial
    <3> QED BY <3>1, PolynomialIs
  <2> DEFINE h == Shr(r, F.w)
             c == Cut(r, F.w)
             l == Product(h, F.poly)
             M == Shl(Shl(h, 1), F.w)
  <2>4. /\ h \in Polynomial /\ c \in Polynomial /\ l \in Polynomial /\ F.poly \in Polynomial
        /\ Lowered(F, r) = Xor(c, l) /\ Lowered(F, r) \in SUBSET (0..k)
    BY <2>1, <2>3, LoweredIs DEF Lowered
  <2>5. r = Xor(c, Shl(h, F.w))
    BY <1>0, <2>3, HighAndLow
  <2> HIDE DEF h, c
  <2>6. h \in SUBSET Nat /\ c \in SUBSET Nat /\ l \in SUBSET Nat /\ Shl(h, F.w) \in SUBSET Nat
        /\ Shl(h, 1) \in Polynomial /\ Shl(h, 1) \in SUBSET Nat /\ M \in Polynomial
        /\ Shl(c, 1) \in SUBSET Nat
    BY <1>0, <2>4, ProductOfPower DEF Polynomial
  <2>7. Shl(r, 1) = Xor(Shl(c, 1), M)
    <3>1. Shl(r, 1) = Xor(Shl(c, 1), Shl(Shl(h, F.w), 1))
      BY <2>5, <2>6, ShlXor
    <3>2. Shl(Shl(h, F.w), 1) = Shl(h, F.w + 1) /\ M = Shl(h, 1 + F.w) /\ F.w + 1 = 1 + F.w
      BY <1>0, <2>6, ShlShl
    <3> QED BY <3>1, <3>2
  <2>8. Lowered(F, M) = Shl(l, 1)
    <3>1. Cut(M, F.w) = {} /\ Shr(M, F.w) = Shl(h, 1)
      BY <1>0, <2>6, HighAndLowOfSum
    <3>2. Product(Shl(h, 1), F.poly) = Shl(l, 1)
      BY <2>4, ProductOfShifted
    <3> QED BY <3>1, <3>2, XorAlgebra DEF Lowered
  <2> HIDE DEF l, M
  <2>9. Shl(Lowered(F, r), 1) = Xor(Shl(c, 1), Shl(l, 1))
    BY <2>4, <2>6, ShlXor
  <2>10. Shl(Lowered(F, r), 1) \in SUBSET (0..(2 * F.w))
    <3> HIDE DEF b
    <3> QED BY <1>1, <2>1, <2>4
  <2>11. Shl(c, 1) \in SUBSET (0..(2 * F.w)) /\ M \in SUBSET (0..(2 * F.w)) /\ Shl(l, 1) \in SUBSET (0..(2 * F.w))
    <3>1. Shl(c, 1) \in SUBSET (0..(2 * F.w))
      <4>1. c \in SUBSET (0..a) /\ a <= b
        BY <1>0, <2>3, HighAndLow DEF c
      <4> HIDE DEF a, b
      <4> QED BY <1>0, <1>1, <4>1
    <3>2. M = Xor(Shl(c, 1), Shl(r, 1)) /\ Shl(l, 1) = Xor(Shl(c, 1), Shl(Lowered(F, r), 1))
      <4>1. Xor(Shl(c, 1), Xor(Shl(c, 1), M)) = M
        BY XorAlgebra
      <4>2. Xor(Shl(c, 1), Xor(Shl(c, 1), Shl(l, 1))) = Shl(l, 1)
        BY XorAlgebra
      <4> QED BY <2>7, <2>9, <4>1, <4>2
    <3>3. Xor(Shl(c, 1), Shl(r, 1)) \in SUBSET (0..(2 * F.w))
      BY <2>2, <3>1 DEF Xor
    <3>4. Xor(Shl(c, 1), Shl(Lowered(F, r), 1)) \in SUBSET (0..(2 * F.w))
      BY <2>10, <3>1 DEF Xor
    <3> QED BY <3>1, <3>2, <3>3, <3>4
  <2>12. Reduced(F, M) = Reduced(F, Shl(l, 1))
    BY <2>8, <2>11, ReducedLowered
  <2>13. Reduced(F, Shl(r, 1)) = Reduced(F, Shl(Lowered(F, r), 1))
    <3>1. /\ Reduced(F, Shl(r, 1)) = Xor(Reduced(F, Shl(c, 1)), Reduced(F, M))
          /\ Reduced(F, Shl(Lowered(F, r), 1)) = Xor(Reduced(F, Shl(c, 1)), Reduced(F, Shl(l, 1)))
      BY <2>7, <2>9, <2>11, ReducedSum
    <3> QED BY <2>12, <3>1
  <2>14. Good(Lowered(F, r))
    <3> HIDE DEF Good
    <3> QED BY <1>3, <2>1, <2>4
  <2>15. Reduced(F, r) = Reduced(F, Lowered(F, r))
    BY <2>2, ReducedLowered
  <2> QED BY <2>13, <2>14, <2>15
<1> HIDE DEF G
<1>4. b \in G
  <2>1. \A k \in Nat : k >= a => k \in G
    <3> HIDE DEF a
    <3> QED BY <1>0, <1>2, <1>3, Upwards
  <2> QED BY <1>0, <2>1
<1> HIDE DEF Good
<1>5. Good(p)
  BY <1>0, <1>4 DEF G
<1>6. Shl(p, 1) \in SUBSET (0..(2 * F.w))
  <2>1. p \in SUBSET (0..b) /\ b \in Nat /\ b <= b
    BY <1>0
  <2> HIDE DEF b
  <2> QED BY <1>1, <2>1
<1> QED BY <1>5, <1>6 DEF Good

-----------------------------------------------------------------------------
(* The methods of multiplication. *)

\* Words of a field are polynomials and are reduced.
LEMMA WordsAre ==
    ASSUME NEW F, IsGF(F), NEW a \in Words(F)
    PROVE  /\ F.w \in Nat /\ F.w >= 1 /\ a \in SUBSET (0..(F.w - 1)) /\ a \in Polynomial /\ a \in SUBSET Nat
           /\ a \in SUBSET (0..(2 * F.w)) /\ Reduced(F, a) = a
<1>1. F.w \in Nat /\ F.w >= 1 /\ F.w - 1 \in Int /\ a \in SUBSET (0..(F.w - 1))
  BY DEF IsGF, Words
<1>2. a \in Polynomial
  BY <1>1, WordPolynomial
<1>3. a \in SUBSET (0..(2 * F.w))
  BY <1>1
<1>4. Reduced(F, a) = a
  BY <1>1, <1>3, ReducedTurn
<1>5. a \in SUBSET Nat
  BY <1>1
<1> QED BY <1>1, <1>2, <1>3, <1>4, <1>5

\* One more bit of a factor, from above and from below.
LEMMA NextBit ==
    ASSUME NEW a \in SUBSET Nat, NEW n \in Nat
    PROVE  /\ Shr(a, n) = Xor(Shl(Shr(a, n + 1), 1), IF n \in a THEN {0} ELSE {})
           /\ Cut(a, n + 1) = Xor(Cut(a, n), IF n \in a THEN {n} ELSE {})
           /\ Cut(a, 0) = {} /\ Shr(a, 0) = a
<1>0. \A i \in a : i \in Nat
  OBVIOUS
<1>1. \A k : k \in Shr(a, n) <=> k \in Nat /\ k + n \in a
  <2> SUFFICES ASSUME NEW k PROVE k \in Shr(a, n) <=> k \in Nat /\ k + n \in a
    OBVIOUS
  <2>1. k \in Shr(a, n) <=> \E i \in a : i >= n /\ k = i - n
    BY DEF Shr
  <2>2. k \in Nat => (k + n) - n = k /\ k + n >= n
    OBVIOUS
  <2> QED BY <1>0, <2>1, <2>2
<1>2. \A k : k \in Shl(Shr(a, n + 1), 1) <=> k \in Nat /\ k # 0 /\ k + n \in a
  <2> SUFFICES ASSUME NEW k PROVE k \in Shl(Shr(a, n + 1), 1) <=> k \in Nat /\ k # 0 /\ k + n \in a
    OBVIOUS
  <2>1. k \in Shl(Shr(a, n + 1), 1) <=> \E i \in a : i >= n + 1 /\ k = (i - (n + 1)) + 1
    BY DEF Shl, Shr
  <2>2. k \in Nat /\ k # 0 => ((k + n) - (n + 1)) + 1 = k /\ k + n >= n + 1
    OBVIOUS
  <2>3. \A i \in a : i >= n + 1 => (i - (n + 1)) + 1 \in Nat /\ (i - (n + 1)) + 1 # 0 /\ ((i - (n + 1)) + 1) + n = i
    BY <1>0
  <2> QED BY <2>1, <2>2, <2>3
<1>3. Shr(a, n) = Xor(Shl(Shr(a, n + 1), 1), IF n \in a THEN {0} ELSE {})
  <2>1. \A k : k \in (IF n \in a THEN {0} ELSE {}) <=> k = 0 /\ k \in Nat /\ k + n \in a
    OBVIOUS
  <2>2. \A k : k \in Shr(a, n) <=> k \in Xor(Shl(Shr(a, n + 1), 1), IF n \in a THEN {0} ELSE {})
    BY <1>1, <1>2, <2>1, InXor
  <2> QED BY <2>2
<1>4. Cut(a, n + 1) = Xor(Cut(a, n), IF n \in a THEN {n} ELSE {})
  <2>1. \A i \in a : i < n + 1 <=> i < n \/ i = n
    BY <1>0
  <2>2. ~(n < n) /\ n < n + 1
    OBVIOUS
  <2>3. \A k : /\ k \in Cut(a, n + 1) <=> k \in a /\ k < n + 1
               /\ k \in Cut(a, n) <=> k \in a /\ k < n
               /\ k \in (IF n \in a THEN {n} ELSE {}) <=> k = n /\ k \in a
    BY DEF Cut
  <2>4. \A k : k \in Cut(a, n + 1) <=> k \in Xor(Cut(a, n), IF n \in a THEN {n} ELSE {})
    <3> SUFFICES ASSUME NEW k
                 PROVE  k \in Cut(a, n + 1) <=> k \in Xor(Cut(a, n), IF n \in a THEN {n} ELSE {})
      OBVIOUS
    <3>1. k \in Cut(a, n + 1) <=> k \in Cut(a, n) \/ k \in (IF n \in a THEN {n} ELSE {})
      BY <2>1, <2>2, <2>3
    <3>2. ~(k \in Cut(a, n) /\ k \in (IF n \in a THEN {n} ELSE {}))
      BY <2>2, <2>3
    <3> QED BY <3>1, <3>2 DEF Xor
  <2> QED BY <2>4
<1>5. Cut(a, 0) = {} /\ Shr(a, 0) = a
  <2>1. \A i \in a : ~(i < 0) /\ i >= 0 /\ i - 0 = i
    BY <1>0
  <2> QED BY <2>1 DEF Cut, Shr
<1> QED BY <1>3, <1>4, <1>5

\* What the k highest bits, or the k lowest, make of the product.
OfHighest(F, a, b, k) == Product(Shr(a, F.w - k), b)
OfLowest(a, b, k) == Product(Cut(a, k), b)

\* The next bit of the multiplier, read from the top or from the bottom.
LEMMA NextOfProduct ==
    ASSUME NEW F, IsGF(F), NEW a \in Words(F), NEW b \in Words(F), NEW i \in 0..(F.w - 1)
    PROVE  /\ Reduced(F, OfHighest(F, a, b, i + 1)) =
                 IF F.w - 1 - i \in a THEN Xor(Double(F, Reduced(F, OfHighest(F, a, b, i))), b)
                                      ELSE Double(F, Reduced(F, OfHighest(F, a, b, i)))
           /\ OfLowest(a, b, i + 1) =
                 IF i \in a THEN Xor(OfLowest(a, b, i), Shl(b, i)) ELSE OfLowest(a, b, i)
           /\ OfLowest(a, b, i) \in SUBSET (0..(2 * F.w)) /\ Shl(b, i) \in SUBSET (0..(2 * F.w))
           /\ Reduced(F, Shl(b, i + 1)) = Double(F, Reduced(F, Shl(b, i)))
<1> DEFINE n == F.w - 1 - i
           c == Shr(a, n + 1)
           p == Product(c, b)
           q == Product(Cut(a, i), b)
           One1 == IF n \in a THEN {0} ELSE {}
           OneI == IF i \in a THEN {i} ELSE {}
<1>0. /\ a \in SUBSET (0..(F.w - 1)) /\ a \in Polynomial /\ b \in SUBSET (0..(F.w - 1)) /\ b \in Polynomial
      /\ F.w \in Nat /\ F.w >= 1 /\ a \in SUBSET Nat /\ Reduced(F, b) = b /\ b \in SUBSET (0..(2 * F.w))
  BY WordsAre
<1>1. /\ n \in Nat /\ n + 1 \in Nat /\ F.w - i = n + 1 /\ F.w - (i + 1) = n /\ i \in Nat
      /\ F.w - 1 - (n + 1) = i - 1
  BY <1>0
<1> HIDE DEF n
<1>2. Shr(a, n) = Xor(Shl(c, 1), One1) /\ Cut(a, i + 1) = Xor(Cut(a, i), OneI)
  <2>1. Shr(a, n) = Xor(Shl(c, 1), One1)
    BY <1>0, <1>1, NextBit
  <2>2. Cut(a, i + 1) = Xor(Cut(a, i), OneI)
    BY <1>0, <1>1, NextBit
  <2> QED BY <2>1, <2>2
<1>3. c \in SUBSET (0..(i - 1)) /\ Cut(a, i) \in SUBSET (0..(i - 1)) /\ i - 1 \in Int /\ F.w - 1 \in Int
  <2>1. F.w - 1 \in Nat
    BY <1>0
  <2>2. \A m \in Nat : a \in SUBSET (0..m) => Shr(a, n + 1) \in SUBSET (0..(m - (n + 1)))
    BY <1>0, <1>1, HighAndLow
  <2>3. c \in SUBSET (0..((F.w - 1) - (n + 1)))
    BY <1>0, <2>1, <2>2
  <2>4. Cut(a, i) \in SUBSET (0..(i - 1))
    BY <1>0, <1>1, HighAndLow
  <2>5. (F.w - 1) - (n + 1) = i - 1
    BY <1>1
  <2> QED BY <1>1, <2>1, <2>3, <2>4, <2>5
<1>4. c \in Polynomial /\ Cut(a, i) \in Polynomial
  <2> HIDE DEF c
  <2> QED BY <1>3, WordPolynomial
<1>5. p \in SUBSET (0..(2 * F.w - 1)) /\ q \in SUBSET (0..(2 * F.w - 1))
  <2>1. p \in SUBSET (0..((i - 1) + (F.w - 1))) /\ q \in SUBSET (0..((i - 1) + (F.w - 1)))
    <3> HIDE DEF c
    <3> QED BY <1>0, <1>3, ProductBound
  <2>2. 0..((i - 1) + (F.w - 1)) \subseteq 0..(2 * F.w - 1)
    BY <1>0, <1>1
  <2> QED BY <2>1, <2>2
<1> HIDE DEF c
<1>6. /\ One1 \in Polynomial /\ Product(One1, b) = IF n \in a THEN b ELSE {}
      /\ OneI \in Polynomial /\ Product(OneI, b) = IF i \in a THEN Shl(b, i) ELSE {}
  <2>1. /\ {0} \in Polynomial /\ Product({0}, b) = Shl(b, 0)
        /\ {i} \in Polynomial /\ Product({i}, b) = Shl(b, i)
    BY <1>0, <1>1, ProductOfPower
  <2>2. {} \in Polynomial /\ Product({}, b) = {}
    BY <1>0, ProductOfZero
  <2>3. Shl(b, 0) = b
    <3>1. \A k \in b : k + 0 = k
      BY <1>0
    <3> QED BY <3>1 DEF Shl
  <2> QED BY <2>1, <2>2, <2>3
<1> HIDE DEF One1, OneI
<1>7. /\ Product(Shr(a, n), b) = Xor(Shl(p, 1), IF n \in a THEN b ELSE {})
      /\ Product(Cut(a, i + 1), b) = Xor(q, IF i \in a THEN Shl(b, i) ELSE {})
  <2>1. Shl(c, 1) \in Polynomial
    BY <1>4, ProductOfPower
  <2>2. Product(Shl(c, 1), b) = Shl(p, 1)
    BY <1>0, <1>4, ProductOfShifted
  <2>a. \A s, t \in Polynomial : Product(Xor(s, t), b) = Xor(Product(s, b), Product(t, b))
    <3>1. b \in Polynomial
      BY <1>0
    <3> QED BY ONLY <3>1, ProductOfSum
  <2>b. Cut(a, i) \in Polynomial /\ OneI \in Polynomial /\ One1 \in Polynomial
    BY ONLY <1>4, <1>6
  <2>3. Product(Xor(Shl(c, 1), One1), b) = Xor(Product(Shl(c, 1), b), Product(One1, b))
    BY ONLY <2>1, <2>a, <2>b
  <2>4. Product(Xor(Cut(a, i), OneI), b) = Xor(Product(Cut(a, i), b), Product(OneI, b))
    BY ONLY <2>a, <2>b
  <2> QED BY <1>2, <1>6, <2>2, <2>3, <2>4
<1> HIDE DEF p
<1>8. Shl(p, 1) \in SUBSET (0..(2 * F.w)) /\ Reduced(F, Shl(p, 1)) = Double(F, Reduced(F, p))
  BY <1>5, ReducedDouble
<1>9. Reduced(F, Xor(Shl(p, 1), b)) = Xor(Reduced(F, Shl(p, 1)), b)
  BY <1>0, <1>8, ReducedSum
<1>10. Reduced(F, Product(Shr(a, n), b)) =
          IF n \in a THEN Xor(Double(F, Reduced(F, p)), b) ELSE Double(F, Reduced(F, p))
  BY <1>7, <1>8, <1>9, XorAlgebra
<1>11. Product(Cut(a, i + 1), b) = IF i \in a THEN Xor(q, Shl(b, i)) ELSE q
  BY <1>7, XorAlgebra
<1>12. q \in SUBSET (0..(2 * F.w))
  BY <1>0, <1>5
<1>13. Shl(b, i) \in SUBSET (0..(2 * F.w - 1)) /\ Shl(b, i) \in SUBSET (0..(2 * F.w))
  BY <1>0, <1>1 DEF Shl
<1>14. Reduced(F, Shl(b, i + 1)) = Double(F, Reduced(F, Shl(b, i)))
  <2>1. Shl(Shl(b, i), 1) = Shl(b, i + 1)
    BY <1>0, <1>1, ShlShl, PolynomialIs
  <2> QED BY <1>13, <2>1, ReducedDouble
<1>15. /\ OfHighest(F, a, b, i) = p /\ OfHighest(F, a, b, i + 1) = Product(Shr(a, n), b)
       /\ OfLowest(a, b, i) = q /\ OfLowest(a, b, i + 1) = Product(Cut(a, i + 1), b)
  BY <1>1 DEF OfHighest, OfLowest, p, c
<1> QED BY <1>10, <1>11, <1>12, <1>13, <1>14, <1>15 DEF n

\* Before the first turn and after the last one.
LEMMA EndsOfProduct ==
    ASSUME NEW F, IsGF(F), NEW a \in Words(F), NEW b \in Words(F)
    PROVE  /\ Reduced(F, OfHighest(F, a, b, 0)) = Zero /\ OfHighest(F, a, b, F.w) = Product(a, b)
           /\ OfLowest(a, b, 0) = Zero /\ OfLowest(a, b, F.w) = Product(a, b)
           /\ Reduced(F, Zero) = Zero /\ Reduced(F, Shl(b, 0)) = b
           /\ Product(a, b) \in SUBSET (0..(2 * F.w - 2)) /\ Product(a, b) \in SUBSET (0..(2 * F.w))
           /\ Product(a, b) \in Polynomial
<1>0. /\ F.w \in Nat /\ F.w >= 1 /\ a \in SUBSET (0..(F.w - 1)) /\ a \in Polynomial /\ a \in SUBSET Nat
      /\ b \in SUBSET (0..(F.w - 1)) /\ b \in Polynomial /\ Reduced(F, b) = b /\ b \in SUBSET Nat
  BY WordsAre
<1>1. Cut(a, 0) = {} /\ Shr(a, 0) = a /\ Shr(a, F.w) = {} /\ Cut(a, F.w) = a
  <2>1. Cut(a, 0) = {} /\ Shr(a, 0) = a
    BY <1>0, NextBit
  <2>2. Shr(a, F.w) = {} /\ Cut(a, F.w) = a
    BY <1>0, HighAndLow DEF Zero
  <2> QED BY <2>1, <2>2
<1>2. F.w - 0 = F.w /\ F.w - F.w = 0 /\ Shl(b, 0) = b
  <2>1. \A k \in b : k + 0 = k
    BY <1>0
  <2>2. \A k : k \in Shl(b, 0) <=> \E i \in b : k = i + 0
    BY DEF Shl
  <2>3. Shl(b, 0) = b
    BY <2>1, <2>2
  <2>4. F.w - 0 = F.w /\ F.w - F.w = 0
    BY <1>0
  <2> QED BY <2>3, <2>4
<1>3. Product({}, b) = {}
  BY <1>0, ProductOfZero
<1>4. Reduced(F, Zero) = Zero
  BY WordsAre DEF Words, Zero
<1>5. Product(a, b) \in SUBSET (0..((F.w - 1) + (F.w - 1)))
  <2>1. F.w - 1 \in Int
    BY <1>0
  <2> QED BY <1>0, <2>1, ProductBound
<1>6. 0..((F.w - 1) + (F.w - 1)) = 0..(2 * F.w - 2) /\ 0..(2 * F.w - 2) \subseteq 0..(2 * F.w)
  BY <1>0
<1>7. Product(a, b) \in Polynomial
  BY <1>0, ProductPolynomial
<1> QED BY <1>0, <1>1, <1>2, <1>3, <1>4, <1>5, <1>6, <1>7 DEF OfHighest, OfLowest, Zero

\* BYTWO_p computes the product, for every width and polynomial: after i turns
\* prod is what the i highest bits of a make of it, reduced.
THEOREM BytwoPIsTimes ==
    ASSUME NEW F, IsGF(F), NEW a \in Words(F), NEW b \in Words(F)
    PROVE  BytwoPMultiply(F, a, b) = Times(F, a, b)
<1> DEFINE Turn(prod, i) == IF F.w - 1 - i \in a THEN Xor(Double(F, prod), b) ELSE Double(F, prod)
           Value(g, i) == IF i = 0 THEN Zero ELSE Turn(g[i - 1], i - 1)
           after == CHOOSE g : g = [i \in 0..F.w |-> Value(g, i)]
           v == [i \in 0..F.w |-> Reduced(F, OfHighest(F, a, b, i))]
<1>0. F.w \in Nat
  BY DEF IsGF
<1>1. BytwoPMultiply(F, a, b) = after[F.w]
  BY DEF BytwoPMultiply, Repeat
<1>2. v[0] = Zero /\ v[F.w] = Times(F, a, b)
  BY <1>0, EndsOfProduct DEF Times
<1>3. ASSUME NEW i \in 0..(F.w - 1) PROVE v[i + 1] = Turn(v[i], i)
  <2>1. i \in 0..F.w /\ i + 1 \in 0..F.w
    BY <1>0
  <2> QED BY <2>1, NextOfProduct
<1>4. v = [i \in 0..F.w |-> Value(v, i)]
  <2>1. \A i \in 0..F.w : i # 0 => i - 1 \in 0..(F.w - 1) /\ (i - 1) + 1 = i
    BY <1>0
  <2>2. \A i \in 0..F.w : v[i] = Value(v, i)
    <3> HIDE DEF v, Turn
    <3> QED BY <1>2, <1>3, <2>1
  <2> HIDE DEF Value
  <2> QED BY <2>2
<1>5. after = [i \in 0..F.w |-> Value(after, i)]
  <2> HIDE DEF Value, v
  <2> QED BY <1>4
<1> HIDE DEF after, v, Turn
<1>6. after[F.w] = v[F.w]
  <2>1. after[0] = v[0]
    BY <1>0, <1>2, <1>5
  <2>2. ASSUME NEW i \in 0..(F.w - 1), after[i] = v[i] PROVE after[i + 1] = v[i + 1]
    <3>1. i + 1 \in 0..F.w /\ i + 1 # 0 /\ (i + 1) - 1 = i
      BY <1>0
    <3>2. after[i + 1] = Turn(after[i], i)
      BY <1>5, <3>1
    <3> QED BY <1>3, <2>2, <3>2
  <2> QED BY <1>0, <2>1, <2>2, LoopsAgree
<1> QED BY <1>1, <1>2, <1>6

\* BYTWO_b computes it too: after i turns b has been doubled i times, and prod
\* is what the i lowest bits of a make of the product.
THEOREM BytwoBIsTimes ==
    ASSUME NEW F, IsGF(F), NEW a \in Words(F), NEW b \in Words(F)
    PROVE  BytwoBMultiply(F, a, b) = Times(F, a, b)
<1> DEFINE Turn(s, i) == [prod |-> IF i \in a THEN Xor(s.prod, s.b) ELSE s.prod,
                          b    |-> Double(F, s.b)]
           first == [prod |-> Zero, b |-> b]
           Value(g, i) == IF i = 0 THEN first ELSE Turn(g[i - 1], i - 1)
           after == CHOOSE g : g = [i \in 0..F.w |-> Value(g, i)]
           v == [i \in 0..F.w |-> [prod |-> Reduced(F, OfLowest(a, b, i)), b |-> Reduced(F, Shl(b, i))]]
<1>0. F.w \in Nat
  BY DEF IsGF
<1>1. BytwoBMultiply(F, a, b) = after[F.w].prod
  BY DEF BytwoBMultiply, Repeat
<1>2. v[0] = first /\ v[F.w].prod = Times(F, a, b)
  BY <1>0, EndsOfProduct DEF Times
<1>3. ASSUME NEW i \in 0..(F.w - 1) PROVE v[i + 1] = Turn(v[i], i)
  <2>1. i \in 0..F.w /\ i + 1 \in 0..F.w
    BY <1>0
  <2>2. /\ OfLowest(a, b, i + 1) = IF i \in a THEN Xor(OfLowest(a, b, i), Shl(b, i)) ELSE OfLowest(a, b, i)
        /\ OfLowest(a, b, i) \in SUBSET (0..(2 * F.w)) /\ Shl(b, i) \in SUBSET (0..(2 * F.w))
        /\ Reduced(F, Shl(b, i + 1)) = Double(F, Reduced(F, Shl(b, i)))
    BY NextOfProduct
  <2>3. Reduced(F, Xor(OfLowest(a, b, i), Shl(b, i)))
          = Xor(Reduced(F, OfLowest(a, b, i)), Reduced(F, Shl(b, i)))
    BY <2>2, ReducedSum
  <2> QED BY <2>1, <2>2, <2>3
<1>4. v = [i \in 0..F.w |-> Value(v, i)]
  <2>1. \A i \in 0..F.w : i # 0 => i - 1 \in 0..(F.w - 1) /\ (i - 1) + 1 = i
    BY <1>0
  <2>2. \A i \in 0..F.w : v[i] = Value(v, i)
    <3> HIDE DEF v, Turn, first
    <3> QED BY <1>2, <1>3, <2>1
  <2> HIDE DEF Value
  <2> QED BY <2>2
<1>5. after = [i \in 0..F.w |-> Value(after, i)]
  <2> HIDE DEF Value, v
  <2> QED BY <1>4
<1> HIDE DEF after, v, Turn, first
<1>6. after[F.w] = v[F.w]
  <2>1. after[0] = v[0]
    BY <1>0, <1>2, <1>5
  <2>2. ASSUME NEW i \in 0..(F.w - 1), after[i] = v[i] PROVE after[i + 1] = v[i + 1]
    <3>1. i + 1 \in 0..F.w /\ i + 1 # 0 /\ (i + 1) - 1 = i
      BY <1>0
    <3>2. after[i + 1] = Turn(after[i], i)
      BY <1>5, <3>1
    <3> QED BY <1>3, <2>2, <3>2
  <2> QED BY <1>0, <2>1, <2>2, LoopsAgree
<1> QED BY <1>1, <1>2, <1>6

\* A multiple of the whole polynomial is reduced to nothing.
LEMMA WholeIsZero ==
    ASSUME NEW F, IsGF(F), NEW k \in 0..F.w
    PROVE  /\ Shl(Whole(F), k) \in SUBSET (0..(F.w + k)) /\ Shl(Whole(F), k) \in SUBSET (0..(2 * F.w))
           /\ F.w + k \in Shl(Whole(F), k) /\ Reduced(F, Shl(Whole(F), k)) = Zero
<1>0. F.w \in Nat /\ F.w >= 1 /\ F.poly \in SUBSET (0..(F.w - 1)) /\ k \in Nat /\ F.poly \in SUBSET Nat
  BY DEF IsGF
<1> DEFINE top == {F.w + k}
           low == Shl(F.poly, k)
<1>1. F.poly \in Polynomial
  <2>1. F.w - 1 \in Int
    BY <1>0
  <2> QED BY <1>0, <2>1, WordPolynomial
<1>2. Shl(Whole(F), k) = Xor(top, low)
  <2>1. \A i \in F.poly : i + k # F.w + k
    BY <1>0
  <2>2. Shl(Whole(F), k) = top \cup low
    BY DEF Shl, Whole
  <2> QED BY <2>1, <2>2 DEF Xor, Shl
<1>3. F.w + k \in Nat /\ F.w + k <= 2 * F.w
  BY <1>0
<1>4. low \in SUBSET (0..(F.w + k))
  BY <1>0 DEF Shl
<1>5. top \in SUBSET (0..(2 * F.w)) /\ low \in SUBSET (0..(2 * F.w)) /\ top \in SUBSET (0..(F.w + k))
  BY <1>0, <1>3, <1>4
<1>6. Lowered(F, top) = low
  <2>1. top = Shl({k}, F.w)
    <3>1. k + F.w = F.w + k
      BY <1>0
    <3> QED BY <3>1 DEF Shl
  <2>2. {k} \in SUBSET Nat
    BY <1>0
  <2>3. Cut(top, F.w) = {} /\ Shr(top, F.w) = {k}
    BY <1>0, <2>1, <2>2, HighAndLowOfSum
  <2>4. Product({k}, F.poly) = low
    BY <1>0, <1>1, ProductOfPower
  <2> QED BY <2>3, <2>4, XorAlgebra DEF Lowered
<1> HIDE DEF top, low
<1>7. Reduced(F, top) = Reduced(F, low)
  BY <1>5, <1>6, ReducedLowered
<1>8. Reduced(F, Xor(top, low)) = Xor(Reduced(F, top), Reduced(F, low))
  BY <1>5, ReducedSum
<1>9. Xor(Reduced(F, top), Reduced(F, low)) = Zero
  BY <1>7, XorAlgebra DEF Zero
<1>10. Xor(top, low) \in SUBSET (0..(F.w + k)) /\ Xor(top, low) \in SUBSET (0..(2 * F.w))
  BY <1>4, <1>5 DEF Xor
<1>11. F.w + k \in Shl(Whole(F), k)
  BY DEF Shl, Whole
<1> QED BY <1>2, <1>8, <1>9, <1>10, <1>11

\* The reduction bit by bit, from any bit that is not lower than the first the
\* polynomial has none of and none higher than the highest Reduced is for.
LEMMA ReducedFromIs ==
    ASSUME NEW F, IsGF(F), NEW n \in Nat, F.w - 1 <= n, n <= 2 * F.w, NEW p \in SUBSET (0..n)
    PROVE  ReducedFrom(F, p, n) = Reduced(F, p)
<1> DEFINE S == SUBSET (0..(2 * F.w))
           N == n - F.w + 1
           Turn(q, k) == IF n - k \in q THEN Xor(q, Shl(Whole(F), n - k - F.w)) ELSE q
           Value(g, i) == IF i = 0 THEN p ELSE Turn(g[i - 1], i - 1)
           after == CHOOSE g : g = [i \in 0..N |-> Value(g, i)]
           t == [s \in S \X Nat |-> IF s[2] \in 0..(N - 1) THEN Turn(s[1], s[2]) ELSE s[1]]
<1>0. F.w \in Nat /\ F.w >= 1 /\ N \in Nat /\ p \in S
  BY DEF IsGF
<1>1. ReducedFrom(F, p, n) = after[N]
  BY DEF ReducedFrom, Repeat
<1>2. ASSUME NEW q \in S, NEW k \in 0..(N - 1)
      PROVE  /\ Turn(q, k) \in S /\ Reduced(F, Turn(q, k)) = Reduced(F, q)
             /\ q \in SUBSET (0..(n - k)) => Turn(q, k) \in SUBSET (0..(n - (k + 1)))
  <2> DEFINE m == n - k - F.w
             W == Shl(Whole(F), m)
  <2>1. m \in 0..F.w /\ F.w + m = n - k
    BY <1>0
  <2> HIDE DEF m
  <2>2. W \in SUBSET (0..(n - k)) /\ W \in S /\ n - k \in W /\ Reduced(F, W) = {}
    BY <2>1, WholeIsZero DEF Zero
  <2>3. Turn(q, k) = IF n - k \in q THEN Xor(q, W) ELSE q
    BY DEF m
  <2> HIDE DEF W, Turn
  <2>4. Xor(q, W) \in S
    BY <2>2, XorWithin
  <2>5. Reduced(F, Xor(q, W)) = Xor(Reduced(F, q), Reduced(F, W))
    BY <2>2, ReducedSum
  <2>6. Reduced(F, Turn(q, k)) = Reduced(F, q)
    BY <2>2, <2>3, <2>5, XorAlgebra
  <2>7. ASSUME q \in SUBSET (0..(n - k)) PROVE Turn(q, k) \in SUBSET (0..(n - (k + 1)))
    <3>1. n - k \in Int /\ n - (k + 1) = (n - k) - 1
      BY <1>0
    <3>2. n - k \notin Turn(q, k) /\ Turn(q, k) \in SUBSET (0..(n - k))
      BY <2>2, <2>3, <2>7 DEF Xor
    <3>3. \A j \in 0..(n - k) : j # n - k => j \in 0..((n - k) - 1)
      BY <3>1
    <3> QED BY <3>1, <3>2, <3>3
  <2> QED BY <2>3, <2>4, <2>6, <2>7
<1> HIDE DEF Turn
<1>3. t \in [S \X Nat -> S]
  <2>1. \A s \in S \X Nat : s[1] \in S
    OBVIOUS
  <2> HIDE DEF S
  <2> QED BY <1>2, <2>1
<1>4. PICK g : g \in [0..N -> S] /\ g[0] = p /\ \A i \in 0..N : i # 0 => g[i] = t[<<g[i - 1], i - 1>>]
  <2> HIDE DEF S, N, t
  <2>1. \E g : IsLoop(g, N, S, p, t)
    BY <1>0, <1>3, LoopExists
  <2> QED BY <2>1 DEF IsLoop
<1>5. g = [i \in 0..N |-> Value(g, i)]
  <2>1. \A i \in 0..N : i # 0 => i - 1 \in 0..(N - 1) /\ i - 1 \in 0..N /\ i - 1 \in Nat
    BY <1>0
  <2> HIDE DEF S, N
  <2>2. \A i \in 0..N : i # 0 => t[<<g[i - 1], i - 1>>] = Turn(g[i - 1], i - 1)
    <3> SUFFICES ASSUME NEW i \in 0..N, i # 0
                 PROVE  t[<<g[i - 1], i - 1>>] = Turn(g[i - 1], i - 1)
      OBVIOUS
    <3>1. <<g[i - 1], i - 1>> \in S \X Nat
      BY <1>4, <2>1
    <3> QED BY <2>1, <3>1
  <2>3. \A i \in 0..N : g[i] = Value(g, i)
    <3> HIDE DEF t
    <3> QED BY <1>4, <2>2
  <2> HIDE DEF Value, t
  <2> QED BY <1>4, <2>3
<1>6. after = [i \in 0..N |-> Value(after, i)]
  <2> HIDE DEF Value, N
  <2> QED BY <1>5
<1> HIDE DEF after, t
<1> DEFINE G == {k \in 0..N : /\ after[k] \in S /\ Reduced(F, after[k]) = Reduced(F, p)
                             /\ after[k] \in SUBSET (0..(n - k))}
<1>7. 0 \in G
  <2>1. 0 \in 0..N /\ n - 0 = n
    BY <1>0
  <2>2. after[0] = Value(after, 0)
    <3> HIDE DEF Value, N
    <3> QED BY <1>6, <2>1
  <2>3. after[0] = p
    BY <2>2
  <2> HIDE DEF S, N
  <2> QED BY <1>0, <2>1, <2>3
<1>8. ASSUME NEW i \in 0..(N - 1), i \in G PROVE i + 1 \in G
  <2>1. i + 1 \in 0..N /\ i + 1 # 0 /\ (i + 1) - 1 = i
    BY <1>0
  <2>2. after[i + 1] = Turn(after[i], i)
    <3> HIDE DEF N
    <3> QED BY <1>6, <2>1
  <2>3. after[i] \in S /\ Reduced(F, after[i]) = Reduced(F, p) /\ after[i] \in SUBSET (0..(n - i))
    BY <1>8
  <2>4. /\ Turn(after[i], i) \in S /\ Reduced(F, Turn(after[i], i)) = Reduced(F, after[i])
        /\ Turn(after[i], i) \in SUBSET (0..(n - (i + 1)))
    <3> HIDE DEF S, N
    <3> QED BY <1>2, <2>3
  <2> HIDE DEF S, N
  <2> QED BY <2>1, <2>2, <2>3, <2>4
<1> HIDE DEF G
<1>9. N \in G
  <2> HIDE DEF N
  <2> QED BY <1>0, <1>7, <1>8, LoopKeeps
<1>10. /\ after[N] \in S /\ Reduced(F, after[N]) = Reduced(F, p) /\ after[N] \in SUBSET (0..(n - N))
       /\ n - N = F.w - 1
  BY <1>0, <1>9 DEF G
<1>11. Reduced(F, after[N]) = after[N]
  <2> HIDE DEF N
  <2> QED BY <1>10, ReducedTurn
<1> QED BY <1>1, <1>10, <1>11

\* The product before it is reduced, as the SHIFT methods add it up.
ShiftedSum(n, a, b) == Repeat(n, Zero, LAMBDA p, i : IF i \in a THEN Xor(p, Shl(b, i)) ELSE p)

\* The sum of the shifted words is the product.
LEMMA ShiftedSumIs ==
    ASSUME NEW F, IsGF(F), NEW a \in Words(F), NEW b \in Words(F)
    PROVE  ShiftedSum(F.w, a, b) = Product(a, b)
<1> DEFINE Turn(p, i) == IF i \in a THEN Xor(p, Shl(b, i)) ELSE p
           Value(g, i) == IF i = 0 THEN Zero ELSE Turn(g[i - 1], i - 1)
           after == CHOOSE g : g = [i \in 0..F.w |-> Value(g, i)]
           v == [i \in 0..F.w |-> OfLowest(a, b, i)]
<1>0. F.w \in Nat
  BY DEF IsGF
<1>1. ShiftedSum(F.w, a, b) = after[F.w]
  BY DEF ShiftedSum, Repeat
<1>2. v[0] = Zero /\ v[F.w] = Product(a, b)
  BY <1>0, EndsOfProduct
<1>3. ASSUME NEW i \in 0..(F.w - 1) PROVE v[i + 1] = Turn(v[i], i)
  <2>1. i \in 0..F.w /\ i + 1 \in 0..F.w
    BY <1>0
  <2> QED BY <2>1, NextOfProduct
<1>4. v = [i \in 0..F.w |-> Value(v, i)]
  <2>1. \A i \in 0..F.w : i # 0 => i - 1 \in 0..(F.w - 1) /\ (i - 1) + 1 = i
    BY <1>0
  <2>2. \A i \in 0..F.w : v[i] = Value(v, i)
    <3> HIDE DEF v, Turn
    <3> QED BY <1>2, <1>3, <2>1
  <2> HIDE DEF Value
  <2> QED BY <2>2
<1>5. after = [i \in 0..F.w |-> Value(after, i)]
  <2> HIDE DEF Value, v
  <2> QED BY <1>4
<1> HIDE DEF after, v, Turn
<1>6. after[F.w] = v[F.w]
  <2>1. after[0] = v[0]
    BY <1>0, <1>2, <1>5
  <2>2. ASSUME NEW i \in 0..(F.w - 1), after[i] = v[i] PROVE after[i + 1] = v[i + 1]
    <3>1. i + 1 \in 0..F.w /\ i + 1 # 0 /\ (i + 1) - 1 = i
      BY <1>0
    <3>2. after[i + 1] = Turn(after[i], i)
      BY <1>5, <3>1
    <3> QED BY <1>3, <2>2, <3>2
  <2> QED BY <1>0, <2>1, <2>2, LoopsAgree
<1> QED BY <1>1, <1>2, <1>6

\* The SHIFT methods of all widths compute the product: the reduction starts at
\* the highest bit a product can have, 2w - 2, or above it.
THEOREM ShiftIsTimes ==
    ASSUME NEW F, IsGF(F), NEW a \in Words(F), NEW b \in Words(F)
    PROVE  /\ GfWgenShiftMultiply(F, a, b) = Times(F, a, b)
           /\ F.w = 4 => GfW4ShiftMultiply(F, a, b) = Times(F, a, b)
           /\ F.w = 8 => GfW8ShiftMultiply(F, a, b) = Times(F, a, b)
           /\ F.w = 16 => GfW16ShiftMultiply(F, a, b) = Times(F, a, b)
<1>0. F.w \in Nat /\ F.w >= 1 /\ Product(a, b) \in SUBSET (0..(2 * F.w - 2))
  BY EndsOfProduct DEF IsGF
<1>1. ASSUME NEW n \in Nat, n \in {2 * F.w - 2, 2 * F.w - 1}
      PROVE  ReducedFrom(F, ShiftedSum(F.w, a, b), n) = Times(F, a, b)
  <2>1. F.w - 1 <= n /\ n <= 2 * F.w
    BY <1>0, <1>1
  <2>2. Product(a, b) \in SUBSET (0..n)
    BY <1>0, <1>1
  <2>3. ReducedFrom(F, Product(a, b), n) = Reduced(F, Product(a, b))
    BY <2>1, <2>2, ReducedFromIs
  <2> QED BY <2>3, ShiftedSumIs DEF Times
<1>2. GfWgenShiftMultiply(F, a, b) = Times(F, a, b)
  <2>1. 2 * F.w - 1 \in Nat
    BY <1>0
  <2> QED BY <1>1, <2>1 DEF GfWgenShiftMultiply, ShiftedSum
<1>3. ASSUME F.w = 4 PROVE GfW4ShiftMultiply(F, a, b) = Times(F, a, b)
  <2>1. ReducedFrom(F, ShiftedSum(4, a, b), 6) = Times(F, a, b)
    BY <1>1, <1>3
  <2> QED BY <2>1 DEF GfW4ShiftMultiply, ShiftedSum
<1>4. ASSUME F.w = 8 PROVE GfW8ShiftMultiply(F, a, b) = Times(F, a, b)
  <2>1. ReducedFrom(F, ShiftedSum(8, a, b), 14) = Times(F, a, b)
    BY <1>1, <1>4
  <2> QED BY <2>1 DEF GfW8ShiftMultiply, ShiftedSum
<1>5. ASSUME F.w = 16 PROVE GfW16ShiftMultiply(F, a, b) = Times(F, a, b)
  <2>1. ReducedFrom(F, ShiftedSum(16, a, b), 30) = Times(F, a, b)
    BY <1>1, <1>5
  <2> QED BY <2>1 DEF GfW16ShiftMultiply, ShiftedSum
<1> QED BY <1>2, <1>3, <1>4, <1>5

\* One reduction of the carry-less multiplication is one step of the reference.
LEMMA ClmTurn ==
    ASSUME NEW F, IsGF(F), NEW p \in Polynomial
    PROVE  Xor(p, Product(Whole(F), Shr(p, F.w))) = Lowered(F, p)
<1> DEFINE h == Shr(p, F.w)
           c == Cut(p, F.w)
           l == Product(h, F.poly)
           u == Shl(h, F.w)
<1>0. F.w \in Nat /\ F.w >= 1 /\ F.poly \in SUBSET (0..(F.w - 1)) /\ p \in SUBSET Nat
  BY DEF IsGF, Polynomial
<1>1. h \in Polynomial /\ F.poly \in Polynomial /\ Lowered(F, p) = Xor(c, l)
  BY LoweredIs DEF Lowered
<1>2. p = Xor(c, u)
  BY <1>0, HighAndLow
<1> HIDE DEF h
<1>3. Whole(F) = Xor(F.poly, {F.w})
  <2>1. F.w \notin F.poly
    BY <1>0
  <2> QED BY <2>1 DEF Xor, Whole
<1>4. {F.w} \in Polynomial /\ Product({F.w}, h) = u
  BY <1>0, <1>1, ProductOfPower
<1>5. Product(Whole(F), h) = Xor(Product(F.poly, h), Product({F.w}, h))
  BY <1>1, <1>3, <1>4, ProductOfSum
<1>6. Product(F.poly, h) = l
  BY <1>1, ProductCommutes
<1> HIDE DEF c, l, u
<1>7. Xor(Xor(c, u), Xor(l, u)) = Xor(c, l)
  BY DEF Xor
<1> QED BY <1>1, <1>2, <1>4, <1>5, <1>6, <1>7 DEF h

\* How far a step lowers a polynomial when the field's has no term above x^d
\* but x^w.
LEMMA LoweredBound ==
    ASSUME NEW F, IsGF(F), NEW d \in Nat, F.poly \in SUBSET (0..d),
           NEW p \in Polynomial, NEW m \in Int, \A j \in p : j < F.w \/ j <= m
    PROVE  \A j \in Lowered(F, p) : j < F.w \/ j <= m - (F.w - d)
<1>0. F.w \in Nat /\ p \in SUBSET Nat /\ F.poly \in SUBSET Nat /\ m - F.w \in Int
  BY DEF IsGF, Polynomial
<1>1. Shr(p, F.w) \in SUBSET (0..(m - F.w))
  <2>1. \A j \in p : j >= F.w => j - F.w \in 0..(m - F.w)
    BY <1>0
  <2> QED BY <2>1 DEF Shr
<1>2. Product(Shr(p, F.w), F.poly) \in SUBSET (0..((m - F.w) + d))
  <2>1. d \in Int /\ F.poly \in SUBSET (0..d)
    OBVIOUS
  <2> QED BY ONLY <1>0, <1>1, <2>1, ProductBound
<1>3. \A j \in Cut(p, F.w) : j < F.w
  BY DEF Cut
<1>4. \A j \in 0..((m - F.w) + d) : j <= m - (F.w - d)
  BY <1>0
<1> QED BY <1>2, <1>3, <1>4 DEF Lowered, Xor

\* The carry-less multiplication computes the product if it reduces often
\* enough: every reduction lowers what is left by the gap between x^w and the
\* next term of the polynomial, and the product can be w - 1 bits too long.
THEOREM CarryFreeIsTimes ==
    ASSUME NEW F, IsGF(F), NEW a \in Words(F), NEW b \in Words(F),
           NEW d \in Nat, d < F.w, F.poly \in SUBSET (0..d),
           NEW r \in Nat, r * (F.w - d) >= F.w - 1
    PROVE  ClmMultiply(F, r, a, b) = Times(F, a, b)
<1> DEFINE p == Product(a, b)
           Turn(q, k) == Xor(q, Product(Whole(F), Shr(q, F.w)))
           Value(g, i) == IF i = 0 THEN p ELSE Turn(g[i - 1], i - 1)
           after == CHOOSE g : g = [i \in 0..r |-> Value(g, i)]
           t == [s \in Polynomial \X Nat |-> Lowered(F, s[1])]
           left(k) == 2 * F.w - 2 - k * (F.w - d)
<1>0. /\ F.w \in Nat /\ F.w >= 1 /\ p \in Polynomial
      /\ p \in SUBSET (0..(2 * F.w - 2)) /\ p \in SUBSET (0..(2 * F.w))
  BY EndsOfProduct DEF IsGF
<1>1. ClmMultiply(F, r, a, b) = Cut(after[r], F.w)
  BY DEF ClmMultiply, Repeat
<1> HIDE DEF p
<1>2. ASSUME NEW q \in Polynomial, NEW k
      PROVE  Turn(q, k) = Lowered(F, q) /\ Lowered(F, q) \in Polynomial
  BY ClmTurn, LoweredIs
<1>3. t \in [Polynomial \X Nat -> Polynomial]
  <2>1. \A s \in Polynomial \X Nat : s[1] \in Polynomial
    OBVIOUS
  <2> QED BY <1>2, <2>1
<1>4. PICK g : g \in [0..r -> Polynomial] /\ g[0] = p /\ \A i \in 0..r : i # 0 => g[i] = t[<<g[i - 1], i - 1>>]
  <2> HIDE DEF t
  <2>1. \E g : IsLoop(g, r, Polynomial, p, t)
    BY <1>0, <1>3, LoopExists
  <2> QED BY <2>1 DEF IsLoop
<1> HIDE DEF Turn
<1>5. g = [i \in 0..r |-> Value(g, i)]
  <2>1. \A i \in 0..r : i # 0 => i - 1 \in 0..r /\ i - 1 \in Nat
    OBVIOUS
  <2>2. \A i \in 0..r : i # 0 => t[<<g[i - 1], i - 1>>] = Turn(g[i - 1], i - 1)
    <3> SUFFICES ASSUME NEW i \in 0..r, i # 0
                 PROVE  t[<<g[i - 1], i - 1>>] = Turn(g[i - 1], i - 1)
      OBVIOUS
    <3>1. <<g[i - 1], i - 1>> \in Polynomial \X Nat /\ g[i - 1] \in Polynomial
      BY <1>4, <2>1
    <3> QED BY <1>2, <2>1, <3>1
  <2>3. \A i \in 0..r : g[i] = Value(g, i)
    <3> HIDE DEF t
    <3> QED BY <1>4, <2>2
  <2> HIDE DEF Value, t
  <2> QED BY <1>4, <2>3
<1>6. after = [i \in 0..r |-> Value(after, i)]
  <2> HIDE DEF Value
  <2> QED BY <1>5
<1> HIDE DEF after, t
<1> DEFINE G == {k \in 0..r : /\ after[k] \in SUBSET (0..(2 * F.w))
                             /\ Reduced(F, after[k]) = Reduced(F, p)
                             /\ \A j \in after[k] : j < F.w \/ j <= left(k)}
<1>7. 0 \in G
  <2>1. after[0] = Value(after, 0)
    <3> HIDE DEF Value
    <3> QED BY <1>6
  <2>2. after[0] = p
    BY <2>1
  <2>3. left(0) = 2 * F.w - 2 /\ 0 \in 0..r
    BY <1>0
  <2>4. \A j \in p : j <= left(0)
    BY <1>0, <2>3
  <2> HIDE DEF left
  <2> QED BY <1>0, <2>2, <2>3, <2>4
<1>8. ASSUME NEW i \in 0..(r - 1), i \in G PROVE i + 1 \in G
  <2> DEFINE q == after[i]
  <2>1. i + 1 \in 0..r /\ i + 1 # 0 /\ (i + 1) - 1 = i /\ i \in 0..r
    OBVIOUS
  <2>2. after[i + 1] = Turn(q, i)
    BY <1>6, <2>1
  <2>3. /\ q \in SUBSET (0..(2 * F.w)) /\ Reduced(F, q) = Reduced(F, p)
        /\ \A j \in q : j < F.w \/ j <= left(i)
    BY <1>8
  <2> HIDE DEF G, q
  <2>4. q \in Polynomial /\ 2 * F.w \in Nat
    <3>1. 2 * F.w \in Int /\ 2 * F.w \in Nat
      BY <1>0
    <3>2. q \in SUBSET (0..(2 * F.w))
      BY <2>3
    <3>3. q \in Polynomial
      BY ONLY <3>1, <3>2, WordPolynomial
    <3> QED BY <3>1, <3>3
  <2>5. after[i + 1] = Lowered(F, q)
    BY <1>2, <2>2, <2>4
  <2>6. left(i) \in Int /\ left(i + 1) = left(i) - (F.w - d)
    BY <1>0
  <2> HIDE DEF left
  <2>7. \A j \in Lowered(F, q) : j < F.w \/ j <= left(i + 1)
    <3>1. \A j \in Lowered(F, q) : j < F.w \/ j <= left(i) - (F.w - d)
      BY <2>3, <2>4, <2>6, LoweredBound
    <3> QED BY <2>6, <3>1
  <2>8. Reduced(F, Lowered(F, q)) = Reduced(F, p)
    BY <2>3, ReducedLowered
  <2>9. Lowered(F, q) \in SUBSET (0..(2 * F.w))
    <3>1. q \in SUBSET (0..(F.w - 1)) => Lowered(F, q) = q
      BY <2>4, LoweredIs
    <3>2. 2 * F.w >= F.w => Lowered(F, q) \in SUBSET (0..(2 * F.w - 1))
      BY <2>3, <2>4, LoweredIs
    <3> QED BY <1>0, <3>2
  <2> QED BY <2>1, <2>5, <2>7, <2>8, <2>9 DEF G
<1> HIDE DEF G
<1>9. r \in G
  BY <1>7, <1>8, LoopKeeps
<1>10. left(r) <= F.w - 1 /\ left(r) \in Int
  BY <1>0
<1>11. /\ after[r] \in SUBSET (0..(2 * F.w)) /\ Reduced(F, after[r]) = Reduced(F, p)
       /\ \A j \in after[r] : j < F.w \/ j <= left(r)
  BY <1>9 DEF G
<1> HIDE DEF left
<1>12. \A j \in after[r] : j \in 0..(F.w - 1) /\ j < F.w
  BY <1>0, <1>10, <1>11
<1>13. Cut(after[r], F.w) = after[r] /\ after[r] \in SUBSET (0..(F.w - 1))
  BY <1>12 DEF Cut
<1>14. Reduced(F, after[r]) = after[r]
  BY <1>11, <1>13, ReducedTurn
<1> QED BY <1>1, <1>11, <1>13, <1>14 DEF p, Times

\* So the number of reductions that the init functions choose by the terms of
\* the polynomial is enough for every polynomial that gf_error_check lets
\* CARRY_FREE have: with no term x^2 or x^3 in a field of 4 bits, none from x^7
\* in one of 8 and none from x^13 in one of 16.
THEOREM ReductionsSuffice ==
    ASSUME NEW F, IsGF(F), NEW a \in Words(F), NEW b \in Words(F)
    PROVE  /\ F.w = 4 /\ F.poly \cap (2..3) = {} => GfW4ClmMultiply(F, a, b) = Times(F, a, b)
           /\ F.w = 8 /\ F.poly \cap {7} = {} =>
                /\ Reductions(F) \in {2, 3, 4}
                /\ ClmMultiply(F, Reductions(F), a, b) = Times(F, a, b)
           /\ F.w = 16 /\ F.poly \cap (13..15) = {} =>
                /\ GfW16Reductions(F) \in {2, 3, 4}
                /\ ClmMultiply(F, GfW16Reductions(F), a, b) = Times(F, a, b)
<1>0. F.poly \in SUBSET (0..(F.w - 1))
  BY DEF IsGF
<1>1. ASSUME NEW d \in Nat, NEW r \in Nat, d < F.w, r * (F.w - d) >= F.w - 1,
             \A j \in F.poly : j <= d
      PROVE  ClmMultiply(F, r, a, b) = Times(F, a, b)
  <2>1. F.poly \in SUBSET (0..d)
    BY <1>0, <1>1
  <2> QED BY <1>1, <2>1, CarryFreeIsTimes
<1>2. ASSUME F.w = 4, F.poly \cap (2..3) = {} PROVE GfW4ClmMultiply(F, a, b) = Times(F, a, b)
  <2>1. \A j \in F.poly : j <= 1
    BY <1>0, <1>2
  <2>2. ClmMultiply(F, 1, a, b) = Times(F, a, b)
    BY <1>1, <1>2, <2>1
  <2> QED BY <2>2 DEF GfW4ClmMultiply
<1>3. ASSUME F.w = 8, F.poly \cap {7} = {}
      PROVE  /\ Reductions(F) \in {2, 3, 4}
             /\ ClmMultiply(F, Reductions(F), a, b) = Times(F, a, b)
  <2>0. F.poly \in SUBSET (0..7)
    BY <1>0, <1>3
  <2>1. CASE F.poly \cap {5, 6, 7} = {}
    <3>1. Reductions(F) = 2
      BY <2>1 DEF Reductions
    <3>2. \A j \in F.poly : j <= 4
      BY <2>0, <2>1
    <3>3. 4 \in Nat /\ 2 \in Nat /\ 4 < F.w /\ 2 * (F.w - 4) >= F.w - 1
      BY <1>3
    <3>4. ClmMultiply(F, 2, a, b) = Times(F, a, b)
      BY ONLY <1>1, <3>2, <3>3
    <3> QED BY <3>1, <3>4
  <2>2. CASE F.poly \cap {5, 6, 7} = {5}
    <3>1. Reductions(F) = 3
      <4>1. F.poly \cap {6, 7} # {6} /\ F.poly \cap {5, 6, 7} # {}
        BY <2>2
      <4> QED BY <2>2, <4>1 DEF Reductions
    <3>2. \A j \in F.poly : j <= 5
      BY <2>0, <2>2
    <3>3. 5 \in Nat /\ 3 \in Nat /\ 5 < F.w /\ 3 * (F.w - 5) >= F.w - 1
      BY <1>3
    <3>4. ClmMultiply(F, 3, a, b) = Times(F, a, b)
      BY ONLY <1>1, <3>2, <3>3
    <3> QED BY <3>1, <3>4
  <2>3. CASE 6 \in F.poly
    <3>1. Reductions(F) = 4
      <4>1. F.poly \cap {6, 7} = {6} /\ F.poly \cap {5, 6, 7} # {} /\ F.poly \cap {5, 6, 7} # {5}
        BY <1>3, <2>3
      <4> QED BY <4>1 DEF Reductions
    <3>2. \A j \in F.poly : j <= 6
      BY <1>3, <2>0
    <3>3. 6 \in Nat /\ 4 \in Nat /\ 6 < F.w /\ 4 * (F.w - 6) >= F.w - 1
      BY <1>3
    <3>4. ClmMultiply(F, 4, a, b) = Times(F, a, b)
      BY ONLY <1>1, <3>2, <3>3
    <3> QED BY <3>1, <3>4
  <2> QED BY <1>3, <2>1, <2>2, <2>3
<1>4. ASSUME F.w = 16, F.poly \cap (13..15) = {}
      PROVE  /\ GfW16Reductions(F) \in {2, 3, 4}
             /\ ClmMultiply(F, GfW16Reductions(F), a, b) = Times(F, a, b)
  <2>0. F.poly \in SUBSET (0..15)
    BY <1>0, <1>4
  <2>1. CASE F.poly \cap (9..15) = {}
    <3>1. GfW16Reductions(F) = 2
      <4>1. F.poly \cap (12..15) # {12}
        BY <2>1
      <4> QED BY <2>1, <4>1 DEF GfW16Reductions
    <3>2. \A j \in F.poly : j <= 8
      BY <2>0, <2>1
    <3>3. 8 \in Nat /\ 2 \in Nat /\ 8 < F.w /\ 2 * (F.w - 8) >= F.w - 1
      BY <1>4
    <3>4. ClmMultiply(F, 2, a, b) = Times(F, a, b)
      BY ONLY <1>1, <3>2, <3>3
    <3> QED BY <3>1, <3>4
  <2>2. CASE F.poly \cap (9..15) # {} /\ 12 \notin F.poly
    <3>0. F.poly \cap (12..15) = {}
      BY <1>4, <2>2
    <3>1. GfW16Reductions(F) = 3
      BY <2>2, <3>0 DEF GfW16Reductions
    <3>2. \A j \in F.poly : j <= 11
      BY <2>0, <3>0
    <3>3. 11 \in Nat /\ 3 \in Nat /\ 11 < F.w /\ 3 * (F.w - 11) >= F.w - 1
      BY <1>4
    <3>4. ClmMultiply(F, 3, a, b) = Times(F, a, b)
      BY ONLY <1>1, <3>2, <3>3
    <3> QED BY <3>1, <3>4
  <2>3. CASE 12 \in F.poly
    <3>1. GfW16Reductions(F) = 4
      <4>1. F.poly \cap (12..15) = {12} /\ F.poly \cap (9..15) # {}
        BY <1>4, <2>3
      <4> QED BY <4>1 DEF GfW16Reductions
    <3>2. \A j \in F.poly : j <= 12
      BY <1>4, <2>0
    <3>3. 12 \in Nat /\ 4 \in Nat /\ 12 < F.w /\ 4 * (F.w - 12) >= F.w - 1
      BY <1>4
    <3>4. ClmMultiply(F, 4, a, b) = Times(F, a, b)
      BY ONLY <1>1, <3>2, <3>3
    <3> QED BY <3>1, <3>4
  <2> QED BY <2>1, <2>2, <2>3
<1> QED BY <1>2, <1>3, <1>4

\* The NEON multiplication of 8 bits, which adds the high byte to the next
\* instead of clearing it, is right where two reductions are enough.
THEOREM NeonTwiceIsTimes ==
    ASSUME NEW F, IsGF(F), NEW a \in Words(F), NEW b \in Words(F), F.w = 8, F.poly \cap {5, 6, 7} = {}
    PROVE  GfW8NeonClmMultiplyX(F, 2, a, b) = Times(F, a, b)
<1> DEFINE p == Product(a, b)
           q == Lowered(F, p)
           h == Shr(p, 8)
           k == Shr(q, 8)
           first == [v |-> Zero, result |-> p]
           Turn(s, i) == [v |-> Xor(s.v, Shr(s.result, 8)),
                          result |-> Xor(s.result, Product(F.poly, Xor(s.v, Shr(s.result, 8))))]
           Value(g, i) == IF i = 0 THEN first ELSE Turn(g[i - 1], i - 1)
           after == CHOOSE g : g = [i \in 0..2 |-> Value(g, i)]
           one == Turn(first, 0)
           two == Turn(one, 1)
           w == [i \in 0..2 |-> IF i = 0 THEN first ELSE IF i = 1 THEN one ELSE two]
<1>0. /\ p \in Polynomial /\ p \in SUBSET (0..14) /\ p \in SUBSET (0..(2 * F.w))
      /\ F.poly \in SUBSET (0..4) /\ F.poly \in Polynomial /\ 4 \in Nat
  <2>1. F.poly \in SUBSET (0..(F.w - 1))
    BY DEF IsGF
  <2>2. F.poly \in SUBSET (0..4)
    BY <2>1
  <2>3. /\ p \in Polynomial /\ p \in SUBSET (0..(2 * F.w - 2)) /\ p \in SUBSET (0..(2 * F.w))
    BY EndsOfProduct
  <2>4. F.poly \in Polynomial
    BY <2>3, LoweredIs
  <2>5. 2 * F.w - 2 = 14
    OBVIOUS
  <2>6. p \in SUBSET (0..14)
    BY ONLY <2>3, <2>5
  <2> QED BY ONLY <2>2, <2>3, <2>4, <2>6
<1>1. GfW8NeonClmMultiplyX(F, 2, a, b) = Cut(after[2].result, 8)
  BY DEF GfW8NeonClmMultiplyX, Repeat
<1> HIDE DEF p, first
<1>2. w = [i \in 0..2 |-> Value(w, i)]
  <2>1. w[0] = first /\ w[1] = one /\ w[2] = two /\ 0..2 = {0, 1, 2}
    OBVIOUS
  <2>2. \A i \in 0..2 : w[i] = Value(w, i)
    <3> HIDE DEF w, one, two, Turn
    <3>1. w[0] = Value(w, 0)
      BY <2>1
    <3>2. w[1] = Value(w, 1)
      BY <2>1 DEF one
    <3>3. w[2] = Value(w, 2)
      BY <2>1 DEF two
    <3> HIDE DEF Value
    <3>4. 0..2 = {0, 1, 2}
      OBVIOUS
    <3> QED BY ONLY <3>1, <3>2, <3>3, <3>4
  <2> HIDE DEF Value
  <2> QED BY <2>2
<1>3. after = [i \in 0..2 |-> Value(after, i)]
  <2> HIDE DEF Value, w
  <2> QED BY <1>2
<1> HIDE DEF after, w
<1>4. after[2] = two
  <2>1. after[0] = Value(after, 0) /\ after[1] = Value(after, 1) /\ after[2] = Value(after, 2)
    <3> HIDE DEF Value
    <3> QED BY <1>3
  <2> HIDE DEF Turn, one, two
  <2>2. after[0] = first
    BY <2>1
  <2>3. after[1] = one
    BY <2>1, <2>2 DEF one
  <2> QED BY <2>1, <2>3 DEF two
<1>5. /\ h \in Polynomial /\ q \in Polynomial /\ q = Xor(Cut(p, 8), Product(h, F.poly))
      /\ k \in Polynomial /\ Lowered(F, q) = Xor(Cut(q, 8), Product(k, F.poly))
      /\ Lowered(F, q) \in Polynomial /\ Product(h, F.poly) \in Polynomial
      /\ Product(k, F.poly) \in Polynomial
  <2>1. h \in Polynomial /\ q \in Polynomial /\ Product(h, F.poly) \in Polynomial
    BY <1>0, LoweredIs
  <2>2. k \in Polynomial /\ Lowered(F, q) \in Polynomial /\ Product(k, F.poly) \in Polynomial
    BY <2>1, LoweredIs
  <2> QED BY <2>1, <2>2 DEF Lowered
<1>6. Product(F.poly, h) = Product(h, F.poly) /\ Product(F.poly, k) = Product(k, F.poly)
  BY <1>0, <1>5, ProductCommutes
<1> DEFINE l == Product(h, F.poly)
           m == Product(k, F.poly)
<1>7. k = Shr(l, 8)
  <2>1. l \in SUBSET Nat /\ \A i \in Cut(p, 8) : i < 8
    BY <1>5 DEF Polynomial, Cut
  <2>2. \A i \in Nat : i >= 8 => (i \in q <=> i \in l)
    <3>1. \A i \in Nat : i >= 8 => i \notin Cut(p, 8)
      BY <2>1
    <3>2. q = Xor(Cut(p, 8), l)
      BY <1>5
    <3> HIDE DEF q, l
    <3> QED BY <3>1, <3>2 DEF Xor
  <2>3. \A i \in q : i \in Nat
    BY <1>5 DEF Polynomial
  <2> HIDE DEF q, l
  <2>4. {j \in q : j >= 8} = {j \in l : j >= 8}
    BY <2>1, <2>2, <2>3
  <2> QED BY <2>4 DEF Shr
<1> HIDE DEF q, h, k, l, m
<1>8. one.v = h /\ one.result = Xor(p, l)
  BY <1>6, XorAlgebra DEF first, Zero, h, l
<1> HIDE DEF one
<1>9. Shr(Xor(p, l), 8) = Xor(h, k) /\ Cut(Xor(Xor(p, l), m), 8) = Cut(Xor(Xor(Cut(p, 8), l), m), 8)
  <2>1. p \in SUBSET Nat /\ l \in SUBSET Nat /\ 8 \in Nat
    BY <1>0, <1>5 DEF Polynomial, l
  <2>2. Shr(Xor(p, l), 8) = Xor(Shr(p, 8), Shr(l, 8))
    BY ONLY <2>1, HighAndLowOfSum
  <2> QED BY <1>7, <2>2 DEF h, Cut, Xor
<1>10. two.result = Xor(Xor(p, l), m)
  <2>1. Xor(h, Xor(h, k)) = k
    BY XorAlgebra
  <2> QED BY <1>6, <1>8, <1>9, <2>1 DEF m
<1>11. Cut(two.result, 8) = Cut(Lowered(F, q), 8)
  <2>1. q = Xor(Cut(p, 8), l) /\ Lowered(F, q) = Xor(Cut(q, 8), m)
    BY <1>5 DEF l, m
  <2>2. Cut(Xor(q, m), 8) = Cut(Xor(Cut(q, 8), m), 8)
    BY DEF Cut, Xor
  <2> QED BY <1>9, <1>10, <2>1, <2>2
<1>12. \A j \in Lowered(F, q) : j < 8
  <2>1. \A j \in p : j < F.w \/ j <= 14
    BY <1>0
  <2>2. \A j \in q : j < F.w \/ j <= 14 - (F.w - 4)
    BY <1>0, <2>1, LoweredBound DEF q
  <2>3. 14 - (F.w - 4) = 10
    OBVIOUS
  <2>4. \A j \in Lowered(F, q) : j < F.w \/ j <= 10 - (F.w - 4)
    <3>1. q \in Polynomial /\ 10 \in Int /\ \A j \in q : j < F.w \/ j <= 10
      BY <1>5, <2>2, <2>3
    <3>2. IsGF(F) /\ 4 \in Nat /\ F.poly \in SUBSET (0..4)
      BY <1>0
    <3> QED BY ONLY <3>1, <3>2, LoweredBound
  <2>5. \A j \in Lowered(F, q) : j \in Nat
    BY <1>5 DEF Polynomial
  <2> QED BY <2>4, <2>5
<1>13. Cut(Lowered(F, q), 8) = Lowered(F, q) /\ Lowered(F, q) \in SUBSET (0..(F.w - 1))
  <2>1. \A j \in Lowered(F, q) : j \in 0..(F.w - 1)
    BY <1>5, <1>12 DEF Polynomial
  <2> QED BY <1>12, <2>1 DEF Cut
<1>14. Reduced(F, p) = Lowered(F, q)
  <2>1. Reduced(F, p) = Reduced(F, q)
    BY <1>0, ReducedLowered DEF q
  <2>2. q \in SUBSET (0..(2 * F.w))
    <3>1. \A j \in p : j < F.w \/ j <= 14
      BY <1>0
    <3>2. \A j \in q : j < F.w \/ j <= 14 - (F.w - 4)
      BY <1>0, <3>1, LoweredBound DEF q
    <3>3. \A j \in q : j \in Nat
      BY <1>5 DEF Polynomial
    <3>4. \A j \in q : j \in 0..(2 * F.w)
      BY <3>2, <3>3
    <3> QED BY <3>4
  <2>3. Reduced(F, q) = Reduced(F, Lowered(F, q))
    BY <2>2, ReducedLowered
  <2>4. Lowered(F, q) \in SUBSET (0..(2 * F.w))
    BY <1>13
  <2>5. Reduced(F, Lowered(F, q)) = Lowered(F, q)
    BY <1>13, <2>4, ReducedTurn
  <2> QED BY <2>1, <2>3, <2>5
<1> QED BY <1>1, <1>4, <1>11, <1>13, <1>14 DEF p, Times

-----------------------------------------------------------------------------
(* Regions: the words that a set of bits consists of. *)

\* What / and % are, of a number and of one put together from both.
LEMMA DivMod ==
    ASSUME NEW w \in Nat \ {0}, NEW j \in Nat
    PROVE  j = w * (j \div w) + (j % w) /\ j % w \in 0..(w - 1) /\ j \div w \in Nat
<1>1. w \in Nat /\ w > 0
  OBVIOUS
<1>2. j % w \in 0..(w - 1)
  BY <1>1
<1>3. j = w * (j \div w) + (j % w)
  BY <1>1
<1>4. j \div w \in Int
  BY <1>1
<1>5. j \div w \in Nat
  BY <1>1, <1>2, <1>3, <1>4
<1> QED BY <1>2, <1>3, <1>5

\* A number is put together from one quotient and one remainder only.
LEMMA SameParts ==
    ASSUME NEW w \in Nat \ {0}, NEW q \in Nat, NEW p \in Nat, NEW r \in 0..(w - 1), NEW s \in 0..(w - 1),
           w * q + r = w * p + s
    PROVE  q = p /\ r = s
<1>1. ASSUME q < p PROVE FALSE
  <2>1. q + 1 <= p
    BY <1>1
  <2>2. w * (q + 1) <= w * p
    BY <2>1
  <2>3. w * (q + 1) = w * q + w
    OBVIOUS
  <2> QED BY <2>2, <2>3
<1>2. ASSUME p < q PROVE FALSE
  <2>1. p + 1 <= q
    BY <1>2
  <2>2. w * (p + 1) <= w * q
    BY <2>1
  <2>3. w * (p + 1) = w * p + w
    OBVIOUS
  <2> QED BY <2>2, <2>3
<1> QED BY <1>1, <1>2

\* The quotient and the remainder of a number put together from them.
LEMMA DivModOf ==
    ASSUME NEW w \in Nat \ {0}, NEW q \in Nat, NEW r \in 0..(w - 1)
    PROVE  (w * q + r) \div w = q /\ (w * q + r) % w = r
<1> DEFINE j == w * q + r
<1>1. j \in Nat /\ j = w * q + r
  OBVIOUS
<1> HIDE DEF j
<1>2. j = w * (j \div w) + (j % w) /\ j % w \in 0..(w - 1) /\ j \div w \in Nat
  BY <1>1, DivMod
<1>3. j \div w = q /\ j % w = r
  <2> DEFINE p == j \div w
             s == j % w
  <2>1. w * p + s = w * q + r /\ p \in Nat /\ s \in 0..(w - 1)
    BY <1>1, <1>2
  <2> HIDE DEF p, s
  <2>2. p = q /\ s = r
    BY <2>1, SameParts
  <2> QED BY <2>2 DEF p, s
<1> QED BY <1>3 DEF j

\* Bit i of word k is bit k w + i of the region.
LEMMA InWordAt ==
    ASSUME NEW w \in Nat \ {0}, NEW x \in SUBSET Nat, NEW k \in Nat
    PROVE  /\ WordAt(w, x, k) \in SUBSET (0..(w - 1))
           /\ \A i \in 0..(w - 1) : i \in WordAt(w, x, k) <=> k * w + i \in x
<1>1. k * w \in Nat /\ k * w = w * k
  OBVIOUS
<1>2. ASSUME NEW j \in Nat, j \div w = k
      PROVE  j - k * w \in 0..(w - 1) /\ k * w + (j - k * w) = j
  <2>1. j = w * k + (j % w) /\ j % w \in 0..(w - 1)
    BY <1>2, DivMod
  <2> QED BY <1>1, <2>1
<1>3. \A i \in 0..(w - 1) : (k * w + i) \div w = k /\ (k * w + i) - k * w = i
  <2> SUFFICES ASSUME NEW i \in 0..(w - 1)
               PROVE  (k * w + i) \div w = k /\ (k * w + i) - k * w = i
    OBVIOUS
  <2>1. (w * k + i) \div w = k
    BY DivModOf
  <2> QED BY <1>1, <2>1
<1>4. WordAt(w, x, k) \in SUBSET (0..(w - 1))
  BY <1>2 DEF WordAt
<1>5. ASSUME NEW i \in 0..(w - 1) PROVE i \in WordAt(w, x, k) <=> k * w + i \in x
  <2>1. i \in WordAt(w, x, k) => k * w + i \in x
    <3> SUFFICES ASSUME NEW j \in x, j \div w = k, i = j - k * w PROVE k * w + i \in x
      BY DEF WordAt
    <3>1. k * w + i = j
      BY <1>2
    <3> QED BY <3>1
  <2>2. k * w + i \in x => i \in WordAt(w, x, k)
    BY <1>3 DEF WordAt
  <2> QED BY <2>1, <2>2
<1> QED BY <1>4, <1>5

\* The words of a sum.
LEMMA WordAtXor ==
    ASSUME NEW w \in Nat \ {0}, NEW x \in SUBSET Nat, NEW y \in SUBSET Nat, NEW k \in Nat
    PROVE  /\ Xor(x, y) \in SUBSET Nat
           /\ WordAt(w, Xor(x, y), k) = Xor(WordAt(w, x, k), WordAt(w, y, k))
<1> DEFINE a == WordAt(w, x, k)
           b == WordAt(w, y, k)
           c == WordAt(w, Xor(x, y), k)
<1>1. Xor(x, y) \in SUBSET Nat
  BY DEF Xor
<1>2. /\ a \in SUBSET (0..(w - 1)) /\ b \in SUBSET (0..(w - 1)) /\ c \in SUBSET (0..(w - 1))
      /\ \A i \in 0..(w - 1) : i \in a <=> k * w + i \in x
      /\ \A i \in 0..(w - 1) : i \in b <=> k * w + i \in y
      /\ \A i \in 0..(w - 1) : i \in c <=> k * w + i \in Xor(x, y)
  BY <1>1, InWordAt
<1> HIDE DEF a, b, c
<1>3. \A i \in 0..(w - 1) : i \in c <=> i \in Xor(a, b)
  BY <1>2, InXor
<1>4. Xor(a, b) \in SUBSET (0..(w - 1))
  BY <1>2 DEF Xor
<1>5. c = Xor(a, b)
  BY <1>2, <1>3, <1>4
<1> QED BY <1>1, <1>5 DEF a, b, c

\* AB2 doubles each word of a region by itself.
LEMMA WordOfDouble ==
    ASSUME NEW F, IsGF(F), NEW x \in SUBSET Nat, NEW k \in Nat
    PROVE  /\ PackedDouble(F, x) \in SUBSET Nat
           /\ WordAt(F.w, PackedDouble(F, x), k) = Double(F, WordAt(F.w, x, k))
<1> DEFINE w == F.w
           moved == {i + 1 : i \in {j \in x : j % F.w # F.w - 1}}
           added == {i - F.w + 1 + p : i \in {j \in x : j % F.w = F.w - 1}, p \in F.poly}
           a == WordAt(F.w, x, k)
           m == k * F.w
<1>0. w \in Nat \ {0} /\ F.w \in Nat /\ F.w >= 1 /\ F.poly \in SUBSET (0..(F.w - 1)) /\ m \in Nat
  BY DEF IsGF
<1>1. ASSUME NEW j \in Nat
      PROVE  j = F.w * (j \div F.w) + (j % F.w) /\ j % F.w \in 0..(F.w - 1) /\ j \div F.w \in Nat
  BY <1>0, DivMod
<1>2. a \in SUBSET (0..(F.w - 1)) /\ \A i \in 0..(F.w - 1) : i \in a <=> m + i \in x
  BY <1>0, InWordAt
<1>3. PackedDouble(F, x) = Xor(moved, added)
  BY DEF PackedDouble
<1>4. \A j \in Nat : j % F.w = F.w - 1 => j - F.w + 1 = F.w * (j \div F.w) /\ j - F.w + 1 \in Nat
  <2> SUFFICES ASSUME NEW j \in Nat, j % F.w = F.w - 1
               PROVE  j - F.w + 1 = F.w * (j \div F.w) /\ j - F.w + 1 \in Nat
    OBVIOUS
  <2> DEFINE n == F.w * (j \div F.w)
  <2>1. j = n + (F.w - 1) /\ n \in Nat
    <3>1. j = n + (j % F.w) /\ j \div F.w \in Nat
      BY <1>1
    <3>2. n \in Nat
      <4> DEFINE q == j \div F.w
                 v == F.w
      <4>1. q \in Nat /\ v \in Nat
        BY <1>0, <3>1
      <4> HIDE DEF q, v
      <4>2. v * q \in Nat
        BY <4>1
      <4> QED BY <4>2 DEF q, v
    <3> HIDE DEF n
    <3> QED BY <1>0, <3>1, <3>2
  <2> HIDE DEF n
  <2>2. j - F.w + 1 = n
    BY <1>0, <2>1
  <2> QED BY <2>1, <2>2 DEF n
<1>5. moved \in SUBSET Nat /\ added \in SUBSET Nat
  <2>1. \A j \in Nat, p \in 0..(F.w - 1) : j % F.w = F.w - 1 => j - F.w + 1 + p \in Nat
    BY <1>0, <1>4
  <2> QED BY <1>0, <2>1
<1>6. \A i \in 0..(F.w - 1) : (m + i) \div F.w = k /\ (m + i) % F.w = i
  <2> SUFFICES ASSUME NEW i \in 0..(F.w - 1)
               PROVE  (m + i) \div F.w = k /\ (m + i) % F.w = i
    OBVIOUS
  <2>1. m = F.w * k
    BY <1>0
  <2> HIDE DEF m
  <2> QED BY <1>0, <2>1, DivModOf
<1>7. ASSUME NEW i \in 0..(F.w - 1) PROVE m + i \in moved <=> i # 0 /\ i - 1 \in a
  <2>1. ASSUME m + i \in moved PROVE i # 0 /\ i - 1 \in a
    <3>1. PICK j \in x : j % F.w # F.w - 1 /\ m + i = j + 1
      BY <2>1
    <3>2. i # 0
      <4> SUFFICES ASSUME i = 0 PROVE FALSE
        OBVIOUS
      <4>1. j = m - 1 /\ j \in Nat /\ k >= 1
        BY <1>0, <3>1
      <4>2. k - 1 \in Nat /\ j = F.w * (k - 1) + (F.w - 1)
        BY <1>0, <4>1
      <4>3. F.w - 1 \in 0..(F.w - 1)
        BY <1>0
      <4>4. j % F.w = F.w - 1
        BY <1>0, <4>2, <4>3, DivModOf
      <4> QED BY <3>1, <4>4
    <3>3. j = m + (i - 1) /\ i - 1 \in 0..(F.w - 1)
      <4>1. j \in Nat
        OBVIOUS
      <4> HIDE DEF m
      <4> QED BY <1>0, <3>1, <3>2, <4>1
    <3> QED BY <1>2, <3>2, <3>3
  <2>2. ASSUME i # 0, i - 1 \in a PROVE m + i \in moved
    <3>1. i - 1 \in 0..(F.w - 1) /\ m + (i - 1) \in x /\ (m + (i - 1)) + 1 = m + i /\ i - 1 # F.w - 1
      BY <1>0, <1>2, <2>2
    <3>2. (m + (i - 1)) % F.w = i - 1
      BY <1>6, <3>1
    <3> QED BY <3>1, <3>2
  <2> QED BY <2>1, <2>2
<1>8. ASSUME NEW i \in 0..(F.w - 1) PROVE m + i \in added <=> F.w - 1 \in a /\ i \in F.poly
  <2>1. ASSUME m + i \in added PROVE F.w - 1 \in a /\ i \in F.poly
    <3>1. PICK j \in x, p \in F.poly : j % F.w = F.w - 1 /\ m + i = j - F.w + 1 + p
      BY <2>1
    <3>2. p \in 0..(F.w - 1) /\ j \in Nat
      BY <1>0
    <3>3. j - F.w + 1 = F.w * (j \div F.w) /\ j \div F.w \in Nat
      BY <1>1, <1>4, <3>1, <3>2
    <3> DEFINE n == j \div F.w
    <3>4. m = F.w * k /\ n \in Nat /\ j - F.w + 1 = F.w * n /\ p \in 0..(F.w - 1)
      BY <1>0, <3>2, <3>3
    <3>5. F.w * k + i = F.w * n + p
      BY <3>1, <3>4
    <3> HIDE DEF m, n
    <3>6. k = n /\ i = p
      BY <1>0, <3>4, <3>5, SameParts
    <3>8. j = m + (F.w - 1)
      BY <1>0, <3>2, <3>4, <3>6
    <3>7. F.w - 1 \in 0..(F.w - 1)
      BY <1>0
    <3> QED BY <1>2, <3>6, <3>7, <3>8
  <2>2. ASSUME F.w - 1 \in a, i \in F.poly PROVE m + i \in added
    <3>1. F.w - 1 \in 0..(F.w - 1) /\ m + (F.w - 1) \in x
      BY <1>0, <1>2, <2>2
    <3>2. (m + (F.w - 1)) % F.w = F.w - 1
      BY <1>6, <3>1
    <3>3. (m + (F.w - 1)) - F.w + 1 + i = m + i
      <4> HIDE DEF m
      <4> QED BY <1>0
    <3> DEFINE top == m + (F.w - 1)
               tops == {j \in x : j % F.w = F.w - 1}
    <3>4. top \in tops /\ top - F.w + 1 + i = m + i
      BY <3>1, <3>2, <3>3
    <3> HIDE DEF top, tops, m
    <3>5. m + i \in {j - F.w + 1 + p : j \in tops, p \in F.poly}
      BY <2>2, <3>4
    <3> QED BY <3>5 DEF tops
  <2> QED BY <2>1, <2>2
<1> HIDE DEF moved, added, m
<1>9. PackedDouble(F, x) \in SUBSET Nat
  BY <1>3, <1>5 DEF Xor
<1> DEFINE b == WordAt(F.w, PackedDouble(F, x), k)
           d == Double(F, a)
<1>10. b \in SUBSET (0..(F.w - 1)) /\ \A i \in 0..(F.w - 1) : i \in b <=> m + i \in PackedDouble(F, x)
  BY <1>0, <1>9, InWordAt DEF m
<1>11. d \in SUBSET (0..(F.w - 1))
  <2>1. a \in Words(F)
    BY <1>2 DEF Words
  <2> HIDE DEF a
  <2> QED BY <2>1, DoubleWord DEF Words
<1> HIDE DEF a, b
<1>12. ASSUME NEW i \in 0..(F.w - 1) PROVE i \in Shl(a, 1) <=> i # 0 /\ i - 1 \in a
  BY <1>2 DEF Shl
<1>13. ASSUME NEW i \in 0..(F.w - 1)
       PROVE  i \in d <=> ~(i \in Shl(a, 1) <=> F.w - 1 \in a /\ i \in F.poly)
  <2>1. i < F.w
    BY <1>0
  <2> QED BY <2>1 DEF Double, Cut, Xor
<1>14. \A i \in 0..(F.w - 1) : i \in b <=> i \in d
  BY <1>3, <1>7, <1>8, <1>10, <1>12, <1>13, InXor
<1> HIDE DEF d
<1>15. b = d
  BY <1>10, <1>11, <1>14
<1> QED BY <1>9, <1>15 DEF a, b, d

\* The words of a region are words of the field.
LEMMA WordIsWord ==
    ASSUME NEW F, IsGF(F), NEW x \in SUBSET Nat, NEW k \in Nat
    PROVE  WordAt(F.w, x, k) \in Words(F) /\ F.w \in Nat \ {0} /\ WordAt(F.w, Zero, k) = Zero
<1>1. F.w \in Nat \ {0}
  BY DEF IsGF
<1>2. WordAt(F.w, x, k) \in SUBSET (0..(F.w - 1))
  BY <1>1, InWordAt
<1> QED BY <1>1, <1>2 DEF Words, WordAt, Zero

\* BYTWO_p over a region: every word of it becomes its product, for every
\* number of words at a time.
THEOREM PackedBytwoPIsTimes ==
    ASSUME NEW F, IsGF(F), NEW val \in Words(F), NEW x \in SUBSET Nat, NEW k \in Nat
    PROVE  /\ PackedBytwoP(F, val, x) \in SUBSET Nat
           /\ WordAt(F.w, PackedBytwoP(F, val, x), k) = Times(F, val, WordAt(F.w, x, k))
<1> DEFINE Turn(q, i) == IF F.w - 1 - i \in val THEN Xor(PackedDouble(F, q), x) ELSE PackedDouble(F, q)
           Value(g, i) == IF i = 0 THEN Zero ELSE Turn(g[i - 1], i - 1)
           after == CHOOSE g : g = [i \in 0..F.w |-> Value(g, i)]
           S == SUBSET Nat
           t == [s \in S \X Nat |-> Turn(s[1], s[2])]
           b == WordAt(F.w, x, k)
<1>0. F.w \in Nat /\ F.w \in Nat \ {0} /\ Zero \in S /\ b \in Words(F) /\ WordAt(F.w, Zero, k) = Zero /\ x \in S
  BY WordIsWord DEF Zero
<1>1. PackedBytwoP(F, val, x) = after[F.w]
  BY DEF PackedBytwoP, Repeat
<1>2. ASSUME NEW q \in S, NEW i
      PROVE  /\ Turn(q, i) \in S
             /\ WordAt(F.w, Turn(q, i), k) =
                   IF F.w - 1 - i \in val THEN Xor(Double(F, WordAt(F.w, q, k)), b)
                                          ELSE Double(F, WordAt(F.w, q, k))
  <2> DEFINE d == PackedDouble(F, q)
  <2>1. d \in SUBSET Nat /\ WordAt(F.w, d, k) = Double(F, WordAt(F.w, q, k))
    BY WordOfDouble
  <2>2. Turn(q, i) = IF F.w - 1 - i \in val THEN Xor(d, x) ELSE d
    OBVIOUS
  <2> HIDE DEF d, Turn
  <2>3. Xor(d, x) \in SUBSET Nat /\ WordAt(F.w, Xor(d, x), k) = Xor(WordAt(F.w, d, k), b)
    BY <1>0, <2>1, WordAtXor
  <2> HIDE DEF b
  <2> QED BY <2>1, <2>2, <2>3
<1> HIDE DEF Turn, b
<1>3. t \in [S \X Nat -> S]
  <2>1. \A s \in S \X Nat : s[1] \in S
    OBVIOUS
  <2> HIDE DEF S
  <2> QED BY <1>2, <2>1
<1>4. PICK g : g \in [0..F.w -> S] /\ g[0] = Zero /\ \A i \in 0..F.w : i # 0 => g[i] = t[<<g[i - 1], i - 1>>]
  <2> HIDE DEF t, S
  <2>1. \E g : IsLoop(g, F.w, S, Zero, t)
    BY <1>0, <1>3, LoopExists
  <2> QED BY <2>1 DEF IsLoop
<1>5. g = [i \in 0..F.w |-> Value(g, i)]
  <2>1. \A i \in 0..F.w : i # 0 => i - 1 \in 0..F.w /\ i - 1 \in Nat
    BY <1>0
  <2> HIDE DEF S
  <2>2. \A i \in 0..F.w : i # 0 => t[<<g[i - 1], i - 1>>] = Turn(g[i - 1], i - 1)
    <3> SUFFICES ASSUME NEW i \in 0..F.w, i # 0
                 PROVE  t[<<g[i - 1], i - 1>>] = Turn(g[i - 1], i - 1)
      OBVIOUS
    <3>1. <<g[i - 1], i - 1>> \in S \X Nat
      BY <1>4, <2>1
    <3> QED BY <3>1
  <2>3. \A i \in 0..F.w : g[i] = Value(g, i)
    <3> HIDE DEF t
    <3> QED BY <1>4, <2>2
  <2> HIDE DEF Value, t
  <2> QED BY <1>4, <2>3
<1>6. after = [i \in 0..F.w |-> Value(after, i)]
  <2> HIDE DEF Value
  <2> QED BY <1>5
<1> HIDE DEF after, t
<1> DEFINE G == {i \in 0..F.w : /\ after[i] \in S
                               /\ WordAt(F.w, after[i], k) = Reduced(F, OfHighest(F, val, b, i))}
<1>7. 0 \in G
  <2>1. after[0] = Value(after, 0)
    <3> HIDE DEF Value
    <3> QED BY <1>0, <1>6
  <2>2. after[0] = Zero /\ 0 \in 0..F.w
    BY <1>0, <2>1
  <2>3. Reduced(F, OfHighest(F, val, b, 0)) = Zero
    BY <1>0, EndsOfProduct
  <2> HIDE DEF S
  <2> QED BY <1>0, <2>2, <2>3
<1>8. ASSUME NEW i \in 0..(F.w - 1), i \in G PROVE i + 1 \in G
  <2>1. i + 1 \in 0..F.w /\ i + 1 # 0 /\ (i + 1) - 1 = i
    BY <1>0
  <2>2. after[i + 1] = Turn(after[i], i)
    BY <1>6, <2>1
  <2>3. after[i] \in S /\ WordAt(F.w, after[i], k) = Reduced(F, OfHighest(F, val, b, i))
    BY <1>8
  <2> HIDE DEF S, G
  <2>4. /\ Turn(after[i], i) \in S
        /\ WordAt(F.w, Turn(after[i], i), k) =
              IF F.w - 1 - i \in val THEN Xor(Double(F, WordAt(F.w, after[i], k)), b)
                                     ELSE Double(F, WordAt(F.w, after[i], k))
    BY <1>2, <2>3
  <2>5. Reduced(F, OfHighest(F, val, b, i + 1)) =
            IF F.w - 1 - i \in val THEN Xor(Double(F, Reduced(F, OfHighest(F, val, b, i))), b)
                                   ELSE Double(F, Reduced(F, OfHighest(F, val, b, i)))
    BY <1>0, NextOfProduct
  <2>6. WordAt(F.w, Turn(after[i], i), k) = Reduced(F, OfHighest(F, val, b, i + 1))
    BY <2>3, <2>4, <2>5
  <2> QED BY <2>1, <2>2, <2>4, <2>6 DEF G
<1> HIDE DEF G
<1>9. F.w \in G
  BY <1>0, <1>7, <1>8, LoopKeeps
<1>10. after[F.w] \in S /\ WordAt(F.w, after[F.w], k) = Reduced(F, OfHighest(F, val, b, F.w))
  BY <1>9 DEF G
<1>11. OfHighest(F, val, b, F.w) = Product(val, b)
  BY <1>0, EndsOfProduct
<1> QED BY <1>1, <1>10, <1>11 DEF Times, b

\* BYTWO_b over a region, likewise.
THEOREM PackedBytwoBIsTimes ==
    ASSUME NEW F, IsGF(F), NEW val \in Words(F), NEW x \in SUBSET Nat, NEW k \in Nat
    PROVE  /\ PackedBytwoB(F, val, x) \in SUBSET Nat
           /\ WordAt(F.w, PackedBytwoB(F, val, x), k) = Times(F, val, WordAt(F.w, x, k))
<1> DEFINE Turn(s, i) == [prod |-> IF i \in val THEN Xor(s.prod, s.va) ELSE s.prod,
                          va   |-> PackedDouble(F, s.va)]
           first == [prod |-> Zero, va |-> x]
           Value(g, i) == IF i = 0 THEN first ELSE Turn(g[i - 1], i - 1)
           after == CHOOSE g : g = [i \in 0..F.w |-> Value(g, i)]
           S == [prod : SUBSET Nat, va : SUBSET Nat]
           t == [s \in S \X Nat |-> Turn(s[1], s[2])]
           b == WordAt(F.w, x, k)
           Good(s, i) == /\ WordAt(F.w, s.prod, k) = Reduced(F, OfLowest(val, b, i))
                         /\ WordAt(F.w, s.va, k) = Reduced(F, Shl(b, i))
<1>0. /\ F.w \in Nat /\ F.w \in Nat \ {0} /\ first \in S /\ b \in Words(F)
      /\ WordAt(F.w, Zero, k) = Zero /\ first.prod = Zero /\ first.va = x
  BY WordIsWord DEF Zero
<1>1. PackedBytwoB(F, val, x) = after[F.w].prod
  BY DEF PackedBytwoB, Repeat
<1> HIDE DEF first
<1>2. ASSUME NEW q \in S, NEW i
      PROVE  /\ Turn(q, i) \in S
             /\ WordAt(F.w, Turn(q, i).prod, k) =
                   IF i \in val THEN Xor(WordAt(F.w, q.prod, k), WordAt(F.w, q.va, k))
                                ELSE WordAt(F.w, q.prod, k)
             /\ WordAt(F.w, Turn(q, i).va, k) = Double(F, WordAt(F.w, q.va, k))
  <2> DEFINE d == PackedDouble(F, q.va)
             e == Xor(q.prod, q.va)
  <2>0. q.prod \in SUBSET Nat /\ q.va \in SUBSET Nat
    OBVIOUS
  <2>1. d \in SUBSET Nat /\ WordAt(F.w, d, k) = Double(F, WordAt(F.w, q.va, k))
    BY <2>0, WordOfDouble
  <2>2. e \in SUBSET Nat /\ WordAt(F.w, e, k) = Xor(WordAt(F.w, q.prod, k), WordAt(F.w, q.va, k))
    BY <1>0, <2>0, WordAtXor
  <2>3. Turn(q, i) = [prod |-> IF i \in val THEN e ELSE q.prod, va |-> d]
    OBVIOUS
  <2> HIDE DEF d, e, Turn
  <2> QED BY <2>0, <2>1, <2>2, <2>3
<1> HIDE DEF Turn, b
<1>3. t \in [S \X Nat -> S]
  <2>1. \A s \in S \X Nat : s[1] \in S
    OBVIOUS
  <2> HIDE DEF S
  <2> QED BY <1>2, <2>1
<1>4. PICK g : g \in [0..F.w -> S] /\ g[0] = first /\ \A i \in 0..F.w : i # 0 => g[i] = t[<<g[i - 1], i - 1>>]
  <2> HIDE DEF t, S
  <2>1. \E g : IsLoop(g, F.w, S, first, t)
    BY <1>0, <1>3, LoopExists
  <2> QED BY <2>1 DEF IsLoop
<1>5. g = [i \in 0..F.w |-> Value(g, i)]
  <2>1. \A i \in 0..F.w : i # 0 => i - 1 \in 0..F.w /\ i - 1 \in Nat
    BY <1>0
  <2> HIDE DEF S
  <2>2. \A i \in 0..F.w : i # 0 => t[<<g[i - 1], i - 1>>] = Turn(g[i - 1], i - 1)
    <3> SUFFICES ASSUME NEW i \in 0..F.w, i # 0
                 PROVE  t[<<g[i - 1], i - 1>>] = Turn(g[i - 1], i - 1)
      OBVIOUS
    <3>1. <<g[i - 1], i - 1>> \in S \X Nat
      BY <1>4, <2>1
    <3> QED BY <3>1
  <2>3. \A i \in 0..F.w : g[i] = Value(g, i)
    <3> HIDE DEF t
    <3> QED BY <1>4, <2>2
  <2> HIDE DEF Value, t
  <2> QED BY <1>4, <2>3
<1>6. after = [i \in 0..F.w |-> Value(after, i)]
  <2> HIDE DEF Value
  <2> QED BY <1>5
<1> HIDE DEF after, t
<1> DEFINE G == {i \in 0..F.w : after[i] \in S /\ Good(after[i], i)}
<1>7. 0 \in G
  <2>1. after[0] = Value(after, 0)
    <3> HIDE DEF Value
    <3> QED BY <1>0, <1>6
  <2>2. after[0] = first /\ 0 \in 0..F.w
    BY <1>0, <2>1
  <2>3. OfLowest(val, b, 0) = Zero /\ Reduced(F, Zero) = Zero /\ Reduced(F, Shl(b, 0)) = b
    BY <1>0, EndsOfProduct
  <2>4. Good(first, 0)
    BY <1>0, <2>3 DEF b
  <2> HIDE DEF S, Good
  <2> QED BY <1>0, <2>2, <2>4
<1>8. ASSUME NEW i \in 0..(F.w - 1), i \in G PROVE i + 1 \in G
  <2> DEFINE q == after[i]
             low == OfLowest(val, b, i)
  <2>1. i + 1 \in 0..F.w /\ i + 1 # 0 /\ (i + 1) - 1 = i
    BY <1>0
  <2>2. after[i + 1] = Turn(q, i)
    BY <1>6, <2>1
  <2>3. q \in S /\ Good(q, i)
    BY <1>8
  <2> HIDE DEF S, G, q
  <2>4. /\ Turn(q, i) \in S
        /\ WordAt(F.w, Turn(q, i).prod, k) =
              IF i \in val THEN Xor(WordAt(F.w, q.prod, k), WordAt(F.w, q.va, k))
                           ELSE WordAt(F.w, q.prod, k)
        /\ WordAt(F.w, Turn(q, i).va, k) = Double(F, WordAt(F.w, q.va, k))
    BY <1>2, <2>3
  <2>5. /\ OfLowest(val, b, i + 1) = IF i \in val THEN Xor(low, Shl(b, i)) ELSE low
        /\ low \in SUBSET (0..(2 * F.w)) /\ Shl(b, i) \in SUBSET (0..(2 * F.w))
        /\ Reduced(F, Shl(b, i + 1)) = Double(F, Reduced(F, Shl(b, i)))
    BY <1>0, NextOfProduct
  <2> HIDE DEF low
  <2>6. Reduced(F, Xor(low, Shl(b, i))) = Xor(Reduced(F, low), Reduced(F, Shl(b, i)))
    BY <2>5, ReducedSum
  <2>7. Good(Turn(q, i), i + 1)
    BY <2>3, <2>4, <2>5, <2>6 DEF low
  <2> HIDE DEF Good
  <2> QED BY <2>1, <2>2, <2>4, <2>7 DEF G
<1> HIDE DEF G
<1>9. F.w \in G
  BY <1>0, <1>7, <1>8, LoopKeeps
<1>10. after[F.w].prod \in SUBSET Nat /\ WordAt(F.w, after[F.w].prod, k) = Reduced(F, OfLowest(val, b, F.w))
  BY <1>9 DEF G
<1>11. OfLowest(val, b, F.w) = Product(val, b)
  BY <1>0, EndsOfProduct
<1> QED BY <1>1, <1>10, <1>11 DEF Times, b

\* A set of bits is the words it consists of.
LEMMA SameWord ==
    ASSUME NEW w \in Nat \ {0}, NEW a \in SUBSET (0..(w - 1)), NEW b \in SUBSET (0..(w - 1)),
           \A i \in 0..(w - 1) : i \in a <=> i \in b
    PROVE  a = b
OBVIOUS

\* PerWord does to every word what op does.
LEMMA WordOfPerWord ==
    ASSUME NEW w \in Nat \ {0}, NEW x \in SUBSET Nat, NEW op, NEW k \in Nat,
           \A s \in SUBSET (0..(w - 1)) : op[s] \in SUBSET (0..(w - 1)), op[{}] = {}
    PROVE  /\ PerWord(w, x, op) \in SUBSET Nat
           /\ WordAt(w, PerWord(w, x, op), k) = op[WordAt(w, x, k)]
<1> DEFINE p == PerWord(w, x, op)
           Part(q) == Shl(op[WordAt(w, x, q)], q * w)
<1>1. \A j \in Nat : j \div w \in Nat
  BY DivMod
<1>2. \A q \in Nat : op[WordAt(w, x, q)] \in SUBSET (0..(w - 1))
  BY InWordAt
<1>3. \A n : n \in p <=> \E j \in x : n \in Part(j \div w)
  BY DEF PerWord
<1>4. \A n, q : n \in Part(q) <=> \E m \in op[WordAt(w, x, q)] : n = m + q * w
  BY DEF Shl
<1> HIDE DEF p, Part
<1>5. p \in SUBSET Nat
  <2> SUFFICES ASSUME NEW n \in p PROVE n \in Nat
    OBVIOUS
  <2>1. PICK j \in x : n \in Part(j \div w)
    BY <1>3
  <2> DEFINE q == j \div w
  <2>2. q \in Nat
    BY <1>1
  <2> HIDE DEF q
  <2>3. PICK m \in op[WordAt(w, x, q)] : n = m + q * w
    BY <1>4, <2>1 DEF q
  <2>4. m \in 0..(w - 1)
    BY <1>2, <2>2
  <2> QED BY <2>2, <2>3, <2>4
<1>6. ASSUME NEW i \in 0..(w - 1) PROVE k * w + i \in p <=> i \in op[WordAt(w, x, k)]
  <2>1. ASSUME k * w + i \in p PROVE i \in op[WordAt(w, x, k)]
    <3>1. PICK j \in x : k * w + i \in Part(j \div w)
      BY <1>3, <2>1
    <3> DEFINE q == j \div w
    <3>2. q \in Nat
      BY <1>1
    <3> HIDE DEF q
    <3>3. PICK m \in op[WordAt(w, x, q)] : k * w + i = m + q * w
      BY <1>4, <3>1 DEF q
    <3>4. m \in 0..(w - 1)
      BY <1>2, <3>2
    <3>5. w * k + i = w * q + m
      BY <3>2, <3>3, <3>4
    <3>6. k = q /\ i = m
      BY <3>2, <3>4, <3>5, SameParts
    <3> QED BY <3>3, <3>6
  <2>2. ASSUME i \in op[WordAt(w, x, k)] PROVE k * w + i \in p
    <3>1. PICK j \in x : j \div w = k
      <4>1. WordAt(w, x, k) # {}
        BY <2>2
      <4> QED BY <4>1 DEF WordAt
    <3>2. k * w + i = i + k * w
      OBVIOUS
    <3>3. k * w + i \in Part(k)
      BY <1>4, <2>2, <3>2
    <3> QED BY <1>3, <3>1, <3>3
  <2> QED BY <2>1, <2>2
<1>7. /\ WordAt(w, p, k) \in SUBSET (0..(w - 1))
      /\ \A i \in 0..(w - 1) : i \in WordAt(w, p, k) <=> k * w + i \in p
  BY <1>5, InWordAt
<1>8. WordAt(w, p, k) = op[WordAt(w, x, k)]
  <2>1. op[WordAt(w, x, k)] \in SUBSET (0..(w - 1))
    BY <1>2
  <2>2. \A i \in 0..(w - 1) : i \in WordAt(w, p, k) <=> i \in op[WordAt(w, x, k)]
    BY <1>6, <1>7
  <2> QED BY <1>7, <2>1, <2>2, SameWord
<1> QED BY <1>5, <1>8 DEF p

\* The bits of x from m on and before n.
Between(x, m, n) == {i \in x : m <= i /\ i < n}

\* The words of the bits between two words' beginnings.
LEMMA WordOfPart ==
    ASSUME NEW w \in Nat \ {0}, NEW x \in SUBSET Nat, NEW k \in Nat, NEW m \in Nat, NEW n \in Nat
    PROVE  WordAt(w, Between(x, m * w, n * w), k)
             = IF m <= k /\ k < n THEN WordAt(w, x, k) ELSE {}
<1> DEFINE part == Between(x, m * w, n * w)
<1>1. ASSUME NEW i \in x, i \div w = k PROVE m * w <= i /\ i < n * w <=> m <= k /\ k < n
  <2>1. i = w * k + (i % w) /\ i % w \in 0..(w - 1)
    BY <1>1, DivMod
  <2> DEFINE r == i % w
  <2>2. i = w * k + r /\ r \in Nat /\ r < w
    BY <2>1
  <2> HIDE DEF r
  <2>3. m <= k => m * w <= w * k
    OBVIOUS
  <2>4. k < n => w * k + w <= n * w
    <3>1. k < n => w * (k + 1) <= n * w
      OBVIOUS
    <3>2. w * (k + 1) = w * k + w
      OBVIOUS
    <3> QED BY <3>1, <3>2
  <2>5. k < m => w * k + w <= m * w
    <3>1. k < m => w * (k + 1) <= m * w
      OBVIOUS
    <3>2. w * (k + 1) = w * k + w
      OBVIOUS
    <3> QED BY <3>1, <3>2
  <2>6. n <= k => n * w <= w * k
    OBVIOUS
  <2>7. w * k \in Nat /\ m * w \in Nat /\ n * w \in Nat
    OBVIOUS
  <2>8. m * w <= i <=> m <= k
    BY <2>2, <2>3, <2>5, <2>7
  <2>9. i < n * w <=> k < n
    BY <2>2, <2>4, <2>6, <2>7
  <2> QED BY <2>8, <2>9
<1>2. {j \in part : j \div w = k} = IF m <= k /\ k < n THEN {j \in x : j \div w = k} ELSE {}
  BY <1>1 DEF Between
<1> HIDE DEF part
<1> QED BY <1>2 DEF part, WordAt

\* The words of y are those of x from word m on.
From(w, x, y, m) == y \in SUBSET Nat /\ \A k \in Nat : WordAt(w, y, k) = WordAt(w, x, k + m)

\* A region moved down by whole words.
LEMMA WordMovedDown ==
    ASSUME NEW w \in Nat \ {0}, NEW x \in SUBSET Nat, NEW m \in Nat, NEW n, n = m * w
    PROVE  From(w, x, Shr(x, n), m)
<1> DEFINE down == Shr(x, n)
<1>0. n \in Nat
  OBVIOUS
<1>1. down \in SUBSET Nat
  BY <1>0 DEF Shr
<1>2. ASSUME NEW j \in Nat PROVE j \in down <=> j + n \in x
  <2>1. ASSUME j \in down PROVE j + n \in x
    <3>1. PICK i \in x : j = i - n /\ i >= n
      BY <2>1 DEF Shr
    <3>2. i = j + n
      BY <1>0, <3>1
    <3> QED BY <3>2
  <2>2. ASSUME j + n \in x PROVE j \in down
    <3>1. j + n >= n /\ j = (j + n) - n
      BY <1>0
    <3> QED BY <2>2, <3>1 DEF Shr
  <2> QED BY <2>1, <2>2
<1> HIDE DEF down
<1>3. ASSUME NEW k \in Nat PROVE WordAt(w, down, k) = WordAt(w, x, k + m)
  <2>1. /\ WordAt(w, down, k) \in SUBSET (0..(w - 1))
        /\ \A i \in 0..(w - 1) : i \in WordAt(w, down, k) <=> k * w + i \in down
    BY <1>1, InWordAt
  <2>2. k + m \in Nat
    OBVIOUS
  <2>3. /\ WordAt(w, x, k + m) \in SUBSET (0..(w - 1))
        /\ \A i \in 0..(w - 1) : i \in WordAt(w, x, k + m) <=> (k + m) * w + i \in x
    BY <2>2, InWordAt
  <2>4. (k + m) * w = k * w + n /\ k * w \in Nat
    BY <1>0
  <2>5. \A i \in 0..(w - 1) : k * w + i \in Nat /\ (k * w + i) + n = (k + m) * w + i
    <3> DEFINE kw == k * w
    <3>1. kw \in Nat /\ (k + m) * w = kw + n
      BY <2>4
    <3> HIDE DEF kw
    <3>2. \A i \in 0..(w - 1) : kw + i \in Nat /\ (kw + i) + n = (kw + n) + i
      BY <1>0, <3>1
    <3> QED BY <3>1, <3>2 DEF kw
  <2>6. \A i \in 0..(w - 1) : i \in WordAt(w, down, k) <=> i \in WordAt(w, x, k + m)
    BY <1>2, <2>1, <2>3, <2>5
  <2> QED BY <2>1, <2>3, <2>6, SameWord
<1> QED BY <1>1, <1>3 DEF down, From

\* A region moved up by whole words.
LEMMA WordMovedUp ==
    ASSUME NEW w \in Nat \ {0}, NEW x \in SUBSET Nat, NEW m \in Nat, NEW n, n = m * w
    PROVE  /\ Shl(x, n) \in SUBSET Nat
           /\ \A k \in Nat : WordAt(w, Shl(x, n), k) = IF m <= k THEN WordAt(w, x, k - m) ELSE {}
<1> DEFINE up == Shl(x, n)
<1>0. n \in Nat
  OBVIOUS
<1>1. up \in SUBSET Nat
  BY <1>0 DEF Shl
<1>2. \A j \in Nat : j \in up <=> j >= n /\ j - n \in x
  BY <1>0 DEF Shl
<1> HIDE DEF up
<1>3. ASSUME NEW k \in Nat PROVE WordAt(w, up, k) = IF m <= k THEN WordAt(w, x, k - m) ELSE {}
  <2>1. /\ WordAt(w, up, k) \in SUBSET (0..(w - 1))
        /\ \A i \in 0..(w - 1) : i \in WordAt(w, up, k) <=> k * w + i \in up
    BY <1>1, InWordAt
  <2>2. CASE m <= k
    <3>1. k - m \in Nat
      BY <2>2
    <3>2. /\ WordAt(w, x, k - m) \in SUBSET (0..(w - 1))
          /\ \A i \in 0..(w - 1) : i \in WordAt(w, x, k - m) <=> (k - m) * w + i \in x
      BY <3>1, InWordAt
    <3>3. \A i \in 0..(w - 1) : k * w + i \in Nat /\ k * w + i >= n /\ (k * w + i) - n = (k - m) * w + i
      <4> DEFINE kw == k * w
                 dw == (k - m) * w
      <4>1. kw \in Nat /\ dw \in Nat /\ kw = dw + n
        BY <1>0, <3>1
      <4> HIDE DEF kw, dw
      <4>2. \A i \in 0..(w - 1) : kw + i \in Nat /\ kw + i >= n /\ (kw + i) - n = dw + i
        BY <1>0, <4>1
      <4> QED BY <4>2 DEF kw, dw
    <3>4. \A i \in 0..(w - 1) : i \in WordAt(w, up, k) <=> i \in WordAt(w, x, k - m)
      BY <1>2, <2>1, <3>2, <3>3
    <3>5. WordAt(w, up, k) = WordAt(w, x, k - m)
      BY <2>1, <3>2, <3>4, SameWord
    <3> QED BY <2>2, <3>5
  <2>3. CASE ~(m <= k)
    <3>1. \A i \in 0..(w - 1) : k * w + i \in Nat /\ k * w + i < n
      <4> DEFINE kw == k * w
      <4>1. kw \in Nat /\ kw + w <= n
        <5>1. (k + 1) * w <= m * w
          BY <2>3
        <5>2. (k + 1) * w = k * w + w /\ k * w \in Nat
          OBVIOUS
        <5> QED BY <1>0, <5>1, <5>2
      <4> HIDE DEF kw
      <4>2. \A i \in 0..(w - 1) : kw + i \in Nat /\ kw + i < n
        BY <1>0, <4>1
      <4> QED BY <4>2 DEF kw
    <3>2. \A j \in Nat : j < n => j \notin up
      BY <1>0, <1>2
    <3>3. \A i \in 0..(w - 1) : i \notin WordAt(w, up, k)
      BY <2>1, <3>1, <3>2
    <3>4. WordAt(w, up, k) = {}
      BY <2>1, <3>3
    <3> QED BY <2>3, <3>4
  <2> QED BY <2>2, <2>3
<1> QED BY <1>1, <1>3 DEF up

\* The words of two regions put together.
LEMMA WordOfUnion ==
    \A w, x, y, k : WordAt(w, x \cup y, k) = WordAt(w, x, k) \cup WordAt(w, y, k)
BY DEF WordAt

\* What divides both divides the remainder.
LEMMA RemainderKeeps ==
    ASSUME NEW c \in {1, 2}, NEW n \in Nat, NEW d \in Nat \ {0}, n % c = 0, d % c = 0
    PROVE  /\ (n % d) % c = 0 /\ n % d \in Nat /\ n % d < d /\ n % d <= n
<1> DEFINE q == n \div d
           s == n % d
           f == d \div c
           g == n \div c
<1>0. c \in Nat \ {0}
  OBVIOUS
<1>1. n = d * q + s /\ s \in 0..(d - 1) /\ q \in Nat
  BY DivMod
<1>2. d = c * f + (d % c) /\ n = c * g + (n % c) /\ f \in Nat /\ g \in Nat
  BY <1>0, DivMod
<1> HIDE DEF q, f, g, s
<1>3. d = c * f /\ n = c * g /\ s \in Nat /\ s < d
  BY <1>0, <1>1, <1>2
<1> DEFINE h == f * q
<1>4. h \in Nat /\ (c * f) * q = c * h
  BY <1>0, <1>1, <1>2
<1> HIDE DEF h
<1>5. d * q = c * h /\ c * h \in Nat
  BY <1>0, <1>3, <1>4
<1>6. s = c * g - c * h
  BY <1>1, <1>3, <1>5
<1>7. s % c = 0 /\ s <= n
  BY <1>1, <1>2, <1>3, <1>4, <1>5, <1>6
<1> QED BY <1>3, <1>7 DEF s

\* What a call for a region needs: the words fill bytes, the vectors words, the
\* region has whole words and its middle does not start beyond its end.
RegionCall(w, rd, align) ==
    /\ w \in {4, 8, 16} /\ align \in Nat \ {0} /\ align % WordBytes(w) = 0
    /\ rd.at \in Nat /\ rd.bytes \in Nat /\ rd.xor \in BOOLEAN
    /\ rd.src \in SUBSET (0..(8 * rd.bytes - 1)) /\ rd.dest \in SUBSET Nat
    /\ Aligned(w, rd, align)
    /\ GfSetRegionData(rd, align).start <= rd.bytes

\* The middle begins and ends with a word.
LEMMA SpanOfWords ==
    ASSUME NEW w, NEW rd, NEW align, RegionCall(w, rd, align)
    PROVE  \E m, n, e \in Nat : /\ 8 * GfSetRegionData(rd, align).start = m * w
                                /\ 8 * GfSetRegionData(rd, align).top = n * w
                                /\ 8 * rd.bytes = e * w /\ m <= n /\ n <= e
<1> DEFINE c == WordBytes(w)
           a == IF align <= 16 THEN align ELSE 16
           gap == IF rd.at % a = 0 THEN 0 ELSE a - (rd.at % a)
           left == rd.bytes - gap
           r == left % align
           u == IF w = 4 THEN 2 ELSE 1
<1>0. w \in Nat \ {0} /\ align \in Nat \ {0} /\ rd.at \in Nat /\ rd.bytes \in Nat
  BY DEF RegionCall
<1>1. c \in {1, 2} /\ c \in Nat \ {0} /\ u \in Nat /\ 8 * c = u * w
  BY DEF RegionCall, WordBytes
<1>2. align % c = 0 /\ rd.at % c = 0 /\ rd.bytes % c = 0 /\ gap <= rd.bytes
  BY DEF RegionCall, Aligned, GfSetRegionData
<1>3. a \in Nat \ {0} /\ a % c = 0
  BY <1>0, <1>1, <1>2
<1>4. gap \in Nat /\ gap % c = 0
  <2> DEFINE s == rd.at % a
  <2>1. s % c = 0 /\ s \in Nat /\ s < a
    <3> HIDE DEF a, c
    <3> QED BY <1>0, <1>1, <1>2, <1>3, RemainderKeeps
  <2>2. gap = 0 \/ gap = a - s
    OBVIOUS
  <2> HIDE DEF gap, s, a, c
  <2> QED BY <1>1, <1>3, <2>1, <2>2
<1> HIDE DEF gap, a, c, u
<1>5. left \in Nat /\ left % c = 0
  BY <1>0, <1>1, <1>2, <1>4
<1> HIDE DEF left
<1>6. r \in Nat /\ r <= left /\ r % c = 0
  BY <1>0, <1>1, <1>2, <1>5, RemainderKeeps
<1>7. GfSetRegionData(rd, align).start = gap /\ GfSetRegionData(rd, align).top = gap + left - r
  <2>1. Rem(left, align) = r
    BY <1>5 DEF Rem
  <2> QED BY <2>1 DEF GfSetRegionData, gap, left, a
<1>8. gap + left = rd.bytes
  BY <1>0, <1>4 DEF left
<1> HIDE DEF r
<1> DEFINE top == gap + left - r
<1>9. top \in Nat /\ top % c = 0 /\ gap <= top /\ top <= rd.bytes
  BY <1>0, <1>1, <1>4, <1>5, <1>6, <1>8
<1> HIDE DEF top
<1>10. ASSUME NEW s \in Nat, s % c = 0 PROVE 8 * s = ((s \div c) * u) * w /\ (s \div c) * u \in Nat
  <2>1. s = c * (s \div c) + (s % c) /\ s \div c \in Nat
    BY <1>1, DivMod
  <2> DEFINE q == s \div c
  <2>2. s = c * q /\ q \in Nat
    BY <1>1, <1>10, <2>1
  <2> HIDE DEF q
  <2>3. 8 * s = q * (8 * c)
    BY <1>1, <2>2
  <2>4. q * (u * w) = (q * u) * w /\ q * u \in Nat
    BY <1>0, <1>1, <2>2
  <2> QED BY <1>1, <2>3, <2>4 DEF q
<1> DEFINE M(s) == (s \div c) * u
<1>11. ASSUME NEW s \in Nat, NEW q \in Nat, s % c = 0, q % c = 0, s <= q PROVE M(s) <= M(q)
  <2>1. 8 * s = M(s) * w /\ 8 * q = M(q) * w /\ M(s) \in Nat /\ M(q) \in Nat
    BY <1>10, <1>11
  <2> HIDE DEF M
  <2>2. M(s) * w <= M(q) * w
    BY <1>11, <2>1
  <2>3. M(q) < M(s) => M(q) * w < M(s) * w
    BY <1>0, <2>1
  <2>4. M(s) * w \in Nat /\ M(q) * w \in Nat
    BY <1>0, <2>1
  <2> QED BY <2>1, <2>2, <2>3, <2>4
<1>12. /\ M(gap) \in Nat /\ M(top) \in Nat /\ M(rd.bytes) \in Nat
       /\ 8 * gap = M(gap) * w /\ 8 * top = M(top) * w /\ 8 * rd.bytes = M(rd.bytes) * w
       /\ M(gap) <= M(top) /\ M(top) <= M(rd.bytes)
  <2>1. /\ M(gap) \in Nat /\ M(top) \in Nat /\ M(rd.bytes) \in Nat
        /\ 8 * gap = M(gap) * w /\ 8 * top = M(top) * w /\ 8 * rd.bytes = M(rd.bytes) * w
    BY <1>0, <1>2, <1>4, <1>9, <1>10
  <2> HIDE DEF M
  <2>2. M(gap) <= M(top)
    BY <1>4, <1>9, <1>11
  <2>3. M(top) <= M(rd.bytes)
    BY <1>0, <1>2, <1>9, <1>11
  <2> QED BY <2>1, <2>2, <2>3
<1> HIDE DEF M
<1> QED BY <1>7, <1>12 DEF top

-----------------------------------------------------------------------------
(* A multiplication of a region, in its parts. *)

\* What is done to the words of a width: a word to a word, and 0 to 0.
WordOp(w, op) == op[{}] = {} /\ \A s \in SUBSET (0..(w - 1)) : op[s] \in SUBSET (0..(w - 1))

\* The middle of a region done by what does op to every word at once.
Vectors(w, op, fast) ==
    \A y \in SUBSET Nat : /\ fast[y] \in SUBSET Nat
                          /\ \A j \in Nat : WordAt(w, fast[y], j) = op[WordAt(w, y, j)]

\* What the one-word multiplication of a method makes of the words of a region.
SlowOp(mult, val) == [s \in Bits |-> mult[<<val, s>>]]

\* A region done word by word, by one function of a word.
LEMMA SlowRegion ==
    \A w, rd, from, upTo, mult :
        GfSlowMultiplyRegion(w, rd, from, upTo, mult)
          = PerWord(w, {i \in rd.src : 8 * from <= i /\ i < 8 * upTo}, SlowOp(mult, rd.val))
BY Zenon DEF SlowOp, GfSlowMultiplyRegion

\* Word k of what a call leaves in the destination.
WordStored(w, rd, op, k) ==
    IF rd.xor THEN Xor(WordAt(w, rd.dest, k), op[WordAt(w, rd.src, k)]) ELSE op[WordAt(w, rd.src, k)]

\* A region done in its three parts, the words before the middle, the middle and
\* the words after it, has op done to each of its words once, wherever it begins.
LEMMA InPartsIs ==
    ASSUME NEW w, NEW rd, NEW align, RegionCall(w, rd, align), NEW op, WordOp(w, op),
           NEW mult, \A s \in SUBSET (0..(w - 1)) : SlowOp(mult, rd.val)[s] = op[s],
           NEW fast, Vectors(w, op, fast), NEW k \in Nat
    PROVE  WordAt(w, InParts(w, rd, align, mult, fast), k) = WordStored(w, rd, op, k)
<1> DEFINE span == GfSetRegionData(rd, align)
           a == 8 * span.start
           b == 8 * span.top
           x == Middle(rd.src, span)
           f == SlowOp(mult, rd.val)
           src == rd.src
           before == {i \in src : 8 * 0 <= i /\ i < a}
           after == {i \in src : b <= i /\ i < 8 * rd.bytes}
           p1 == PerWord(w, before, f)
           p2 == Shl(fast[Shr(x, a)], a)
           p3 == PerWord(w, after, f)
           v == WordAt(w, src, k)
<1>0. w \in Nat \ {0} /\ src \in SUBSET Nat /\ rd.bytes \in Nat /\ rd.dest \in SUBSET Nat
  BY DEF RegionCall
<1>1. PICK m, n, e \in Nat : a = m * w /\ b = n * w /\ 8 * rd.bytes = e * w /\ m <= n /\ n <= e
  BY SpanOfWords
<1>2. InParts(w, rd, align, mult, fast) = Stored(rd, UNION {p1, p2, p3})
  <2>1. /\ GfSlowMultiplyRegion(w, rd, 0, span.start, mult) = p1
        /\ GfSlowMultiplyRegion(w, rd, span.top, rd.bytes, mult) = p3
    BY SlowRegion
  <2>2. Aligned(w, rd, align)
    BY DEF RegionCall
  <2> QED BY <2>1, <2>2 DEF InParts
<1>3. x = {i \in src : a <= i /\ i < b}
  BY DEF Middle
<1> HIDE DEF a, b, x
<1>4. WordOp(w, f) /\ \A s \in SUBSET (0..(w - 1)) : f[s] = op[s]
  <2>1. {} \in SUBSET (0..(w - 1))
    OBVIOUS
  <2> HIDE DEF f
  <2>2. \A s \in SUBSET (0..(w - 1)) : f[s] = op[s]
    BY DEF f
  <2> QED BY <2>1, <2>2 DEF WordOp
<1> HIDE DEF f
<1>5. ASSUME NEW y \in SUBSET Nat
      PROVE  PerWord(w, y, f) \in SUBSET Nat /\ WordAt(w, PerWord(w, y, f), k) = op[WordAt(w, y, k)]
  <2>1. WordAt(w, y, k) \in SUBSET (0..(w - 1))
    BY <1>0, InWordAt
  <2>2. w \in Nat \ {0} /\ y \in SUBSET Nat /\ k \in Nat
    BY <1>0
  <2>3. f[{}] = {}
    BY <1>4 DEF WordOp
  <2>4. \A s \in SUBSET (0..(w - 1)) : f[s] \in SUBSET (0..(w - 1))
    BY <1>4 DEF WordOp
  <2>5. PerWord(w, y, f) \in SUBSET Nat /\ WordAt(w, PerWord(w, y, f), k) = f[WordAt(w, y, k)]
    BY ONLY <2>2, <2>3, <2>4, WordOfPerWord
  <2>6. \A s \in SUBSET (0..(w - 1)) : f[s] = op[s]
    BY ONLY <1>4
  <2>7. f[WordAt(w, y, k)] = op[WordAt(w, y, k)]
    BY ONLY <2>1, <2>6
  <2> QED BY ONLY <2>5, <2>7
<1>6. /\ WordAt(w, before, k) = IF k < m THEN v ELSE {}
      /\ WordAt(w, x, k) = IF m <= k /\ k < n THEN v ELSE {}
      /\ WordAt(w, after, k) = IF n <= k /\ k < e THEN v ELSE {}
      /\ v = {} \/ k < e
  <2>1. src \in SUBSET (0..(8 * rd.bytes - 1))
    BY DEF RegionCall
  <2> HIDE DEF src, v
  <2> DEFINE d == 8 * rd.bytes
  <2>2. d = e * w /\ a = m * w /\ b = n * w /\ src \in SUBSET (0..(d - 1))
    BY <1>1, <2>1
  <2>3. before = Between(src, 0, a) /\ after = Between(src, b, d)
    BY DEF Between
  <2> HIDE DEF d, before, after
  <2>4. x = Between(src, a, b)
    BY ONLY <1>3 DEF Between
  <2>5. /\ w \in Nat \ {0} /\ k \in Nat
        /\ m \in Nat /\ n \in Nat /\ e \in Nat
    BY <1>0
  <2>6. /\ WordAt(w, Between(src, 0, a), k) = IF k < m THEN WordAt(w, src, k) ELSE {}
        /\ WordAt(w, Between(src, a, b), k) = IF m <= k /\ k < n THEN WordAt(w, src, k) ELSE {}
        /\ WordAt(w, Between(src, b, d), k) = IF n <= k /\ k < e THEN WordAt(w, src, k) ELSE {}
        /\ WordAt(w, src, k) = {} \/ k < e
    <3> DEFINE Part(i, j, p, q) == WordAt(w, Between(src, i, j), k) = IF p <= k /\ k < q THEN WordAt(w, src, k) ELSE {}
    <3>1. src \in SUBSET Nat
      BY <1>0
    <3>2. Part(0 * w, m * w, 0, m)
      <4>1. 0 \in Nat
        OBVIOUS
      <4> QED BY ONLY <2>5, <3>1, <4>1, WordOfPart
    <3>3. Part(m * w, n * w, m, n) /\ Part(n * w, e * w, n, e)
      BY ONLY <2>5, <3>1, WordOfPart
    <3>4. Part(0 * w, e * w, 0, e)
      <4>1. 0 \in Nat
        OBVIOUS
      <4> QED BY ONLY <2>5, <3>1, <4>1, WordOfPart
    <3>5. 0 * w = 0 /\ 0 <= k
      BY ONLY <2>5
    <3>6. Between(src, 0, d) = src
      <4>1. \A i \in src : 0 <= i /\ i < d
        <5>1. rd.src \in SUBSET (0..(8 * rd.bytes - 1)) /\ rd.bytes \in Nat
          BY DEF RegionCall
        <5>2. \A i \in 0..(8 * rd.bytes - 1) : 0 <= i /\ i < 8 * rd.bytes
          BY ONLY <5>1
        <5> QED BY ONLY <5>1, <5>2 DEF d, src
      <4>2. Between(src, 0, d) = {i \in src : 0 <= i /\ i < d}
        BY ONLY DEF Between
      <4> HIDE DEF d
      <4> QED BY ONLY <4>1, <4>2, Zenon
    <3>7. Part(0, a, 0, m) /\ Part(a, b, m, n) /\ Part(b, d, n, e) /\ Part(0, d, 0, e)
      BY ONLY <2>2, <3>2, <3>3, <3>4, <3>5
    <3> QED BY ONLY <3>5, <3>6, <3>7
  <2> QED BY ONLY <2>3, <2>4, <2>6 DEF v
<1>7. before \in SUBSET Nat /\ after \in SUBSET Nat /\ x \in SUBSET Nat
  BY <1>0, <1>3
<1> HIDE DEF before, after, v
<1>9. p1 \in SUBSET Nat /\ WordAt(w, p1, k) = op[WordAt(w, before, k)]
  BY <1>5, <1>7
<1>10. p3 \in SUBSET Nat /\ WordAt(w, p3, k) = op[WordAt(w, after, k)]
  BY <1>5, <1>7
<1>11. p2 \in SUBSET Nat /\ WordAt(w, p2, k) = IF m <= k THEN op[WordAt(w, x, k)] ELSE {}
  <2> DEFINE y == Shr(x, a)
             z == fast[y]
  <2>0. w \in Nat \ {0} /\ x \in SUBSET Nat /\ m \in Nat /\ k \in Nat
    BY <1>0, <1>7
  <2>1. y \in SUBSET Nat /\ \A j \in Nat : WordAt(w, y, j) = WordAt(w, x, j + m)
    <3>1. a = m * w
      BY <1>1
    <3>2. From(w, x, Shr(x, a), m)
      BY ONLY <2>0, <3>1, WordMovedDown
    <3> QED BY ONLY <3>2 DEF y, From
  <2>2. z \in SUBSET Nat /\ \A j \in Nat : WordAt(w, z, j) = op[WordAt(w, y, j)]
    <3> HIDE DEF y
    <3> QED BY <2>1 DEF Vectors
  <2>3. p2 = Shl(z, m * w)
    BY <1>1
  <2> HIDE DEF y, z, p2
  <2>4. p2 \in SUBSET Nat /\ WordAt(w, p2, k) = IF m <= k THEN WordAt(w, z, k - m) ELSE {}
    <3>1. z \in SUBSET Nat
      BY <2>2
    <3> QED BY ONLY <2>0, <2>3, <3>1, WordMovedUp
  <2>5. m <= k => k - m \in Nat /\ (k - m) + m = k
    BY <1>1
  <2> QED BY <2>1, <2>2, <2>4, <2>5
<1> HIDE DEF p1, p2, p3, x
<1> DEFINE u == UNION {p1, p2, p3}
<1>12. u = p1 \cup (p2 \cup p3)
  OBVIOUS
<1>13. WordAt(w, u, k) = WordAt(w, p1, k) \cup (WordAt(w, p2, k) \cup WordAt(w, p3, k))
  <2>1. WordAt(w, p1 \cup (p2 \cup p3), k) = WordAt(w, p1, k) \cup WordAt(w, p2 \cup p3, k)
    BY ONLY WordOfUnion
  <2>2. WordAt(w, p2 \cup p3, k) = WordAt(w, p2, k) \cup WordAt(w, p3, k)
    BY ONLY WordOfUnion
  <2> HIDE DEF u
  <2> QED BY ONLY <1>12, <2>1, <2>2
<1>14. op[{}] = {}
  BY DEF WordOp
<1>15. WordAt(w, u, k) = op[v]
  <2>1. CASE k < m
    <3>1. ~(m <= k) /\ ~(n <= k)
      BY <1>1, <2>1
    <3> QED BY <1>6, <1>9, <1>10, <1>11, <1>13, <1>14, <2>1, <3>1
  <2>2. CASE m <= k /\ k < n
    <3>1. ~(k < m) /\ ~(n <= k)
      BY <1>1, <2>2
    <3> QED BY <1>6, <1>9, <1>10, <1>11, <1>13, <1>14, <2>2, <3>1
  <2>3. CASE n <= k
    <3>1. ~(k < m) /\ ~(k < n)
      BY <1>1, <2>3
    <3> QED BY <1>6, <1>9, <1>10, <1>11, <1>13, <1>14, <2>3, <3>1
  <2> QED BY <1>1, <2>1, <2>2, <2>3
<1>16. u \in SUBSET Nat
  BY <1>9, <1>10, <1>11
<1> HIDE DEF u
<1>17. WordAt(w, Xor(rd.dest, u), k) = Xor(WordAt(w, rd.dest, k), WordAt(w, u, k))
  BY <1>0, <1>16, WordAtXor
<1> QED BY <1>2, <1>15, <1>17 DEF Stored, WordStored, u, v

\* Products with 0, 1 and x, and that a product is a word.
LEMMA TimesIs ==
    ASSUME NEW F, IsGF(F), NEW s \in Words(F)
    PROVE  /\ \A a \in Words(F) : Times(F, a, s) \in Words(F) /\ Times(F, a, {}) = {}
           /\ Times(F, Zero, s) = Zero /\ Times(F, One, s) = s
           /\ {1} \in Words(F) => Times(F, {1}, s) = Double(F, s)
<1>1. s \in Polynomial /\ Reduced(F, s) = s /\ s \in SUBSET (0..(F.w - 1)) /\ F.w \in Nat /\ F.w >= 1
  BY WordsAre
<1>2. {} \in Words(F) /\ Reduced(F, {}) = {}
  <2>1. {} \in Words(F)
    BY DEF Words
  <2> QED BY <2>1, WordsAre
<1>3. ASSUME NEW a \in Words(F) PROVE Times(F, a, s) \in Words(F) /\ Times(F, a, {}) = {}
  <2>1. a \in Polynomial
    BY WordsAre
  <2>2. Product(a, s) \in SUBSET (0..(2 * F.w))
    BY EndsOfProduct
  <2>3. Reduced(F, Product(a, s)) \in Words(F)
    BY <2>2, ReducedSum
  <2>4. Product(a, {}) = {}
    BY <2>1, ProductOfZero
  <2> QED BY <1>2, <2>3, <2>4 DEF Times
<1>4. Times(F, Zero, s) = Zero
  BY <1>1, <1>2, ProductOfZero DEF Times, Zero
<1>5. Times(F, One, s) = s
  <2>1. Product({0}, s) = Shl(s, 0)
    BY <1>1, ProductOfPower
  <2>2. Shl(s, 0) = s
    BY <1>1 DEF Shl
  <2> QED BY <1>1, <2>1, <2>2 DEF Times, One
<1>6. Times(F, {1}, s) = Double(F, s)
  <2>1. Product({1}, s) = Shl(s, 1)
    BY <1>1, ProductOfPower
  <2>2. s \in SUBSET (0..(2 * F.w - 1))
    BY <1>1
  <2>3. Reduced(F, Shl(s, 1)) = Double(F, Reduced(F, s))
    BY <2>2, ReducedDouble
  <2> QED BY <1>1, <2>1, <2>3 DEF Times
<1> QED BY <1>3, <1>4, <1>5, <1>6

\* What the words of a region become when they are multiplied by v.
TimesOp(F, v) == [s \in Bits |-> Times(F, v, s)]

\* Multiplying by v makes words of words, and 0 of 0.
LEMMA TimesOpIs ==
    ASSUME NEW F, IsGF(F), NEW v \in Words(F)
    PROVE  /\ WordOp(F.w, TimesOp(F, v))
           /\ \A s \in Words(F) : TimesOp(F, v)[s] = Times(F, v, s) /\ Times(F, v, s) \in Words(F)
           /\ Times(F, v, {}) = {}
<1>1. Words(F) = SUBSET (0..(F.w - 1)) /\ {} \in Words(F)
  BY DEF Words
<1>2. \A s \in Words(F) : s \in Bits
  BY WordsAre DEF Bits
<1>3. \A s \in Words(F) : TimesOp(F, v)[s] = Times(F, v, s)
  BY <1>2 DEF TimesOp
<1>4. \A s \in Words(F) : Times(F, v, s) \in Words(F) /\ Times(F, v, {}) = {}
  BY TimesIs
<1>5. WordOp(F.w, TimesOp(F, v))
  <2>1. TimesOp(F, v)[{}] = {}
    BY <1>1, <1>3, <1>4
  <2> DEFINE W == Words(F)
  <2>2. \A s \in W : TimesOp(F, v)[s] \in W
    BY <1>3, <1>4
  <2>3. W = SUBSET (0..(F.w - 1))
    BY <1>1
  <2> HIDE DEF W
  <2> QED BY <2>1, <2>2, <2>3 DEF WordOp
<1> QED BY <1>1, <1>3, <1>4, <1>5

\* Every word of y is the product of the word of x and v.
IsProduct(F, v, x, y) ==
    y \in SUBSET Nat /\ \A k \in Nat : WordAt(F.w, y, k) = Times(F, v, WordAt(F.w, x, k))

\* A middle that multiplies every word is one that does so by TimesOp.
LEMMA ProductsAreVectors ==
    ASSUME NEW F, IsGF(F), NEW v \in Words(F), NEW fast, \A x \in SUBSET Nat : IsProduct(F, v, x, fast[x])
    PROVE  Vectors(F.w, TimesOp(F, v), fast)
<1> SUFFICES ASSUME NEW x \in SUBSET Nat
             PROVE  /\ fast[x] \in SUBSET Nat
                    /\ \A k \in Nat : WordAt(F.w, fast[x], k) = TimesOp(F, v)[WordAt(F.w, x, k)]
  BY DEF Vectors
<1>1. \A k \in Nat : WordAt(F.w, x, k) \in Words(F)
  BY WordIsWord
<1>2. \A s \in Words(F) : TimesOp(F, v)[s] = Times(F, v, s)
  BY TimesOpIs
<1> QED BY <1>1, <1>2 DEF IsProduct

\* Word k of a destination to which the product of the source is written, or
\* added.
ProductStored(F, rd, k) ==
    IF rd.xor THEN Xor(WordAt(F.w, rd.dest, k), Times(F, rd.val, WordAt(F.w, rd.src, k)))
    ELSE Times(F, rd.val, WordAt(F.w, rd.src, k))

\* A multiplication of a region, with its shortcuts for 0 and 1, its unaligned
\* first and last words and its middle of many words at a time, is the product
\* of the field in every word, written or added once, at every address and for
\* every size, when the multiplication of one word and that of the middle are.
THEOREM RegionIsTimes ==
    ASSUME NEW F, IsGF(F), NEW rd, NEW align, RegionCall(F.w, rd, align), rd.val \in Words(F),
           NEW mult, \A s \in Words(F) : SlowOp(mult, rd.val)[s] = Times(F, rd.val, s),
           NEW fast, \A x \in SUBSET Nat : IsProduct(F, rd.val, x, fast[x]), NEW k \in Nat
    PROVE  WordAt(F.w, RegionOp(F.w, rd, align, mult, fast), k) = ProductStored(F, rd, k)
<1> DEFINE v == rd.val
           s == WordAt(F.w, rd.src, k)
           d == WordAt(F.w, rd.dest, k)
<1>0. /\ rd.src \in SUBSET Nat /\ rd.dest \in SUBSET Nat /\ F.w \in Nat \ {0}
      /\ s \in Words(F) /\ d \in Words(F) /\ WordAt(F.w, Zero, k) = Zero /\ {} \in Words(F)
  <2>1. rd.src \in SUBSET Nat /\ rd.dest \in SUBSET Nat
    BY DEF RegionCall
  <2>2. {} \in Words(F)
    BY DEF Words
  <2> QED BY <2>1, <2>2, WordIsWord
<1>1. TimesOp(F, v)[s] = Times(F, v, s) /\ WordOp(F.w, TimesOp(F, v))
  BY <1>0, TimesOpIs
<1>2. Times(F, Zero, s) = Zero /\ Times(F, One, s) = s
  BY <1>0, TimesIs
<1>3. CASE v = Zero
  <2>1. RegionOp(F.w, rd, align, mult, fast) = IF rd.xor THEN rd.dest ELSE Zero
    BY <1>3 DEF RegionOp
  <2>2. ProductStored(F, rd, k) = IF rd.xor THEN Xor(d, Zero) ELSE Zero
    BY <1>2, <1>3 DEF ProductStored
  <2>3. Xor(d, Zero) = d
    BY DEF Xor, Zero
  <2> QED BY <1>0, <2>1, <2>2, <2>3
<1>4. CASE v = One
  <2>1. RegionOp(F.w, rd, align, mult, fast) = IF rd.xor THEN Xor(rd.dest, rd.src) ELSE rd.src
    BY <1>4 DEF RegionOp, Stored, One, Zero
  <2>2. ProductStored(F, rd, k) = IF rd.xor THEN Xor(d, s) ELSE s
    BY <1>2, <1>4 DEF ProductStored
  <2>3. WordAt(F.w, Xor(rd.dest, rd.src), k) = Xor(d, s)
    BY <1>0, WordAtXor
  <2> QED BY <2>1, <2>2, <2>3
<1>5. CASE v # Zero /\ v # One
  <2>1. RegionOp(F.w, rd, align, mult, fast) = InParts(F.w, rd, align, mult, fast)
    BY <1>5 DEF RegionOp
  <2> DEFINE op == TimesOp(F, v)
  <2>2. WordOp(F.w, op) /\ Vectors(F.w, op, fast)
    BY <1>1, ProductsAreVectors
  <2>3. \A t \in SUBSET (0..(F.w - 1)) : SlowOp(mult, v)[t] = op[t]
    BY TimesOpIs DEF Words
  <2> HIDE DEF op
  <2>4. WordAt(F.w, InParts(F.w, rd, align, mult, fast), k) = WordStored(F.w, rd, op, k)
    BY <2>2, <2>3, InPartsIs
  <2>5. op[s] = Times(F, v, s)
    BY <1>1 DEF op
  <2> QED BY <2>1, <2>4, <2>5 DEF WordStored, ProductStored
<1> QED BY <1>3, <1>4, <1>5

\* The products of words by which some loops multiply: by x, and by a sum.
LEMMA TimesOfShifted ==
    ASSUME NEW F, IsGF(F), NEW s \in Words(F), NEW a \in Words(F), NEW c \in Words(F)
    PROVE  /\ Shl(a, 1) \in Words(F) => Times(F, Shl(a, 1), s) = Double(F, Times(F, a, s))
           /\ Times(F, Xor(a, c), s) = Xor(Times(F, a, s), Times(F, c, s))
<1>0. /\ a \in Polynomial /\ c \in Polynomial /\ s \in Polynomial
      /\ a \in SUBSET Nat /\ s \in SUBSET Nat /\ F.w \in Nat /\ F.w >= 1
  BY WordsAre
<1>1. /\ Product(a, s) \in SUBSET (0..(2 * F.w - 2))
      /\ Product(a, s) \in SUBSET (0..(2 * F.w)) /\ Product(c, s) \in SUBSET (0..(2 * F.w))
  BY EndsOfProduct
<1>2. Times(F, Xor(a, c), s) = Xor(Times(F, a, s), Times(F, c, s))
  <2>1. Product(Xor(a, c), s) = Xor(Product(a, s), Product(c, s))
    BY <1>0, ProductOfSum
  <2> QED BY <1>1, <2>1, ReducedSum DEF Times
<1>3. Times(F, Shl(a, 1), s) = Double(F, Times(F, a, s))
  <2>1. 1 \in Nat
    OBVIOUS
  <2>2. Product(Shl(a, 1), s) = Shl(Product(a, s), 1)
    BY <1>0, <2>1, ProductOfShifted
  <2> DEFINE p == Product(a, s)
  <2>3. p \in SUBSET (0..(2 * F.w - 1))
    <3>1. p \in SUBSET (0..(2 * F.w - 2))
      BY <1>1
    <3> HIDE DEF p
    <3> QED BY <1>0, <3>1
  <2> HIDE DEF p
  <2>4. Reduced(F, Shl(p, 1)) = Double(F, Reduced(F, p))
    BY <2>3, ReducedDouble
  <2> QED BY <2>2, <2>4 DEF Times, p
<1> QED BY <1>2, <1>3

\* Doubling every word multiplies it by x once more.
LEMMA ProductOfDouble ==
    ASSUME NEW F, IsGF(F), NEW x \in SUBSET Nat, NEW y, NEW a \in Words(F), IsProduct(F, a, x, y),
           NEW b \in Words(F), b = Shl(a, 1)
    PROVE  IsProduct(F, b, x, PackedDouble(F, y))
<1>1. y \in SUBSET Nat
  BY DEF IsProduct
<1>2. ASSUME NEW k \in Nat
      PROVE  /\ PackedDouble(F, y) \in SUBSET Nat
             /\ WordAt(F.w, PackedDouble(F, y), k) = Times(F, b, WordAt(F.w, x, k))
  <2> DEFINE s == WordAt(F.w, x, k)
  <2>1. s \in Words(F)
    BY WordIsWord
  <2>2. WordAt(F.w, y, k) = Times(F, a, s)
    BY DEF IsProduct
  <2>3. /\ PackedDouble(F, y) \in SUBSET Nat
        /\ WordAt(F.w, PackedDouble(F, y), k) = Double(F, WordAt(F.w, y, k))
    BY <1>1, WordOfDouble
  <2> HIDE DEF s
  <2>4. Times(F, b, s) = Double(F, Times(F, a, s))
    BY <2>1, TimesOfShifted
  <2> QED BY <2>2, <2>3, <2>4 DEF s
<1>3. 0 \in Nat
  OBVIOUS
<1> QED BY <1>2, <1>3 DEF IsProduct

\* Adding two products word by word multiplies by the sum.
LEMMA ProductOfBoth ==
    ASSUME NEW F, IsGF(F), NEW x \in SUBSET Nat, NEW y, NEW z, NEW a \in Words(F), NEW c \in Words(F),
           IsProduct(F, a, x, y), IsProduct(F, c, x, z), NEW b, b = Xor(a, c)
    PROVE  IsProduct(F, b, x, Xor(y, z))
<1>0. F.w \in Nat \ {0}
  BY DEF IsGF
<1>1. y \in SUBSET Nat /\ z \in SUBSET Nat
  BY DEF IsProduct
<1>2. ASSUME NEW k \in Nat
      PROVE  /\ Xor(y, z) \in SUBSET Nat
             /\ WordAt(F.w, Xor(y, z), k) = Times(F, b, WordAt(F.w, x, k))
  <2> DEFINE s == WordAt(F.w, x, k)
  <2>1. s \in Words(F)
    BY WordIsWord
  <2>2. WordAt(F.w, y, k) = Times(F, a, s) /\ WordAt(F.w, z, k) = Times(F, c, s)
    BY DEF IsProduct
  <2>a. k \in Nat
    OBVIOUS
  <2>3. Xor(y, z) \in SUBSET Nat /\ WordAt(F.w, Xor(y, z), k) = Xor(WordAt(F.w, y, k), WordAt(F.w, z, k))
    BY ONLY <1>0, <1>1, <2>a, WordAtXor
  <2> HIDE DEF s
  <2>4. Times(F, b, s) = Xor(Times(F, a, s), Times(F, c, s))
    BY <2>1, TimesOfShifted
  <2> QED BY <2>2, <2>3, <2>4 DEF s
<1>3. 0 \in Nat
  OBVIOUS
<1> QED BY <1>2, <1>3 DEF IsProduct

\* The loops of BYTWO_b for the multipliers 2 to 7, which double once or twice
\* and add what the multiplier's bits name, multiply every word, for every
\* number of words at a time and in every field of 4 bits or more.
THEOREM SmallLoopsAreTimes ==
    ASSUME NEW F, IsGF(F), F.w >= 4, NEW x \in SUBSET Nat
    PROVE  /\ IsProduct(F, {1}, x, GfW4BytwoBSseRegion2(F, x))
           /\ IsProduct(F, {0, 1}, x, GfW4BytwoBSseRegion3(F, x))
           /\ IsProduct(F, {2}, x, GfW4BytwoBSseRegion4(F, x))
           /\ IsProduct(F, {0, 2}, x, GfW4BytwoBSseRegion5(F, x))
           /\ IsProduct(F, {1, 2}, x, GfW4BytwoBSseRegion6(F, x))
           /\ IsProduct(F, {0, 1, 2}, x, GfW4BytwoBSseRegion7(F, x))
           /\ IsProduct(F, {3}, x, PackedDouble(F, PackedDouble(F, PackedDouble(F, x))))
<1> DEFINE d == PackedDouble(F, x)
           e == PackedDouble(F, d)
<1>0. /\ {0} \in Words(F) /\ {1} \in Words(F) /\ {2} \in Words(F) /\ {3} \in Words(F)
      /\ {0, 1} \in Words(F) /\ {1, 2} \in Words(F)
  <2>1. F.w \in Nat
    BY DEF IsGF
  <2> QED BY <2>1 DEF Words
<1>1. /\ {1} = Shl({0}, 1) /\ {2} = Shl({1}, 1) /\ {3} = Shl({2}, 1)
      /\ {0, 1} = Xor({1}, {0}) /\ {0, 2} = Xor({2}, {0}) /\ {1, 2} = Xor({2}, {1})
      /\ {0, 1, 2} = Xor({2}, {0, 1})
  BY DEF Shl, Xor
<1>2. IsProduct(F, {0}, x, x)
  <2>1. \A k \in Nat : WordAt(F.w, x, k) = Times(F, {0}, WordAt(F.w, x, k))
    BY WordIsWord, TimesIs DEF One
  <2> QED BY <2>1 DEF IsProduct
<1>3. IsProduct(F, {1}, x, d)
  BY <1>0, <1>1, <1>2, ProductOfDouble
<1>4. IsProduct(F, {2}, x, e)
  BY <1>0, <1>1, <1>3, ProductOfDouble
<1>5. IsProduct(F, {3}, x, PackedDouble(F, e))
  BY <1>0, <1>1, <1>4, ProductOfDouble
<1> HIDE DEF d, e
<1>6. IsProduct(F, {0, 1}, x, Xor(d, x))
  BY <1>0, <1>1, <1>2, <1>3, ProductOfBoth
<1>7. IsProduct(F, {0, 2}, x, Xor(e, x))
  BY <1>0, <1>1, <1>2, <1>4, ProductOfBoth
<1>8. IsProduct(F, {1, 2}, x, Xor(e, d))
  BY <1>0, <1>1, <1>3, <1>4, ProductOfBoth
<1>9. IsProduct(F, {0, 1, 2}, x, Xor(e, Xor(d, x)))
  BY <1>0, <1>1, <1>4, <1>6, ProductOfBoth
<1>10. /\ GfW4BytwoBSseRegion2(F, x) = d /\ GfW4BytwoBSseRegion3(F, x) = Xor(d, x)
       /\ GfW4BytwoBSseRegion4(F, x) = e /\ GfW4BytwoBSseRegion5(F, x) = Xor(e, x)
       /\ GfW4BytwoBSseRegion6(F, x) = Xor(e, d) /\ GfW4BytwoBSseRegion7(F, x) = Xor(e, Xor(d, x))
       /\ PackedDouble(F, PackedDouble(F, x)) = e
  BY DEF d, e, GfW4BytwoBSseRegion2, GfW4BytwoBSseRegion3, GfW4BytwoBSseRegion4,
         GfW4BytwoBSseRegion5, GfW4BytwoBSseRegion6, GfW4BytwoBSseRegion7
<1> QED BY <1>3, <1>4, <1>5, <1>6, <1>7, <1>8, <1>9, <1>10

\* What the middle of a region of BYTWO is made by: the doublings of the
\* product or of the words, and the choices among the loops for small
\* multipliers that the widths 4, 8 and 16 make.
BytwoMiddles(F, val) ==
    {[x \in Bits |-> PackedBytwoP(F, val, x)],
     [x \in Bits |-> PackedBytwoB(F, val, x)],
     [x \in Bits |-> IF val = {1} THEN PackedDouble(F, x) ELSE PackedBytwoB(F, val, x)],
     [x \in Bits |->
        CASE val = {1}       -> GfW4BytwoBSseRegion2(F, x)
          [] val = {0, 1}    -> GfW4BytwoBSseRegion3(F, x)
          [] val = {2}       -> GfW4BytwoBSseRegion4(F, x)
          [] val = {0, 2}    -> GfW4BytwoBSseRegion5(F, x)
          [] val = {1, 2}    -> GfW4BytwoBSseRegion6(F, x)
          [] val = {0, 1, 2} -> GfW4BytwoBSseRegion7(F, x)
          [] OTHER           -> PackedBytwoB(F, val, x)],
     [x \in Bits |->
        CASE val = {1}    -> PackedDouble(F, x)
          [] val = {0, 1} -> Xor(PackedDouble(F, x), x)
          [] val = {2}    -> PackedDouble(F, PackedDouble(F, x))
          [] val = {0, 2} -> Xor(PackedDouble(F, PackedDouble(F, x)), x)
          [] val = {1, 2} -> Xor(PackedDouble(F, PackedDouble(F, x)), PackedDouble(F, x))
          [] val = {3}    -> PackedDouble(F, PackedDouble(F, PackedDouble(F, x)))
          [] OTHER        -> PackedBytwoB(F, val, x)],
     [x \in Bits |->
        CASE val = {1}    -> PackedDouble(F, x)
          [] val = {0, 1} -> Xor(PackedDouble(F, x), x)
          [] val = {2}    -> PackedDouble(F, PackedDouble(F, x))
          [] val = {0, 2} -> Xor(PackedDouble(F, PackedDouble(F, x)), x)
          [] OTHER        -> PackedBytwoB(F, val, x)]}

\* Every one of these middles multiplies every word.
LEMMA BytwoMiddlesAreProducts ==
    ASSUME NEW F, IsGF(F), F.w >= 4, NEW val \in Words(F), NEW fast \in BytwoMiddles(F, val),
           NEW x \in SUBSET Nat
    PROVE  IsProduct(F, val, x, fast[x])
<1> DEFINE d == PackedDouble(F, x)
           p == PackedBytwoP(F, val, x)
           b == PackedBytwoB(F, val, x)
<1>1. IsProduct(F, val, x, p) /\ IsProduct(F, val, x, b)
  <2>1. \A k \in Nat : /\ p \in SUBSET Nat /\ WordAt(F.w, p, k) = Times(F, val, WordAt(F.w, x, k))
                       /\ b \in SUBSET Nat /\ WordAt(F.w, b, k) = Times(F, val, WordAt(F.w, x, k))
    BY PackedBytwoPIsTimes, PackedBytwoBIsTimes
  <2> HIDE DEF p, b
  <2>2. 0 \in Nat
    OBVIOUS
  <2> QED BY <2>1, <2>2 DEF IsProduct
<1>2. /\ IsProduct(F, {1}, x, d) /\ IsProduct(F, {0, 1}, x, Xor(d, x))
      /\ IsProduct(F, {2}, x, PackedDouble(F, d)) /\ IsProduct(F, {0, 2}, x, Xor(PackedDouble(F, d), x))
      /\ IsProduct(F, {1, 2}, x, Xor(PackedDouble(F, d), d))
      /\ IsProduct(F, {0, 1, 2}, x, Xor(PackedDouble(F, d), Xor(d, x)))
      /\ IsProduct(F, {3}, x, PackedDouble(F, PackedDouble(F, d)))
  BY SmallLoopsAreTimes DEF GfW4BytwoBSseRegion2, GfW4BytwoBSseRegion3, GfW4BytwoBSseRegion4,
         GfW4BytwoBSseRegion5, GfW4BytwoBSseRegion6, GfW4BytwoBSseRegion7
<1>3. x \in Bits
  BY DEF Bits
<1>4. \/ fast[x] \in {p, b}
      \/ val = {1} /\ fast[x] = d
      \/ val = {0, 1} /\ fast[x] = Xor(d, x)
      \/ val = {2} /\ fast[x] = PackedDouble(F, d)
      \/ val = {0, 2} /\ fast[x] = Xor(PackedDouble(F, d), x)
      \/ val = {1, 2} /\ fast[x] = Xor(PackedDouble(F, d), d)
      \/ val = {0, 1, 2} /\ fast[x] = Xor(PackedDouble(F, d), Xor(d, x))
      \/ val = {3} /\ fast[x] = PackedDouble(F, PackedDouble(F, d))
  BY <1>3 DEF BytwoMiddles, GfW4BytwoBSseRegion2, GfW4BytwoBSseRegion3, GfW4BytwoBSseRegion4,
         GfW4BytwoBSseRegion5, GfW4BytwoBSseRegion6, GfW4BytwoBSseRegion7
<1> HIDE DEF d, p, b
<1> QED BY <1>1, <1>2, <1>4

\* A region multiplied by BYTWO: the product of the field in every word, for
\* every multiplier, address and size.  One loop is not among the middles, that
\* of gf_w4.c for the multiplier 9 without xor, which skips every other word.
THEOREM BytwoRegionIsTimes ==
    ASSUME NEW F, IsGF(F), NEW rd, NEW align, RegionCall(F.w, rd, align), rd.val \in Words(F),
           NEW mult, \A s \in Words(F) : SlowOp(mult, rd.val)[s] = Times(F, rd.val, s),
           NEW fast \in BytwoMiddles(F, rd.val), NEW k \in Nat
    PROVE  WordAt(F.w, RegionOp(F.w, rd, align, mult, fast), k) = ProductStored(F, rd, k)
<1>1. F.w >= 4
  BY DEF RegionCall
<1>2. \A x \in SUBSET Nat : IsProduct(F, rd.val, x, fast[x])
  BY <1>1, BytwoMiddlesAreProducts
<1> QED BY <1>2, RegionIsTimes

\* A region whose middle is done word by word by a formula or a look-up that is
\* the product of the field is multiplied like the words before and after it.
LEMMA WordRegionIsTimes ==
    ASSUME NEW F, IsGF(F), NEW rd, NEW align, RegionCall(F.w, rd, align), rd.val \in Words(F),
           NEW mult, \A s \in Words(F) : SlowOp(mult, rd.val)[s] = Times(F, rd.val, s),
           NEW op, \A s \in Words(F) : op[s] = Times(F, rd.val, s), NEW k \in Nat
    PROVE  WordAt(F.w, WordRegion(F.w, rd, align, mult, op), k) = ProductStored(F, rd, k)
<1> DEFINE fast == [x \in Bits |-> PerWord(F.w, x, op)]
<1>0. F.w \in Nat \ {0} /\ Words(F) = SUBSET (0..(F.w - 1)) /\ {} \in Words(F)
  BY DEF IsGF, Words
<1>1. /\ \A s \in SUBSET (0..(F.w - 1)) : op[s] \in SUBSET (0..(F.w - 1))
      /\ op[{}] = {}
  <2>1. \A s \in Words(F) : op[s] \in Words(F)
    BY TimesOpIs
  <2>2. op[{}] = {}
    BY <1>0, TimesOpIs
  <2> DEFINE W == Words(F)
  <2>3. (\A s \in W : op[s] \in W) /\ W = SUBSET (0..(F.w - 1))
    BY <1>0, <2>1
  <2> HIDE DEF W
  <2> QED BY <2>2, <2>3
<1>2. ASSUME NEW x \in SUBSET Nat PROVE IsProduct(F, rd.val, x, fast[x])
  <2>1. x \in Bits
    BY DEF Bits
  <2>2. fast[x] = PerWord(F.w, x, op)
    BY <2>1
  <2> HIDE DEF fast
  <2>3. ASSUME NEW j \in Nat
        PROVE  /\ PerWord(F.w, x, op) \in SUBSET Nat
               /\ WordAt(F.w, PerWord(F.w, x, op), j) = op[WordAt(F.w, x, j)]
    <3> DEFINE w == F.w
    <3>1. w \in Nat \ {0} /\ x \in SUBSET Nat /\ j \in Nat
      BY <1>0, <2>3
    <3>2. op[{}] = {}
      BY <1>1
    <3>3. \A s \in SUBSET (0..(w - 1)) : op[s] \in SUBSET (0..(w - 1))
      BY <1>1
    <3> HIDE DEF w
    <3>4. PerWord(w, x, op) \in SUBSET Nat /\ WordAt(w, PerWord(w, x, op), j) = op[WordAt(w, x, j)]
      BY ONLY <3>1, <3>2, <3>3, WordOfPerWord
    <3> QED BY <3>4 DEF w
  <2>4. \A j \in Nat : WordAt(F.w, x, j) \in Words(F)
    BY WordIsWord
  <2>5. 0 \in Nat
    OBVIOUS
  <2> QED BY <2>2, <2>3, <2>4, <2>5 DEF IsProduct
<1>3. WordRegion(F.w, rd, align, mult, op) = RegionOp(F.w, rd, align, mult, fast)
  BY DEF WordRegion
<1> HIDE DEF fast
<1> QED BY <1>2, <1>3, RegionIsTimes

\* A region multiplied by CARRY_FREE in the fields of 8 and of 16 bits: the
\* function chosen for the polynomial reduces often enough in every word.
THEOREM CarryFreeRegionIsTimes ==
    ASSUME NEW F, IsGF(F), NEW rd, rd.val \in Words(F), NEW mult,
           \A s \in Words(F) : SlowOp(mult, rd.val)[s] = Times(F, rd.val, s), NEW k \in Nat
    PROVE  /\ F.w = 8 /\ RegionCall(8, rd, 1) =>
                /\ F.poly \cap {5, 6, 7} = {} => WordAt(8, GfW8ClmRegion2(F, rd, mult), k) = ProductStored(F, rd, k)
                /\ F.poly \cap {6, 7} = {} => WordAt(8, GfW8ClmRegion3(F, rd, mult), k) = ProductStored(F, rd, k)
                /\ 7 \notin F.poly => WordAt(8, GfW8ClmRegion4(F, rd, mult), k) = ProductStored(F, rd, k)
           /\ F.w = 16 /\ RegionCall(16, rd, 2) =>
                /\ F.poly \cap (9..15) = {} => WordAt(16, GfW16ClmRegion2(F, rd, mult), k) = ProductStored(F, rd, k)
                /\ F.poly \cap (12..15) = {} => WordAt(16, GfW16ClmRegion3(F, rd, mult), k) = ProductStored(F, rd, k)
                /\ F.poly \cap (13..15) = {} => WordAt(16, GfW16ClmRegion4(F, rd, mult), k) = ProductStored(F, rd, k)
<1> DEFINE v == rd.val
           Op(r) == [s \in Bits |-> ClmMultiply(F, r, v, s)]
<1>0. F.poly \in SUBSET (0..(F.w - 1)) /\ F.w \in Nat
  BY DEF IsGF
<1>1. ASSUME NEW d \in Nat, NEW r \in Nat, d < F.w, r * (F.w - d) >= F.w - 1,
             F.poly \in SUBSET (0..d), NEW align, RegionCall(F.w, rd, align)
      PROVE  WordAt(F.w, WordRegion(F.w, rd, align, mult, Op(r)), k) = ProductStored(F, rd, k)
  <2>1. \A s \in Words(F) : s \in Bits
    BY WordsAre DEF Bits
  <2>2. \A s \in Words(F) : ClmMultiply(F, r, v, s) = Times(F, v, s)
    BY <1>1, CarryFreeIsTimes
  <2> DEFINE op == Op(r)
  <2>3. \A s \in Words(F) : op[s] = Times(F, v, s)
    BY <2>1, <2>2
  <2> HIDE DEF Op, op
  <2>4. RegionCall(F.w, rd, align)
    BY <1>1
  <2>5. WordAt(F.w, WordRegion(F.w, rd, align, mult, op), k) = ProductStored(F, rd, k)
    BY <2>3, <2>4, WordRegionIsTimes
  <2> QED BY ONLY <2>5 DEF op
<1>2. ASSUME F.w = 8, RegionCall(8, rd, 1)
      PROVE  /\ F.poly \cap {5, 6, 7} = {} => WordAt(8, WordRegion(8, rd, 1, mult, Op(2)), k) = ProductStored(F, rd, k)
             /\ F.poly \cap {6, 7} = {} => WordAt(8, WordRegion(8, rd, 1, mult, Op(3)), k) = ProductStored(F, rd, k)
             /\ 7 \notin F.poly => WordAt(8, WordRegion(8, rd, 1, mult, Op(4)), k) = ProductStored(F, rd, k)
  <2>1. /\ F.poly \cap {5, 6, 7} = {} => F.poly \in SUBSET (0..4)
        /\ F.poly \cap {6, 7} = {} => F.poly \in SUBSET (0..5)
        /\ 7 \notin F.poly => F.poly \in SUBSET (0..6)
    <3>1. F.poly \in SUBSET (0..7)
      BY <1>0, <1>2
    <3> QED BY <3>1
  <2> HIDE DEF Op
  <2>2. F.poly \in SUBSET (0..4) => WordAt(8, WordRegion(8, rd, 1, mult, Op(2)), k) = ProductStored(F, rd, k)
    <3>1. 2 \in Nat /\ 4 \in Nat /\ 4 < F.w /\ 2 * (F.w - 4) >= F.w - 1
      BY <1>2
    <3> QED BY <1>1, <1>2, <3>1
  <2>3. F.poly \in SUBSET (0..5) => WordAt(8, WordRegion(8, rd, 1, mult, Op(3)), k) = ProductStored(F, rd, k)
    <3>1. 3 \in Nat /\ 5 \in Nat /\ 5 < F.w /\ 3 * (F.w - 5) >= F.w - 1
      BY <1>2
    <3> QED BY <1>1, <1>2, <3>1
  <2>4. F.poly \in SUBSET (0..6) => WordAt(8, WordRegion(8, rd, 1, mult, Op(4)), k) = ProductStored(F, rd, k)
    <3>1. 4 \in Nat /\ 6 \in Nat /\ 6 < F.w /\ 4 * (F.w - 6) >= F.w - 1
      BY <1>2
    <3> QED BY <1>1, <1>2, <3>1
  <2> QED BY <2>1, <2>2, <2>3, <2>4
<1>3. ASSUME F.w = 16, RegionCall(16, rd, 2)
      PROVE  /\ F.poly \cap (9..15) = {} => WordAt(16, WordRegion(16, rd, 2, mult, Op(2)), k) = ProductStored(F, rd, k)
             /\ F.poly \cap (12..15) = {} => WordAt(16, WordRegion(16, rd, 2, mult, Op(3)), k) = ProductStored(F, rd, k)
             /\ F.poly \cap (13..15) = {} => WordAt(16, WordRegion(16, rd, 2, mult, Op(4)), k) = ProductStored(F, rd, k)
  <2>1. /\ F.poly \cap (9..15) = {} => F.poly \in SUBSET (0..8)
        /\ F.poly \cap (12..15) = {} => F.poly \in SUBSET (0..11)
        /\ F.poly \cap (13..15) = {} => F.poly \in SUBSET (0..12)
    <3>1. F.poly \in SUBSET (0..15)
      BY <1>0, <1>3
    <3> QED BY <3>1
  <2> HIDE DEF Op
  <2>2. F.poly \in SUBSET (0..8) => WordAt(16, WordRegion(16, rd, 2, mult, Op(2)), k) = ProductStored(F, rd, k)
    <3>1. 2 \in Nat /\ 8 \in Nat /\ 8 < F.w /\ 2 * (F.w - 8) >= F.w - 1
      BY <1>3
    <3> QED BY <1>1, <1>3, <3>1
  <2>3. F.poly \in SUBSET (0..11) => WordAt(16, WordRegion(16, rd, 2, mult, Op(3)), k) = ProductStored(F, rd, k)
    <3>1. 3 \in Nat /\ 11 \in Nat /\ 11 < F.w /\ 3 * (F.w - 11) >= F.w - 1
      BY <1>3
    <3> QED BY <1>1, <1>3, <3>1
  <2>4. F.poly \in SUBSET (0..12) => WordAt(16, WordRegion(16, rd, 2, mult, Op(4)), k) = ProductStored(F, rd, k)
    <3>1. 4 \in Nat /\ 12 \in Nat /\ 12 < F.w /\ 4 * (F.w - 12) >= F.w - 1
      BY <1>3
    <3> QED BY <1>1, <1>3, <3>1
  <2> QED BY <2>1, <2>2, <2>3, <2>4
<1>4. /\ GfW8ClmRegion2(F, rd, mult) = WordRegion(8, rd, 1, mult, Op(2))
      /\ GfW8ClmRegion3(F, rd, mult) = WordRegion(8, rd, 1, mult, Op(3))
      /\ GfW8ClmRegion4(F, rd, mult) = WordRegion(8, rd, 1, mult, Op(4))
      /\ GfW16ClmRegion2(F, rd, mult) = WordRegion(16, rd, 2, mult, Op(2))
      /\ GfW16ClmRegion3(F, rd, mult) = WordRegion(16, rd, 2, mult, Op(3))
      /\ GfW16ClmRegion4(F, rd, mult) = WordRegion(16, rd, 2, mult, Op(4))
  BY Zenon DEF GfW8ClmRegion2, GfW8ClmRegion3, GfW8ClmRegion4, GfW16ClmRegion2, GfW16ClmRegion3, GfW16ClmRegion4
<1> HIDE DEF Op
<1> QED BY <1>2, <1>3, <1>4

-----------------------------------------------------------------------------
(* The field as a ring, and division. *)

\* What holds of 1, with a power of x of the next, and with two words of their
\* sum, holds of all words.
LEMMA AllWords ==
    ASSUME NEW F, IsGF(F), NEW G, Zero \in G, One \in G,
           \A i \in Nat : i + 1 < F.w /\ {i} \in G => {i + 1} \in G,
           \A a, c \in Words(F) : a \in G /\ c \in G => Xor(a, c) \in G
    PROVE  \A a \in Words(F) : a \in G
<1> DEFINE H == {k \in Nat : k < F.w => {k} \in G}
           I == {k \in Nat : k <= F.w => \A a \in SUBSET (0..(k - 1)) : a \in G}
<1>0. F.w \in Nat /\ 0 \in Nat /\ F.w >= 0
  BY DEF IsGF
<1>1. \A k \in Nat : k >= 0 => k \in H
  <2>1. 0 \in H
    BY DEF One
  <2>2. ASSUME NEW k \in Nat, k >= 0 /\ k \in H PROVE k + 1 \in H
    BY <1>0, <2>2
  <2> HIDE DEF H
  <2> QED BY <1>0, <2>1, <2>2, Upwards
<1>2. \A i \in Nat : i < F.w => {i} \in G
  BY <1>1
<1> HIDE DEF H
<1>3. 0 \in I
  <2>1. \A a \in SUBSET (0..(0 - 1)) : a = {}
    OBVIOUS
  <2> QED BY <2>1 DEF Zero
<1>4. ASSUME NEW k \in Nat, k >= 0 /\ k \in I PROVE k + 1 \in I
  <2> SUFFICES ASSUME k + 1 <= F.w, NEW a \in SUBSET (0..((k + 1) - 1)) PROVE a \in G
    OBVIOUS
  <2> DEFINE c == a \ {k}
  <2>1. c \in SUBSET (0..(k - 1)) /\ k <= F.w /\ k < F.w
    BY <1>0
  <2>2. c \in G /\ {k} \in G
    BY <1>2, <1>4, <2>1
  <2>3. c \in Words(F) /\ {k} \in Words(F)
    BY <1>0, <2>1 DEF Words
  <2>4. a = c \/ a = Xor(c, {k})
    BY DEF Xor
  <2> HIDE DEF c
  <2> QED BY <2>2, <2>3, <2>4
<1> HIDE DEF I
<1>5. F.w \in I
  BY <1>0, <1>3, <1>4, Upwards
<1> QED BY <1>0, <1>5 DEF I, Words

\* Sums and products of words.
LEMMA WordSums ==
    ASSUME NEW F, IsGF(F), NEW a \in Words(F), NEW c \in Words(F)
    PROVE  /\ Xor(a, c) \in Words(F) /\ Zero \in Words(F) /\ One \in Words(F)
           /\ Double(F, Xor(a, c)) = Xor(Double(F, a), Double(F, c)) /\ Double(F, a) \in Words(F)
           /\ \A s \in Words(F) : /\ Times(F, s, Xor(a, c)) = Xor(Times(F, s, a), Times(F, s, c))
                                  /\ Times(F, Xor(a, c), s) = Xor(Times(F, a, s), Times(F, c, s))
           /\ Times(F, a, c) = Times(F, c, a) /\ Times(F, a, c) \in Words(F)
<1>0. F.w \in Nat /\ F.w >= 1 /\ a \in SUBSET (0..(F.w - 1)) /\ c \in SUBSET (0..(F.w - 1))
  BY WordsAre
<1>1. Xor(a, c) \in Words(F)
  <2>1. Xor(a, c) \in SUBSET (0..(F.w - 1))
    BY <1>0 DEF Xor
  <2> QED BY <2>1 DEF Words
<1>2. Zero \in Words(F) /\ One \in Words(F)
  BY <1>0 DEF Words, Zero, One
<1>3. \A s, t \in Words(F) : Times(F, s, t) = Times(F, t, s)
  BY WordsAre, ProductCommutes DEF Times
<1>4. \A s \in Words(F) : Times(F, Xor(a, c), s) = Xor(Times(F, a, s), Times(F, c, s))
  BY TimesOfShifted
<1>5. \A s \in Words(F) : Times(F, s, Xor(a, c)) = Xor(Times(F, s, a), Times(F, s, c))
  BY <1>1, <1>3, <1>4
<1>6. \A s \in Words(F) : Times(F, {1}, s) = Double(F, s) \/ {1} \notin Words(F)
  BY TimesIs
<1>7. Double(F, Xor(a, c)) = Xor(Double(F, a), Double(F, c))
  <2> DEFINE p == Shl(a, 1)
             q == Shl(c, 1)
  <2>1. /\ p \in SUBSET (0..(2 * F.w)) /\ q \in SUBSET (0..(2 * F.w))
        /\ Reduced(F, p) = Double(F, a) /\ Reduced(F, q) = Double(F, c)
        /\ Reduced(F, Shl(Xor(a, c), 1)) = Double(F, Xor(a, c))
    <3>1. \A s \in Words(F) : s \in SUBSET (0..(2 * F.w - 1)) /\ Reduced(F, s) = s
      <4> SUFFICES ASSUME NEW s \in Words(F)
                   PROVE  s \in SUBSET (0..(2 * F.w - 1)) /\ Reduced(F, s) = s
        OBVIOUS
      <4>1. s \in SUBSET (0..(F.w - 1)) /\ Reduced(F, s) = s
        BY WordsAre
      <4> QED BY <1>0, <4>1
    <3>2. \A s \in Words(F) : Shl(s, 1) \in SUBSET (0..(2 * F.w)) /\ Reduced(F, Shl(s, 1)) = Double(F, s)
      BY <3>1, ReducedDouble
    <3> QED BY <1>1, <3>2
  <2>2. Shl(Xor(a, c), 1) = Xor(p, q)
    <3>1. a \in SUBSET Nat /\ c \in SUBSET Nat /\ 1 \in Nat
      BY WordsAre
    <3> QED BY <3>1, ShlXor
  <2> HIDE DEF p, q
  <2>3. Reduced(F, Xor(p, q)) = Xor(Reduced(F, p), Reduced(F, q))
    BY <2>1, ReducedSum
  <2> QED BY <2>1, <2>2, <2>3
<1>8. Double(F, a) \in Words(F) /\ Times(F, a, c) \in Words(F)
  BY DoubleWord, TimesIs
<1> QED BY <1>1, <1>2, <1>3, <1>4, <1>5, <1>7, <1>8

\* The product with the next power of x.
LEMMA TimesOfNext ==
    ASSUME NEW F, IsGF(F), NEW s \in Words(F), NEW i \in Nat, i + 1 < F.w
    PROVE  {i + 1} \in Words(F) /\ Times(F, {i + 1}, s) = Double(F, Times(F, {i}, s))
<1>1. F.w \in Nat
  BY DEF IsGF
<1>2. {i + 1} = Shl({i}, 1) /\ {i + 1} \in Words(F) /\ {i} \in Words(F)
  BY <1>1 DEF Shl, Words
<1>3. Shl({i}, 1) \in Words(F) => Times(F, Shl({i}, 1), s) = Double(F, Times(F, {i}, s))
  BY <1>2, TimesOfShifted
<1> QED BY <1>2, <1>3

\* The product with a sum.
LEMMA TimesOfSum ==
    ASSUME NEW F, IsGF(F), NEW s \in Words(F), NEW a \in Words(F), NEW c \in Words(F)
    PROVE  Times(F, Xor(a, c), s) = Xor(Times(F, a, s), Times(F, c, s))
BY TimesOfShifted

\* A product with a doubled word is the product doubled.
LEMMA TimesOfDouble ==
    ASSUME NEW F, IsGF(F), NEW a \in Words(F), NEW s \in Words(F)
    PROVE  Times(F, a, Double(F, s)) = Double(F, Times(F, a, s))
<1> DEFINE Good(c) == Times(F, c, Double(F, s)) = Double(F, Times(F, c, s))
           G == {c \in Words(F) : Good(c)}
           d == Double(F, s)
<1>0. d \in Words(F) /\ Zero \in Words(F) /\ One \in Words(F) /\ F.w \in Nat /\ F.w >= 1
  BY WordSums, WordsAre
<1>1. Zero \in G
  <2>1. Times(F, Zero, d) = Zero /\ Times(F, Zero, s) = Zero
    BY <1>0, TimesIs
  <2>2. Double(F, Zero) = Zero
    BY DEF Double, Shl, Zero
  <2> QED BY <1>0, <2>1, <2>2
<1>2. One \in G
  BY <1>0, TimesIs
<1>3. ASSUME NEW i \in Nat, i + 1 < F.w, {i} \in G PROVE {i + 1} \in G
  <2>1. {i + 1} \in Words(F)
    BY <1>3, TimesOfNext
  <2>2. {i} \in Words(F) /\ Times(F, {i}, d) = Double(F, Times(F, {i}, s))
    BY <1>3
  <2>3. Times(F, {i + 1}, d) = Double(F, Times(F, {i}, d)) /\ Times(F, {i + 1}, s) = Double(F, Times(F, {i}, s))
    <3> HIDE DEF d
    <3> QED BY <1>0, <1>3, TimesOfNext
  <2> QED BY <2>1, <2>2, <2>3
<1>4. ASSUME NEW b \in Words(F), NEW c \in Words(F), b \in G, c \in G PROVE Xor(b, c) \in G
  <2>1. Times(F, Xor(b, c), d) = Xor(Times(F, b, d), Times(F, c, d))
    <3> HIDE DEF d
    <3> QED BY <1>0, TimesOfSum
  <2>2. Times(F, Xor(b, c), s) = Xor(Times(F, b, s), Times(F, c, s))
    BY TimesOfSum
  <2>3. Times(F, b, s) \in Words(F) /\ Times(F, c, s) \in Words(F) /\ Xor(b, c) \in Words(F)
    BY WordSums
  <2>4. Double(F, Xor(Times(F, b, s), Times(F, c, s))) = Xor(Double(F, Times(F, b, s)), Double(F, Times(F, c, s)))
    BY <2>3, WordSums
  <2> QED BY <1>4, <2>1, <2>2, <2>3, <2>4
<1> HIDE DEF G
<1>5. a \in G
  BY <1>1, <1>2, <1>3, <1>4, AllWords
<1> QED BY <1>5 DEF G

\* The multiplication of the field is associative and commutative, distributes
\* over the sum and has the unit 1: in every width and for every polynomial, a
\* primitive one or not.
THEOREM TimesIsRing ==
    ASSUME NEW F, IsGF(F), NEW a \in Words(F), NEW b \in Words(F), NEW c \in Words(F)
    PROVE  /\ Times(F, a, b) \in Words(F) /\ Times(F, a, b) = Times(F, b, a)
           /\ Times(F, a, Xor(b, c)) = Xor(Times(F, a, b), Times(F, a, c))
           /\ Times(F, One, a) = a
           /\ Times(F, Times(F, a, b), c) = Times(F, a, Times(F, b, c))
<1> DEFINE bc == Times(F, b, c)
           Good(d) == Times(F, Times(F, d, b), c) = Times(F, d, bc)
           G == {d \in Words(F) : Good(d)}
<1>0. bc \in Words(F) /\ Zero \in Words(F) /\ One \in Words(F) /\ F.w \in Nat /\ F.w >= 1
  BY WordSums, WordsAre
<1>1. Zero \in G
  <2>1. Times(F, Zero, b) = Zero /\ Times(F, Zero, c) = Zero /\ Times(F, Zero, bc) = Zero
    BY <1>0, TimesIs
  <2> QED BY <1>0, <2>1
<1>2. One \in G
  <2>1. Times(F, One, b) = b /\ Times(F, One, bc) = bc
    BY <1>0, TimesIs
  <2> QED BY <1>0, <2>1
<1>3. ASSUME NEW i \in Nat, i + 1 < F.w, {i} \in G PROVE {i + 1} \in G
  <2> DEFINE p == Times(F, {i}, b)
  <2>1. {i + 1} \in Words(F)
    BY <1>3, TimesOfNext
  <2>2. {i} \in Words(F) /\ Times(F, p, c) = Times(F, {i}, bc)
    BY <1>3
  <2>3. Times(F, {i + 1}, b) = Double(F, p) /\ Times(F, {i + 1}, bc) = Double(F, Times(F, {i}, bc))
    <3> HIDE DEF bc
    <3> QED BY <1>0, <1>3, TimesOfNext
  <2>4. p \in Words(F) /\ Double(F, p) \in Words(F)
    BY <2>2, WordSums
  <2> HIDE DEF p
  <2>5. Times(F, Double(F, p), c) = Double(F, Times(F, p, c))
    <3>1. Times(F, c, Double(F, p)) = Double(F, Times(F, c, p))
      BY <2>4, TimesOfDouble
    <3>2. Times(F, c, Double(F, p)) = Times(F, Double(F, p), c) /\ Times(F, c, p) = Times(F, p, c)
      BY <2>4, WordSums
    <3> QED BY <3>1, <3>2
  <2> QED BY <2>1, <2>2, <2>3, <2>5
<1>4. ASSUME NEW d \in Words(F), NEW e \in Words(F), d \in G, e \in G PROVE Xor(d, e) \in G
  <2>1. /\ Times(F, Xor(d, e), b) = Xor(Times(F, d, b), Times(F, e, b))
        /\ Times(F, Xor(d, e), bc) = Xor(Times(F, d, bc), Times(F, e, bc))
    <3> HIDE DEF bc
    <3> QED BY <1>0, TimesOfSum
  <2>2. Times(F, d, b) \in Words(F) /\ Times(F, e, b) \in Words(F) /\ Xor(d, e) \in Words(F)
    BY WordSums
  <2>3. Times(F, Xor(Times(F, d, b), Times(F, e, b)), c) = Xor(Times(F, Times(F, d, b), c), Times(F, Times(F, e, b), c))
    BY <2>2, WordSums
  <2> QED BY <1>4, <2>1, <2>2, <2>3
<1> HIDE DEF G
<1>5. a \in G
  BY <1>1, <1>2, <1>3, <1>4, AllWords
<1>6. Times(F, Times(F, a, b), c) = Times(F, a, bc)
  BY <1>5 DEF G
<1>7. Times(F, a, Xor(b, c)) = Xor(Times(F, a, b), Times(F, a, c))
  BY WordSums
<1>8. Times(F, a, b) \in Words(F) /\ Times(F, a, b) = Times(F, b, a)
  BY WordSums
<1>9. Times(F, One, a) = a
  BY TimesIs
<1> QED BY <1>6, <1>7, <1>8, <1>9

\* What a method returns for a product, called with two words.
Called(mult, a, b) == mult[<<a, b>>]

\* A quotient computed as the product with the inverse undoes the product,
\* where the inverse is one: the divisions of every method that has no other.
THEOREM DivisionUndoes ==
    ASSUME NEW F, IsGF(F), NEW a \in Words(F), NEW b \in Words(F), NEW mult, NEW inv,
           \A s, t \in Words(F) : Called(mult, s, t) = Times(F, s, t),
           inv[b] \in Words(F), Times(F, inv[b], b) = One
    PROVE  /\ Times(F, GfWgenDivideFromInverse(a, b, mult, inv), b) = a
           /\ Times(F, GfW8DivideFromInverse(mult, inv, a, b), b) = a
           /\ Times(F, GfW16DivideFromInverse(mult, inv, a, b), b) = a
<1>1. /\ GfWgenDivideFromInverse(a, b, mult, inv) = Called(mult, a, inv[b])
      /\ GfW8DivideFromInverse(mult, inv, a, b) = Called(mult, a, inv[b])
      /\ GfW16DivideFromInverse(mult, inv, a, b) = Called(mult, a, inv[b])
  BY Zenon DEF Called, GfWgenDivideFromInverse, GfW8DivideFromInverse, GfW16DivideFromInverse
<1>2. Called(mult, a, inv[b]) = Times(F, a, inv[b])
  OBVIOUS
<1> DEFINE i == inv[b]
<1>3. i \in Words(F) /\ Times(F, i, b) = One /\ One \in Words(F)
  BY WordSums
<1> HIDE DEF i
<1>4. Times(F, Times(F, a, i), b) = Times(F, a, One)
  BY <1>3, TimesIsRing
<1>5. Times(F, a, One) = a
  BY <1>3, TimesIsRing
<1> QED BY <1>1, <1>2, <1>4, <1>5 DEF i

-----------------------------------------------------------------------------
(* Powers of a word, and those of x: when they are all words but 0. *)

\* Power squares and multiplies; what it computes is the product of so many.
LEMMA PowerIs ==
    ASSUME NEW F, IsGF(F), NEW a \in Words(F)
    PROVE  /\ Power(F, a, 0) = One
           /\ \A m \in Nat : /\ Power(F, a, m) \in Words(F)
                             /\ Power(F, a, m + 1) = Times(F, Power(F, a, m), a)
           /\ \A m, n \in Nat : Power(F, a, m + n) = Times(F, Power(F, a, m), Power(F, a, n))
<1> DEFINE by == [p \in Words(F) |-> Times(F, p, a)]
           Value(f, m) == IF m = 0 THEN One
                          ELSE LET half == f[m \div 2]
                                   even == Times(F, half, half)
                               IN  IF m % 2 = 0 THEN even ELSE Times(F, even, a)
           power == CHOOSE f : f = [m \in Nat |-> Value(f, m)]
<1>1. One \in Words(F) /\ by \in [Words(F) -> Words(F)]
  BY WordSums
<1>2. PICK h \in [Nat -> Words(F)] : h[0] = One /\ \A i \in Nat : h[i + 1] = by[h[i]]
  <2> HIDE DEF by
  <2> QED BY <1>1, EndlessLoop
<1>3. \A i \in Nat : h[i] \in Words(F) /\ h[i + 1] = Times(F, h[i], a)
  BY <1>2
<1>4. ASSUME NEW m \in Nat, NEW n \in Nat PROVE h[m + n] = Times(F, h[m], h[n])
  <2> DEFINE G == {k \in Nat : h[m + k] = Times(F, h[m], h[k])}
  <2>1. 0 \in G
    <3>1. h[m] \in Words(F) /\ m + 0 = m
      BY <1>3
    <3>2. Times(F, h[m], One) = h[m]
      BY <1>1, <3>1, TimesIsRing
    <3> QED BY <1>2, <3>1, <3>2
  <2>2. ASSUME NEW k \in Nat, k >= 0, k \in G PROVE k + 1 \in G
    <3>1. h[m + k] = Times(F, h[m], h[k]) /\ m + k \in Nat /\ m + (k + 1) = (m + k) + 1
      BY <2>2
    <3>2. h[m + (k + 1)] = Times(F, Times(F, h[m], h[k]), a)
      BY <1>3, <3>1
    <3>3. h[m] \in Words(F) /\ h[k] \in Words(F) /\ h[k + 1] = Times(F, h[k], a)
      BY <1>3
    <3>4. Times(F, Times(F, h[m], h[k]), a) = Times(F, h[m], Times(F, h[k], a))
      BY <3>3, TimesIsRing
    <3> QED BY <3>2, <3>3, <3>4
  <2> HIDE DEF G
  <2>3. n \in G
    BY <2>1, <2>2, Upwards
  <2> QED BY <2>3 DEF G
<1>5. \A m \in Nat : Power(F, a, m) = power[m]
  BY DEF Power
<1>6. ASSUME NEW m \in Nat, m # 0
      PROVE  /\ m \div 2 \in Nat /\ m \div 2 < m
             /\ m % 2 = 0 => m = m \div 2 + m \div 2
             /\ m % 2 # 0 => m = (m \div 2 + m \div 2) + 1
  BY <1>6
<1>7. \A m \in Nat : h[m] = Value(h, m)
  <2> SUFFICES ASSUME NEW m \in Nat, m # 0 PROVE h[m] = Value(h, m)
    BY <1>2
  <2> DEFINE k == m \div 2
  <2>1. k \in Nat /\ k + k \in Nat /\ (m % 2 = 0 => m = k + k) /\ (m % 2 # 0 => m = (k + k) + 1)
    BY <1>6
  <2>2. Value(h, m) = IF m % 2 = 0 THEN Times(F, h[k], h[k]) ELSE Times(F, Times(F, h[k], h[k]), a)
    OBVIOUS
  <2> HIDE DEF k, Value
  <2>3. h[k + k] = Times(F, h[k], h[k]) /\ h[(k + k) + 1] = Times(F, h[k + k], a)
    BY <1>3, <1>4, <2>1
  <2> QED BY <2>1, <2>2, <2>3
<1>8. h = [m \in Nat |-> Value(h, m)]
  <2> HIDE DEF Value
  <2> QED BY <1>2, <1>7
<1>9. power = [m \in Nat |-> Value(power, m)]
  <2> HIDE DEF Value
  <2> QED BY <1>8
<1> HIDE DEF power
<1>10. \A m \in Nat : power[m] = h[m]
  <2> DEFINE T == {m \in Nat : power[m] # h[m]}
  <2> SUFFICES ASSUME T # {} PROVE FALSE
    OBVIOUS
  <2>1. PICK m \in T : \A k \in T : m <= k
    <3>1. T \in SUBSET Nat
      OBVIOUS
    <3> HIDE DEF T
    <3> QED BY <3>1, LeastNat
  <2>2. m \in Nat /\ power[m] # h[m]
    BY <2>1
  <2>3. power[m] = Value(power, m)
    <3> HIDE DEF Value, T
    <3> QED BY <1>9, <2>2
  <2>4. m # 0
    BY <1>2, <2>2, <2>3
  <2>5. m \div 2 \in Nat /\ m \div 2 \notin T
    BY <1>6, <2>1, <2>2, <2>4
  <2>6. power[m \div 2] = h[m \div 2]
    BY <2>5
  <2>7. Value(power, m) = Value(h, m)
    BY <2>6
  <2> QED BY <1>7, <2>2, <2>3, <2>7
<1>11. \A m \in Nat : Power(F, a, m) = h[m]
  BY <1>5, <1>10
<1> HIDE DEF by, Value
<1>12. \A m \in Nat : m + 1 \in Nat
  OBVIOUS
<1>13. \A m, n \in Nat : m + n \in Nat
  OBVIOUS
<1>14. ASSUME NEW m \in Nat
       PROVE  Power(F, a, m) \in Words(F) /\ Power(F, a, m + 1) = Times(F, Power(F, a, m), a)
  BY <1>3, <1>11, <1>12
<1>15. ASSUME NEW m \in Nat, NEW n \in Nat
       PROVE  Power(F, a, m + n) = Times(F, Power(F, a, m), Power(F, a, n))
  BY <1>4, <1>11, <1>13
<1>16. Power(F, a, 0) = One
  BY <1>2, <1>11
<1> QED BY <1>14, <1>15, <1>16

\* A power of a power.
LEMMA PowerOfPower ==
    ASSUME NEW F, IsGF(F), NEW a \in Words(F), NEW i \in Nat, NEW j \in Nat
    PROVE  /\ Power(F, a, i * j) = Power(F, Power(F, a, i), j)
           /\ Power(F, One, j) = One
<1> DEFINE b == Power(F, a, i)
           G == {k \in Nat : Power(F, a, i * k) = Power(F, b, k) /\ Power(F, One, k) = One}
<1>1. b \in Words(F) /\ One \in Words(F)
  BY PowerIs, WordSums
<1>2. 0 \in G
  <2>1. i * 0 = 0
    OBVIOUS
  <2> QED BY <1>1, <2>1, PowerIs
<1>3. ASSUME NEW k \in Nat, k >= 0, k \in G PROVE k + 1 \in G
  <2>1. i * k \in Nat /\ i * (k + 1) = i * k + i
    OBVIOUS
  <2> HIDE DEF b
  <2>2. Power(F, b, k + 1) = Times(F, Power(F, b, k), b) /\ Power(F, One, k + 1) = Times(F, Power(F, One, k), One)
    BY <1>1, PowerIs
  <2>3. Power(F, a, i * (k + 1)) = Times(F, Power(F, a, i * k), b)
    BY <2>1, PowerIs DEF b
  <2>4. Times(F, One, One) = One
    BY <1>1, TimesIsRing
  <2> QED BY <1>3, <2>2, <2>3, <2>4
<1> HIDE DEF G
<1>4. j \in G
  BY <1>2, <1>3, Upwards
<1> QED BY <1>4 DEF G

\* x, as a word of the field, and the order of its group if it has one.
X(F) == Double(F, One)
Order(F) == 2 ^ F.w - 1

\* The divisors of a number below a bound, their cofactors, and the primes.
SmallOf(n, s) == {d \in 2..s : n % d = 0}
DivisorsOf(n, s) == (SmallOf(n, s) \cup {n \div d : d \in SmallOf(n, s)} \cup {n}) \ {1}
PrimesOf(n, s) == {p \in DivisorsOf(n, s) : \A d \in DivisorsOf(n, s) : d < p => p % d # 0}

\* Divisibility, by factors.
LEMMA Factors ==
    ASSUME NEW n \in Nat \ {0}, NEW d \in Nat \ {0}
    PROVE  /\ n % d = 0 => /\ n \div d \in Nat \ {0} /\ n = d * (n \div d)
                           /\ d <= n /\ n \div d <= n
           /\ \A c \in Nat : n = d * c => n % d = 0 /\ n \div d = c
<1>1. n = d * (n \div d) + (n % d) /\ n % d \in 0..(d - 1) /\ n \div d \in Nat
  BY DivMod
<1>2. ASSUME n % d = 0 PROVE n \div d \in Nat \ {0} /\ n = d * (n \div d) /\ d <= n /\ n \div d <= n
  <2> DEFINE q == n \div d
  <2>1. q \in Nat /\ n = d * q
    BY <1>1, <1>2
  <2> HIDE DEF q
  <2>2. q # 0
    BY <2>1
  <2>3. d * q >= d /\ d * q >= q
    <3>1. q - 1 \in Nat /\ d - 1 \in Nat
      BY <2>1, <2>2
    <3>2. d * (q - 1) \in Nat /\ (d - 1) * q \in Nat
      BY <2>1, <3>1
    <3>3. d * q = d * (q - 1) + d /\ d * q = (d - 1) * q + q
      BY <2>1
    <3> QED BY <2>1, <3>2, <3>3
  <2>4. d <= n /\ q <= n
    BY <2>1, <2>3
  <2> QED BY <2>1, <2>2, <2>4 DEF q
<1>3. ASSUME NEW c \in Nat, n = d * c PROVE n % d = 0 /\ n \div d = c
  <2>1. 0 \in 0..(d - 1)
    OBVIOUS
  <2>2. (d * c + 0) \div d = c /\ (d * c + 0) % d = 0
    BY <2>1, DivModOf
  <2>3. d * c + 0 = n
    BY <1>3
  <2> QED BY <2>2, <2>3
<1> QED BY <1>2, <1>3

\* A proper divisor divides the cofactor of a prime.
LEMMA PrimeCofactor ==
    ASSUME NEW n \in Nat \ {0}, NEW s \in Nat, n < s * s, NEW d \in Nat \ {0}, d < n, n % d = 0
    PROVE  \E p \in PrimesOf(n, s) : \E e \in Nat : n \div p = d * e
<1> DEFINE q == n \div d
           T == {k \in Nat : k > 1 /\ q % k = 0}
<1>1. q \in Nat \ {0} /\ n = d * q
  BY Factors
<1>2. q # 1
  BY <1>1
<1> HIDE DEF q
<1>3. T \in SUBSET Nat /\ q \in T
  <2>1. q % q = 0
    <3>1. q = q * 1
      BY <1>1
    <3> QED BY <1>1, <3>1, Factors
  <2> QED BY <1>1, <1>2, <2>1
<1>4. PICK p \in T : \A k \in T : p <= k
  <2> HIDE DEF T
  <2> QED BY <1>3, LeastNat
<1>5. p \in Nat \ {0} /\ p > 1 /\ q % p = 0
  BY <1>4
<1> DEFINE c == q \div p
<1>6. c \in Nat \ {0} /\ q = p * c
  BY <1>1, <1>5, Factors
<1> HIDE DEF c
<1>7. n = p * (d * c) /\ d * c \in Nat
  BY <1>1, <1>5, <1>6
<1>8. n % p = 0 /\ n \div p = d * c /\ p <= n /\ d * c \in Nat \ {0}
  <2>1. n % p = 0 /\ n \div p = d * c
    BY <1>5, <1>7, Factors
  <2>2. p <= n /\ n \div p \in Nat \ {0}
    BY <1>5, <2>1, Factors
  <2> QED BY <2>1, <2>2
<1>9. p \in DivisorsOf(n, s)
  <2>1. CASE p <= s
    <3>1. p \in SmallOf(n, s)
      BY <1>5, <1>8, <2>1 DEF SmallOf
    <3> QED BY <1>5, <3>1 DEF DivisorsOf
  <2>2. CASE p > s /\ d * c = 1
    <3>1. p = n
      BY <1>5, <1>7, <2>2
    <3> QED BY <1>5, <3>1 DEF DivisorsOf
  <2>3. CASE p > s /\ d * c # 1
    <3> DEFINE m == d * c
    <3>1. m \in Nat /\ m >= 2 /\ n = p * m
      BY <1>7, <1>8, <2>3
    <3> HIDE DEF m
    <3>2. m <= s
      <4> SUFFICES ASSUME m > s PROVE FALSE
        BY <3>1
      <4>1. (p - s) * m \in Nat /\ s * (m - s) \in Nat
        BY <1>5, <2>3, <3>1
      <4>2. p * m = (p - s) * m + (s * (m - s) + s * s)
        BY <1>5, <3>1
      <4>3. s * s \in Nat
        OBVIOUS
      <4> QED BY <3>1, <4>1, <4>2, <4>3
    <3>3. n = m * p
      BY <1>5, <3>1
    <3>4. n % m = 0 /\ n \div m = p
      BY <1>5, <3>1, <3>3, Factors
    <3>5. m \in SmallOf(n, s)
      BY <3>1, <3>2, <3>4 DEF SmallOf
    <3>6. p \in {n \div k : k \in SmallOf(n, s)}
      BY <3>4, <3>5
    <3> QED BY <1>5, <3>6 DEF DivisorsOf
  <2> QED BY <1>5, <2>1, <2>2, <2>3
<1>10. ASSUME NEW k \in DivisorsOf(n, s), k < p PROVE p % k # 0
  <2> SUFFICES ASSUME p % k = 0 PROVE FALSE
    OBVIOUS
  <2>1. k \in Nat /\ k > 1
    <3>1. CASE k \in SmallOf(n, s)
      BY <3>1 DEF SmallOf
    <3>2. CASE k \in {n \div l : l \in SmallOf(n, s)}
      <4>1. PICK l \in SmallOf(n, s) : k = n \div l
        BY <3>2
      <4>2. l \in Nat \ {0} /\ n % l = 0
        BY <4>1 DEF SmallOf
      <4>3. k \in Nat \ {0}
        BY <4>1, <4>2, Factors
      <4>4. k # 1
        BY DEF DivisorsOf
      <4> QED BY <4>3, <4>4
    <3>3. CASE k = n
      BY <1>8, <3>3, <1>5
    <3> QED BY <3>1, <3>2, <3>3 DEF DivisorsOf
  <2>2. p \div k \in Nat /\ p = k * (p \div k)
    BY <1>5, <2>1, Factors
  <2> DEFINE f == p \div k
  <2>3. f \in Nat /\ p = k * f
    BY <2>2
  <2> HIDE DEF f
  <2>4. f * c \in Nat /\ q = k * (f * c)
    BY <1>6, <2>1, <2>3
  <2>5. q % k = 0
    BY <1>1, <2>1, <2>4, Factors
  <2>6. k \in T
    BY <2>1, <2>5
  <2> HIDE DEF T
  <2> QED BY <1>4, <1>5, <2>1, <2>6, <1>10
<1>11. p \in PrimesOf(n, s)
  BY <1>9, <1>10 DEF PrimesOf
<1> QED BY <1>6, <1>8, <1>11

\* Powers of two: their product, and that they grow.
LEMMA PowSum ==
    ASSUME NEW i \in Nat, NEW j \in Nat
    PROVE  2^(i + j) = 2^i * 2^j /\ 2^i \in Nat \ {0} /\ 2^i <= 2^(i + j)
<1> DEFINE G == {k \in Nat : 2^(i + k) = 2^i * 2^k}
<1>1. 2^i \in Nat \ {0} /\ 2^j \in Nat \ {0}
  BY PowDivides
<1>2. 0 \in G
  <2>1. 2^0 = 1 /\ i + 0 = i
    OBVIOUS
  <2> QED BY <1>1, <2>1
<1>3. ASSUME NEW k \in Nat, k >= 0, k \in G PROVE k + 1 \in G
  <2>1. 2^(i + k) = 2^i * 2^k /\ i + k \in Nat /\ i + (k + 1) = (i + k) + 1
    BY <1>3
  <2>2. 2^((i + k) + 1) = 2 * 2^(i + k) /\ 2^(k + 1) = 2 * 2^k /\ 2^k \in Nat
    BY <2>1, PowNext
  <2>3. 2 * (2^i * 2^k) = 2^i * (2 * 2^k)
    BY <1>1, <2>2
  <2> QED BY <2>1, <2>2, <2>3
<1> HIDE DEF G
<1>4. j \in G
  BY <1>2, <1>3, Upwards
<1>5. 2^(i + j) = 2^i * 2^j
  BY <1>4 DEF G
<1> DEFINE u == 2^i
           v == 2^j
<1>6. u \in Nat /\ v - 1 \in Nat
  BY <1>1
<1>7. u * v = u + u * (v - 1) /\ u * (v - 1) \in Nat
  <2> DEFINE z == v - 1
  <2>1. z \in Nat /\ v = z + 1
    BY <1>1, <1>6
  <2> HIDE DEF u, v, z
  <2>2. u * z \in Nat /\ u * (z + 1) = u + u * z
    BY <1>6, <2>1
  <2>3. z = v - 1
    BY DEF z
  <2> QED BY <2>1, <2>2, <2>3
<1> QED BY <1>1, <1>5, <1>6, <1>7

\* A power of x; and that they are all the words but 0, each once.
XP(F, i) == Power(F, X(F), i)
Turns(F) == 0..(Order(F) - 1)
Cycle(F) ==
    /\ \A i, j \in Turns(F) : Times(F, XP(F, i), XP(F, j)) = XP(F, (i + j) % Order(F))
    /\ \A i, j \in Turns(F) : XP(F, i) = XP(F, j) => i = j
    /\ {XP(F, i) : i \in Turns(F)} = Words(F) \ {Zero}

\* How many words there are, and as many turns as words that are not 0.
LEMMA WordCount ==
    ASSUME NEW F, IsGF(F)
    PROVE  /\ IsFiniteSet(Words(F)) /\ Cardinality(Words(F)) = 2^F.w
           /\ IsFiniteSet(Words(F) \ {Zero}) /\ Cardinality(Words(F) \ {Zero}) = Order(F)
           /\ Order(F) \in Nat \ {0} /\ 2^F.w = Order(F) + 1
           /\ IsFiniteSet(Turns(F)) /\ Cardinality(Turns(F)) = Order(F) /\ 0 \in Turns(F)
<1>1. F.w \in Nat /\ F.w >= 1
  BY DEF IsGF
<1>2. IsFiniteSet(0..(F.w - 1)) /\ Cardinality(0..(F.w - 1)) = F.w
  <2>1. 0 \in Int /\ F.w - 1 \in Int /\ 0 <= F.w - 1 /\ (F.w - 1) - 0 + 1 = F.w
    BY <1>1
  <2> QED BY <2>1, FS_Interval
<1>3. IsFiniteSet(Words(F)) /\ Cardinality(Words(F)) = 2^F.w
  BY <1>2, FS_SUBSET DEF Words
<1>4. Zero \in Words(F)
  BY WordSums, <1>1 DEF Zero, Words
<1>5. IsFiniteSet(Words(F) \ {Zero}) /\ Cardinality(Words(F) \ {Zero}) = Cardinality(Words(F)) - 1
  BY <1>3, <1>4, FS_RemoveElement
<1>6. 2^F.w \in Nat /\ 2^F.w >= 2
  <2>0. F.w - 1 \in Nat /\ F.w - 1 <= F.w - 1
    BY <1>1
  <2>1. 2^(F.w - 1) \in Nat \ {0}
    BY <2>0, PowDivides
  <2>2. 2^((F.w - 1) + 1) = 2 * 2^(F.w - 1)
    BY <2>0, PowNext
  <2>3. (F.w - 1) + 1 = F.w
    BY <1>1
  <2> QED BY <2>1, <2>2, <2>3
<1>7. Order(F) \in Nat \ {0} /\ 2^F.w = Order(F) + 1
  BY <1>6 DEF Order
<1>8. IsFiniteSet(Turns(F)) /\ Cardinality(Turns(F)) = Order(F)
  <2>1. 0 \in Int /\ Order(F) - 1 \in Int /\ 0 <= Order(F) - 1 /\ (Order(F) - 1) - 0 + 1 = Order(F)
    BY <1>7
  <2> QED BY <2>1, FS_Interval DEF Turns
<1>9. 0 \in Turns(F)
  BY <1>7 DEF Turns
<1> QED BY <1>3, <1>5, <1>7, <1>8, <1>9

\* The powers of x are words; the next is the double of one.
LEMMA XPIs ==
    ASSUME NEW F, IsGF(F)
    PROVE  /\ X(F) \in Words(F) /\ XP(F, 0) = One
           /\ F.w >= 2 => X(F) = {1} /\ \A i \in Nat : XP(F, i) = PowerOfX(F, i)
           /\ \A i \in Nat : XP(F, i) \in Words(F) /\ XP(F, i + 1) = Double(F, XP(F, i))
           /\ \A i, j \in Nat : XP(F, i + j) = Times(F, XP(F, i), XP(F, j))
<1>1. One \in Words(F) /\ X(F) \in Words(F)
  <2>1. Zero \in Words(F)
    BY DEF Zero, Words
  <2>2. One \in Words(F)
    BY <2>1, WordSums
  <2> QED BY <2>2, WordSums DEF X
<1>2. ASSUME F.w >= 2 PROVE X(F) = {1}
  <2>1. F.w - 1 \notin One /\ Shl(One, 1) = {1}
    BY <1>2 DEF One, Shl, IsGF
  <2> QED BY <2>1 DEF X, Double
<1>3. ASSUME NEW i \in Nat PROVE XP(F, i) \in Words(F) /\ XP(F, i + 1) = Double(F, XP(F, i))
  <2>1. XP(F, i) \in Words(F) /\ XP(F, i + 1) = Times(F, XP(F, i), X(F))
    BY <1>1, PowerIs DEF XP
  <2>2. Times(F, XP(F, i), X(F)) = Double(F, Times(F, XP(F, i), One))
    BY <1>1, <2>1, TimesOfDouble DEF X
  <2>3. Times(F, XP(F, i), One) = XP(F, i)
    BY <1>1, <2>1, TimesIsRing
  <2> QED BY <2>1, <2>2, <2>3
<1>4. ASSUME NEW i \in Nat, NEW j \in Nat PROVE XP(F, i + j) = Times(F, XP(F, i), XP(F, j))
  BY <1>1, PowerIs DEF XP
<1>5. XP(F, 0) = One
  BY <1>1, PowerIs DEF XP
<1>6. F.w >= 2 => \A i \in Nat : XP(F, i) = PowerOfX(F, i)
  BY <1>2 DEF XP, PowerOfX
<1> QED BY <1>1, <1>2, <1>3, <1>4, <1>5, <1>6

\* The row of powers holds them in their order.
LEMMA RowIs ==
    ASSUME NEW F, IsGF(F)
    PROVE  /\ Len(PowerRow(F)) = 2^F.w
           /\ \A i \in 0..(2^F.w - 1) : PowerRow(F)[i + 1] = XP(F, i)
<1> DEFINE Value(f, k) ==
               IF k = 0 THEN <<One>>
               ELSE LET row  == f[k - 1]
                        next == Double(F, row[Len(row)])
                    IN  row \o [i \in 1..Len(row) |-> Times(F, row[i], next)]
           rows == CHOOSE f : f = [k \in 0..F.w |-> Value(f, k)]
           part(k) == [i \in 1..(2^k) |-> XP(F, i - 1)]
           v == [k \in 0..F.w |-> part(k)]
<1>0. F.w \in Nat
  BY DEF IsGF
<1>1. PowerRow(F) = rows[F.w]
  BY DEF PowerRow
<1>2. \A k \in Nat : 2^k \in Nat \ {0} /\ 2^(k + 1) = 2 * 2^k
  BY PowNext, PowDivides
<1>3. ASSUME NEW k \in Nat
      PROVE  part(k) \in Seq(Words(F)) /\ Len(part(k)) = 2^k /\ \A i \in 1..(2^k) : part(k)[i] = XP(F, i - 1)
  <2>1. \A i \in 1..(2^k) : XP(F, i - 1) \in Words(F)
    BY <1>2, XPIs
  <2>2. part(k) \in [1..(2^k) -> Words(F)] /\ 2^k \in Nat
    BY <1>2, <2>1
  <2>3. \A i \in 1..(2^k) : part(k)[i] = XP(F, i - 1)
    OBVIOUS
  <2> HIDE DEF part
  <2>4. part(k) \in Seq(Words(F)) /\ Len(part(k)) = 2^k
    BY <2>2
  <2> QED BY <2>3, <2>4
<1>4. part(0) = <<One>>
  <2>1. 2^0 = 1
    OBVIOUS
  <2> HIDE DEF part
  <2>2. Len(part(0)) = 2^0 /\ part(0) \in Seq(Words(F)) /\ \A i \in 1..(2^0) : part(0)[i] = XP(F, i - 1)
    BY <1>3
  <2>3. XP(F, 0) = One /\ 1 \in 1..1 /\ 1 - 1 = 0
    BY XPIs
  <2>4. part(0)[1] = One
    BY <2>1, <2>2, <2>3
  <2> QED BY <2>1, <2>2, <2>4
<1>5. ASSUME NEW k \in Nat
      PROVE  part(k + 1) = part(k) \o [i \in 1..Len(part(k)) |-> Times(F, part(k)[i], Double(F, part(k)[Len(part(k))]))]
  <2> DEFINE n == 2^k
             next == Double(F, part(k)[Len(part(k))])
             more == [i \in 1..Len(part(k)) |-> Times(F, part(k)[i], next)]
  <2>1. n \in Nat \ {0} /\ 2^(k + 1) = n + n
    BY <1>2
  <2>2. Len(part(k)) = n /\ part(k) \in Seq(Words(F)) /\ \A i \in 1..n : part(k)[i] = XP(F, i - 1)
    BY <1>3
  <2>3. Len(part(k + 1)) = n + n /\ part(k + 1) \in Seq(Words(F)) /\ \A i \in 1..(n + n) : part(k + 1)[i] = XP(F, i - 1)
    BY <1>3, <2>1
  <2> HIDE DEF part, n
  <2>4. next = XP(F, n)
    <3>1. next = Double(F, XP(F, n - 1)) /\ n - 1 \in Nat /\ (n - 1) + 1 = n
      BY <2>1, <2>2
    <3> QED BY <3>1, XPIs
  <2> HIDE DEF next
  <2>5. ASSUME NEW i \in 1..n PROVE Times(F, part(k)[i], next) = XP(F, (n + i) - 1) /\ XP(F, (n + i) - 1) \in Words(F)
    <3>1. i - 1 \in Nat /\ (i - 1) + n = (n + i) - 1 /\ (n + i) - 1 \in Nat /\ n \in Nat
      BY <2>1
    <3>2. XP(F, (i - 1) + n) = Times(F, XP(F, i - 1), XP(F, n))
      BY <3>1, XPIs
    <3>3. XP(F, (n + i) - 1) \in Words(F)
      BY <3>1, XPIs
    <3> QED BY <2>2, <2>4, <3>1, <3>2, <3>3
  <2>6. more \in Seq(Words(F)) /\ Len(more) = n /\ \A i \in 1..n : more[i] = XP(F, (n + i) - 1)
    <3>1. more = [i \in 1..n |-> Times(F, part(k)[i], next)]
      BY <2>2
    <3>2. more \in [1..n -> Words(F)] /\ \A i \in 1..n : more[i] = XP(F, (n + i) - 1)
      BY <2>5, <3>1
    <3> HIDE DEF more
    <3> QED BY <2>1, <3>2
  <2> HIDE DEF more
  <2>7. part(k) \o more \in Seq(Words(F)) /\ Len(part(k) \o more) = n + n
    <3>1. part(k) \in Seq(Words(F)) /\ more \in Seq(Words(F)) /\ Len(part(k)) = n /\ Len(more) = n
      BY <2>2, <2>6
    <3> QED BY ONLY <3>1, ConcatProperties
  <2>8. ASSUME NEW i \in 1..(n + n) PROVE (part(k) \o more)[i] = XP(F, i - 1)
    <3>1. CASE i <= n
      <4>1. i \in 1..n
        BY <2>1, <3>1
      <4>2. (part(k) \o more)[i] = part(k)[i]
        BY <2>1, <2>2, <2>6, <4>1
      <4> QED BY <2>2, <4>1, <4>2
    <3>2. CASE i > n
      <4>1. i - n \in 1..n /\ (n + (i - n)) - 1 = i - 1
        BY <2>1, <3>2
      <4>2. (part(k) \o more)[i] = more[i - n]
        BY <2>1, <2>2, <2>6, <3>2
      <4> QED BY <2>6, <4>1, <4>2
    <3>3. n \in Nat
      BY <2>1
    <3>4. i <= n \/ i > n
      BY <3>3
    <3> QED BY ONLY <3>1, <3>2, <3>4
  <2>9. part(k + 1) = part(k) \o more
    <3> DEFINE both == part(k) \o more
    <3>1. both \in Seq(Words(F)) /\ Len(both) = n + n /\ \A i \in 1..(n + n) : both[i] = XP(F, i - 1)
      BY <2>7, <2>8
    <3> HIDE DEF both
    <3>2. part(k + 1) = both
      BY <2>3, <3>1, SeqEqual
    <3> QED BY <3>2 DEF both
  <2> QED BY <2>9 DEF more, next
<1> HIDE DEF part
<1>6. \A k \in 0..F.w : v[k] = Value(v, k)
  <2> SUFFICES ASSUME NEW k \in 0..F.w PROVE v[k] = Value(v, k)
    OBVIOUS
  <2>1. CASE k = 0
    BY <1>4, <2>1
  <2>2. CASE k # 0
    <3>1. k - 1 \in Nat /\ k - 1 \in 0..F.w /\ (k - 1) + 1 = k
      BY <1>0, <2>2
    <3>2. v[k] = part(k) /\ v[k - 1] = part(k - 1)
      BY <3>1
    <3>3. part(k) = part(k - 1) \o [i \in 1..Len(part(k - 1)) |-> Times(F, part(k - 1)[i], Double(F, part(k - 1)[Len(part(k - 1))]))]
      BY <1>5, <3>1
    <3>4. Value(v, k) = v[k - 1] \o [i \in 1..Len(v[k - 1]) |-> Times(F, v[k - 1][i], Double(F, v[k - 1][Len(v[k - 1])]))]
      BY <2>2
    <3> HIDE DEF Value, v
    <3> QED BY <3>2, <3>3, <3>4
  <2> QED BY <2>1, <2>2
<1>7. v = [k \in 0..F.w |-> Value(v, k)]
  <2> HIDE DEF Value
  <2> QED BY <1>6
<1>8. rows = [k \in 0..F.w |-> Value(rows, k)]
  <2> HIDE DEF Value, v
  <2> QED BY <1>7
<1> HIDE DEF rows, v
<1>9. rows[F.w] = v[F.w]
  <2>1. rows[0] = v[0]
    <3>1. 0 \in 0..F.w
      BY <1>0
    <3>2. rows[0] = Value(rows, 0) /\ v[0] = Value(v, 0)
      <4> HIDE DEF Value
      <4> QED BY <1>6, <1>8, <3>1
    <3> QED BY <3>2
  <2>2. ASSUME NEW k \in 0..(F.w - 1), rows[k] = v[k] PROVE rows[k + 1] = v[k + 1]
    <3>1. k + 1 \in 0..F.w /\ (k + 1) - 1 = k /\ k + 1 # 0
      BY <1>0
    <3>2. rows[k + 1] = Value(rows, k + 1) /\ v[k + 1] = Value(v, k + 1)
      <4> HIDE DEF Value
      <4> QED BY <1>6, <1>8, <3>1
    <3>3. Value(rows, k + 1) = Value(v, k + 1)
      BY <2>2, <3>1
    <3> QED BY <3>2, <3>3
  <2> QED BY <1>0, <2>1, <2>2, LoopsAgree
<1>10. PowerRow(F) = part(F.w)
  <2>1. v[F.w] = part(F.w)
    BY <1>0 DEF v
  <2> QED BY <1>1, <1>9, <2>1
<1>11. \A i \in 0..(2^F.w - 1) : i + 1 \in 1..(2^F.w) /\ (i + 1) - 1 = i
  BY <1>0, <1>2
<1>12. Len(part(F.w)) = 2^F.w /\ \A i \in 1..(2^F.w) : part(F.w)[i] = XP(F, i - 1)
  BY <1>0, <1>3
<1> QED BY <1>10, <1>11, <1>12

\* Between sets of one size, no value twice means every value, and back.
LEMMA SameSize ==
    ASSUME NEW S, NEW T, IsFiniteSet(S), IsFiniteSet(T), Cardinality(S) = Cardinality(T), NEW f \in [S -> T]
    PROVE  (\A x, y \in S : f[x] = f[y] => x = y) <=> (\A t \in T : \E x \in S : f[x] = t)
<1>1. ASSUME \A x, y \in S : f[x] = f[y] => x = y PROVE \A t \in T : \E x \in S : f[x] = t
  <2>1. f \in Injection(S, T)
    BY <1>1 DEF Injection, IsInjective
  <2>2. f \in Surjection(S, T)
    BY <2>1, FS_Injection
  <2> QED BY <2>2 DEF Surjection
<1>2. ASSUME \A t \in T : \E x \in S : f[x] = t PROVE \A x, y \in S : f[x] = f[y] => x = y
  <2>1. f \in Surjection(S, T)
    BY <1>2 DEF Surjection
  <2>2. f \in Injection(S, T)
    BY <2>1, FS_Surjection
  <2> QED BY <2>2 DEF Injection, IsInjective
<1> QED BY <1>1, <1>2

\* 0 and 1 are words, and not the same.
LEMMA ZeroOneWords == ASSUME NEW F, IsGF(F) PROVE Zero \in Words(F) /\ One \in Words(F) /\ Zero # One
<1>1. Zero \in Words(F)
  BY DEF Zero, Words
<1> QED BY <1>1, WordSums DEF Zero, One

\* In a field of one bit 1 is the only word that is not 0.
LEMMA OneBitCycle == ASSUME NEW F, IsGF(F), F.w = 1 PROVE Cycle(F)
<1>1. Order(F) = 1
  <2>1. 2^1 = 2
    OBVIOUS
  <2> QED BY <2>1 DEF Order
<1>2. Turns(F) = {0}
  BY <1>1 DEF Turns
<1>3. XP(F, 0) = One
  BY XPIs
<1>4. Words(F) \ {Zero} = {One}
  <2>1. 0..(F.w - 1) = {0}
    OBVIOUS
  <2>2. Words(F) = SUBSET {0}
    BY <2>1 DEF Words
  <2> QED BY <2>2 DEF Zero, One
<1>5. Times(F, One, One) = One
  BY ZeroOneWords, TimesIsRing
<1>6. \A i, j \in Turns(F) : Times(F, XP(F, i), XP(F, j)) = XP(F, (i + j) % Order(F))
  <2>1. (0 + 0) % 1 = 0
    OBVIOUS
  <2> QED BY <1>1, <1>2, <1>3, <1>5, <2>1
<1>7. {XP(F, i) : i \in Turns(F)} = {One}
  BY <1>2, <1>3
<1>8. \A i, j \in Turns(F) : XP(F, i) = XP(F, j) => i = j
  BY <1>2
<1> QED BY <1>4, <1>6, <1>7, <1>8 DEF Cycle

\* Powers that return to 1 after so many steps and not before are all words.
LEMMA ReturnIsCycle ==
    ASSUME NEW F, IsGF(F), XP(F, Order(F)) = One,
           \A i, j \in Turns(F) : XP(F, i) = XP(F, j) => i = j
    PROVE  Cycle(F)
<1> DEFINE n == Order(F)
           f == [i \in Turns(F) |-> XP(F, i)]
<1>1. n \in Nat \ {0} /\ Turns(F) = 0..(n - 1)
  BY WordCount DEF Turns
<1> HIDE DEF n
<1>2. ASSUME NEW i \in Turns(F) PROVE XP(F, i) \in Words(F) \ {Zero}
  <2>1. i \in Nat /\ n - i \in Nat /\ i + (n - i) = n
    BY <1>1
  <2>2. XP(F, i) \in Words(F) /\ XP(F, n - i) \in Words(F) /\ XP(F, i + (n - i)) = Times(F, XP(F, i), XP(F, n - i))
    BY <2>1, XPIs
  <2>3. Times(F, Zero, XP(F, n - i)) = Zero
    BY <2>2, TimesIs
  <2>4. XP(F, n) = One
    BY DEF n
  <2> QED BY <2>1, <2>2, <2>3, <2>4, ZeroOneWords
<1>3. \A a \in Words(F) \ {Zero} : \E i \in Turns(F) : XP(F, i) = a
  <2>1. f \in [Turns(F) -> Words(F) \ {Zero}]
    BY <1>2
  <2>2. \A x, y \in Turns(F) : f[x] = f[y] => x = y
    OBVIOUS
  <2>3. /\ IsFiniteSet(Turns(F)) /\ IsFiniteSet(Words(F) \ {Zero})
        /\ Cardinality(Turns(F)) = Cardinality(Words(F) \ {Zero})
    BY WordCount
  <2>4. \A a \in Words(F) \ {Zero} : \E i \in Turns(F) : f[i] = a
    <3> HIDE DEF f
    <3> QED BY <2>1, <2>2, <2>3, SameSize, ZenonT(30)
  <2> QED BY <2>4
<1>4. {XP(F, i) : i \in Turns(F)} = Words(F) \ {Zero}
  BY <1>2, <1>3
<1>5. ASSUME NEW i \in Turns(F), NEW j \in Turns(F)
      PROVE  Times(F, XP(F, i), XP(F, j)) = XP(F, (i + j) % n)
  <2>1. i \in 0..(n - 1) /\ j \in 0..(n - 1) /\ i \in Nat /\ j \in Nat
    BY <1>1
  <2>2. Times(F, XP(F, i), XP(F, j)) = XP(F, i + j)
    BY <2>1, XPIs
  <2>3. CASE i + j < n
    <3>1. (i + j) % n = i + j
      BY <1>1, <2>1, <2>3
    <3> QED BY <2>2, <3>1
  <2>4. CASE i + j >= n
    <3> DEFINE k == (i + j) - n
    <3>1. k \in 0..(n - 1) /\ k \in Nat /\ n \in Nat /\ i + j = n + k /\ n * 1 + k = i + j
      BY <1>1, <2>1, <2>4
    <3> HIDE DEF k
    <3>2. (n * 1 + k) % n = k
      BY <1>1, <3>1, DivModOf
    <3>3. XP(F, n + k) = Times(F, XP(F, n), XP(F, k)) /\ XP(F, k) \in Words(F)
      <4>1. n \in Nat /\ k \in Nat
        BY <3>1
      <4>2. \A l, m \in Nat : XP(F, l + m) = Times(F, XP(F, l), XP(F, m))
        BY XPIs
      <4>3. XP(F, k) \in Words(F)
        BY <4>1, XPIs
      <4> QED BY <4>1, <4>2, <4>3
    <3>4. XP(F, n) = One
      BY DEF n
    <3>5. Times(F, One, XP(F, k)) = XP(F, k)
      BY <3>3, TimesIs
    <3> QED BY <2>2, <3>1, <3>2, <3>3, <3>4, <3>5
  <2> QED BY <1>1, <2>1, <2>3, <2>4
<1> QED BY <1>4, <1>5 DEF Cycle, n

\* What gf_wgen_log_init and gf_w16_log_init find out by filling their tables,
\* and the model by the primes: if no quotient of 2^w - 1 by a prime is an
\* exponent with the power 1, the powers of x are all words but 0, each once.
THEOREM FullOrderIsCycle ==
    ASSUME NEW F, IsGF(F), XHasFullOrder(F)
    PROVE  Cycle(F)
<1> SUFFICES ASSUME F.w # 1 PROVE Cycle(F)
  BY OneBitCycle
<1> DEFINE n == Order(F)
           s == 2 ^ ((F.w + 1) \div 2)
<1>0. F.w \in Nat /\ F.w >= 2
  BY DEF IsGF
<1>1. n \in Nat \ {0} /\ Turns(F) = 0..(n - 1) /\ 2^F.w = n + 1
  BY WordCount DEF Turns
<1>2. PowerOfX(F, n) = One /\ \A p \in PrimesOf(n, s) : PowerOfX(F, n \div p) # One
  BY DEF XHasFullOrder, PrimesOf, DivisorsOf, SmallOf, Order
<1>3. s \in Nat /\ n < s * s
  <2> DEFINE h == (F.w + 1) \div 2
             k == (h + h) - F.w
  <2>1. h \in Nat /\ k \in Nat /\ F.w + k = h + h
    BY <1>0
  <2> HIDE DEF h, k
  <2>2. 2^(h + h) = 2^h * 2^h /\ 2^h \in Nat
    BY <2>1, PowSum
  <2>3. 2^F.w <= 2^(F.w + k) /\ 2^F.w \in Nat
    BY <1>0, <2>1, PowSum
  <2>4. s = 2^h
    BY DEF h
  <2> HIDE DEF s, n
  <2>5. 2^h * 2^h \in Nat
    BY <2>2
  <2> QED BY <1>1, <2>1, <2>2, <2>3, <2>4, <2>5
<1>4. \A i \in Nat : XP(F, i) = PowerOfX(F, i)
  BY <1>0, XPIs
<1> HIDE DEF n, s
<1> DEFINE T == {d \in Nat : d # 0 /\ XP(F, d) = One}
<1>5. T \in SUBSET Nat /\ n \in T
  BY <1>1, <1>2, <1>4
<1>6. PICK d \in T : \A k \in T : d <= k
  <2> HIDE DEF T
  <2> QED BY <1>5, LeastNat
<1>7. d \in Nat \ {0} /\ XP(F, d) = One /\ d <= n
  <2>1. d \in Nat \ {0} /\ XP(F, d) = One
    BY <1>6
  <2>2. d <= n
    <3> HIDE DEF T
    <3> QED BY <1>5, <1>6
  <2> QED BY <2>1, <2>2
<1>8. \A q \in Nat : XP(F, d * q) = One
  <2>1. X(F) \in Words(F)
    BY XPIs
  <2>2. ASSUME NEW q \in Nat PROVE XP(F, d * q) = One
    <3>1. d \in Nat /\ Power(F, X(F), d) = One
      BY <1>7 DEF XP
    <3>2. Power(F, X(F), d * q) = Power(F, Power(F, X(F), d), q)
      BY <2>1, <3>1, PowerOfPower
    <3>3. Power(F, One, q) = One
      BY <2>1, <3>1, PowerOfPower
    <3> QED BY <3>1, <3>2, <3>3 DEF XP
  <2> QED BY <2>2
<1>9. n % d = 0
  <2> DEFINE q == n \div d
             r == n % d
  <2>0. q \in Nat /\ r \in 0..(d - 1) /\ n = d * q + r
    BY <1>1, <1>7, DivMod
  <2> HIDE DEF q, r
  <2>1. q \in Nat /\ r \in 0..(d - 1) /\ n = d * q + r /\ d * q \in Nat /\ r \in Nat
    <3>1. d \in Nat
      BY <1>7
    <3> QED BY <2>0, <3>1
  <2>2. XP(F, d * q + r) = Times(F, XP(F, d * q), XP(F, r)) /\ XP(F, r) \in Words(F)
    BY <2>1, XPIs
  <2>3. XP(F, d * q) = One
    BY <1>8, <2>1
  <2>4. Times(F, One, XP(F, r)) = XP(F, r)
    BY <2>2, TimesIs
  <2>5. XP(F, r) = One
    BY <1>2, <1>4, <1>1, <2>1, <2>2, <2>3, <2>4
  <2>6. r = 0
    <3> SUFFICES ASSUME r # 0 PROVE FALSE
      OBVIOUS
    <3>1. r \in T /\ ~(d <= r)
      BY <1>7, <2>1, <2>5
    <3> HIDE DEF T
    <3> QED BY <1>6, <3>1
  <2> QED BY <2>6 DEF r
<1>10. d = n
  <2> SUFFICES ASSUME d < n PROVE FALSE
    BY <1>1, <1>7
  <2>1. PICK p \in PrimesOf(n, s) : \E e \in Nat : n \div p = d * e
    BY <1>1, <1>3, <1>7, <1>9, PrimeCofactor
  <2>2. PICK e \in Nat : n \div p = d * e
    BY <2>1
  <2>3. XP(F, d * e) = One /\ d * e \in Nat
    BY <1>7, <1>8
  <2> QED BY <1>2, <1>4, <2>2, <2>3
<1>11. ASSUME NEW i \in Turns(F), NEW j \in Turns(F), i < j PROVE XP(F, i) # XP(F, j)
  <2> SUFFICES ASSUME XP(F, i) = XP(F, j) PROVE FALSE
    OBVIOUS
  <2>1. i \in Nat /\ j \in Nat /\ n - j \in Nat /\ (n - j) + i \in Nat /\ (n - j) + j = n /\ (n - j) + i < n /\ (n - j) + i # 0
    BY <1>1, <1>11
  <2>2. XP(F, (n - j) + i) = Times(F, XP(F, n - j), XP(F, i)) /\ XP(F, (n - j) + j) = Times(F, XP(F, n - j), XP(F, j))
    BY <2>1, XPIs
  <2>3. XP(F, (n - j) + i) = One
    BY <1>7, <1>10, <2>1, <2>2
  <2>4. (n - j) + i \in T /\ ~(d <= (n - j) + i)
    BY <1>7, <1>10, <2>1, <2>3
  <2> HIDE DEF T
  <2> QED BY <1>6, <2>4
<1>12. \A i, j \in Turns(F) : XP(F, i) = XP(F, j) => i = j
  <2> SUFFICES ASSUME NEW i \in Turns(F), NEW j \in Turns(F), XP(F, i) = XP(F, j), i # j PROVE FALSE
    OBVIOUS
  <2>1. i \in Nat /\ j \in Nat
    BY <1>1
  <2>2. i < j \/ j < i
    BY <2>1
  <2> QED BY <1>11, <2>2
<1>13. XP(F, Order(F)) = One
  BY <1>7, <1>10 DEF n
<1> QED BY <1>12, <1>13, ReturnIsCycle

\* The tables of powers, as they are filled.
LEMMA PowersAre ==
    ASSUME NEW F, IsGF(F)
    PROVE  /\ DOMAIN Powers(F).antilog = Turns(F) /\ Cardinality(DOMAIN Powers(F).antilog) = Order(F)
           /\ \A i \in Turns(F) : Powers(F).antilog[i] = XP(F, i)
           /\ DOMAIN Powers(F).log = {XP(F, i) : i \in Turns(F)}
           /\ \A a \in DOMAIN Powers(F).log : /\ Powers(F).log[a] \in Turns(F)
                                              /\ XP(F, Powers(F).log[a]) = a
<1> DEFINE row == PowerRow(F)
           all == {row[i + 1] : i \in Turns(F)}
           anti == [i \in Turns(F) |-> row[i + 1]]
           log == [a \in all |-> CHOOSE i \in Turns(F) : row[i + 1] = a]
<1>0. 2^F.w - 2 = Order(F) - 1 /\ Order(F) \in Nat \ {0} /\ 2^F.w = Order(F) + 1
  <2>1. Order(F) \in Nat \ {0} /\ 2^F.w = Order(F) + 1
    BY WordCount
  <2>2. (Order(F) + 1) - 2 = Order(F) - 1
    BY <2>1
  <2> QED BY <2>1, <2>2
<1>1. Turns(F) = 0..(2^F.w - 2)
  BY <1>0 DEF Turns
<1>2. Powers(F) = [antilog |-> anti, log |-> log]
  BY <1>1 DEF Powers
<1>3. \A i \in Turns(F) : row[i + 1] = XP(F, i)
  <2>1. \A i \in Turns(F) : i \in 0..(2^F.w - 1)
    BY <1>0, <1>1
  <2> QED BY <2>1, RowIs
<1>4. all = {XP(F, i) : i \in Turns(F)}
  BY <1>3
<1>5. \A a \in all : log[a] \in Turns(F) /\ XP(F, log[a]) = a
  <2> SUFFICES ASSUME NEW a \in all PROVE log[a] \in Turns(F) /\ XP(F, log[a]) = a
    OBVIOUS
  <2>1. \E i \in Turns(F) : row[i + 1] = a
    OBVIOUS
  <2>2. log[a] = CHOOSE i \in Turns(F) : row[i + 1] = a
    OBVIOUS
  <2>3. log[a] \in Turns(F) /\ row[log[a] + 1] = a
    <3> HIDE DEF log
    <3> QED BY <2>1, <2>2
  <2> QED BY <1>3, <2>3
<1>6. DOMAIN anti = Turns(F) /\ \A i \in Turns(F) : anti[i] = XP(F, i)
  BY <1>3
<1>7. DOMAIN log = all
  OBVIOUS
<1>8. Cardinality(Turns(F)) = Order(F)
  BY WordCount
<1> HIDE DEF anti, log, all
<1>9. Powers(F).antilog = anti /\ Powers(F).log = log
  BY <1>2
<1> QED BY <1>4, <1>5, <1>6, <1>7, <1>8, <1>9

\* With all words among the powers none is met twice.
LEMMA CycleIsNotMet ==
    ASSUME NEW F, IsGF(F), Cycle(F)
    PROVE  ~MetAgain(Powers(F)) /\ DOMAIN Powers(F).log = Words(F) \ {Zero}
<1>1. DOMAIN Powers(F).log = Words(F) \ {Zero}
  BY PowersAre DEF Cycle
<1>2. Cardinality(DOMAIN Powers(F).log) = Cardinality(DOMAIN Powers(F).antilog)
  BY <1>1, PowersAre, WordCount
<1> QED BY <1>1, <1>2 DEF MetAgain

\* Doubling loses nothing if the polynomial has its 1.
LEMMA DoubleIsInjective ==
    ASSUME NEW F, IsGF(F), 0 \in F.poly, NEW a \in Words(F), NEW b \in Words(F), Double(F, a) = Double(F, b)
    PROVE  a = b
<1> DEFINE c == Xor(a, b)
<1>1. c \in Words(F) /\ Double(F, c) = Xor(Double(F, a), Double(F, b))
  BY WordSums
<1> HIDE DEF c
<1>2. Double(F, c) = {}
  BY <1>1, XorAlgebra
<1>3. F.w \in Nat /\ F.w >= 1 /\ c \in SUBSET (0..(F.w - 1))
  BY <1>1, WordsAre
<1>4. F.w - 1 \notin c
  <2> SUFFICES ASSUME F.w - 1 \in c PROVE FALSE
    OBVIOUS
  <2>1. 0 \notin Shl(c, 1)
    BY <1>3 DEF Shl
  <2>2. 0 \in Double(F, c)
    BY <2>1 DEF Double, Xor, Cut
  <2> QED BY <1>2, <2>2
<1>5. Shl(c, 1) = {}
  BY <1>2, <1>4 DEF Double
<1>6. c = {}
  BY <1>3, <1>5 DEF Shl
<1> QED BY <1>6 DEF c, Xor

\* The test of gf_w4_log_init and gf_w8_log_init, where a power that is met a
\* second time makes them give up: if none is, the powers of x are all words but
\* 0, in a field of three bits or more, so every word that is not 0 has a log.
THEOREM NotMetIsCycle ==
    ASSUME NEW F, IsGF(F), F.w >= 3, ~MetAgain(Powers(F))
    PROVE  Cycle(F)
<1> DEFINE n == Order(F)
           f == [i \in Turns(F) |-> XP(F, i)]
           all == {XP(F, i) : i \in Turns(F)}
<1>0. F.w \in Nat /\ n \in Nat \ {0} /\ Turns(F) = 0..(n - 1) /\ 2^F.w = n + 1
  BY WordCount DEF IsGF, Turns
<1>1. IsFiniteSet(Turns(F)) /\ Cardinality(Turns(F)) = n /\ Cardinality(all) = n
  BY WordCount, PowersAre DEF MetAgain
<1>2. \A i, j \in Turns(F) : XP(F, i) = XP(F, j) => i = j
  <2>1. f \in [Turns(F) -> all] /\ \A t \in all : \E i \in Turns(F) : f[i] = t
    OBVIOUS
  <2>2. \A i, j \in Turns(F) : f[i] = f[j] => i = j
    <3> HIDE DEF f, all
    <3>1. f \in Surjection(Turns(F), all)
      BY <2>1 DEF Surjection
    <3>2. f \in Injection(Turns(F), all)
      BY <1>1, <3>1, FS_Surjection
    <3> QED BY <3>2 DEF Injection, IsInjective
  <2> QED BY <2>2
<1> HIDE DEF n
<1>3. 0 \in F.poly
  <2> SUFFICES ASSUME 0 \notin F.poly PROVE FALSE
    OBVIOUS
  <2> DEFINE S == 1..(n - 1)
             T == SUBSET (1..(F.w - 1))
             g == [i \in S |-> XP(F, i)]
  <2>1. \A i \in S : XP(F, i) \in T
    <3> SUFFICES ASSUME NEW i \in S PROVE XP(F, i) \in T
      OBVIOUS
    <3>1. i - 1 \in Nat /\ (i - 1) + 1 = i
      BY <1>0
    <3>2. XP(F, i) = Double(F, XP(F, i - 1)) /\ XP(F, i - 1) \in Words(F)
      BY <3>1, XPIs
    <3> DEFINE a == XP(F, i - 1)
    <3>3. a \in SUBSET (0..(F.w - 1)) /\ XP(F, i) = Double(F, a) /\ Double(F, a) \in Words(F)
      BY <3>2, WordsAre, WordSums
    <3> HIDE DEF a
    <3>4. 0 \notin Shl(a, 1)
      BY <1>0, <3>3 DEF Shl
    <3>5. 0 \notin Double(F, a)
      BY <3>4 DEF Double, Xor, Cut
    <3>6. Double(F, a) \in SUBSET (0..(F.w - 1))
      BY <3>3 DEF Words
    <3>7. Double(F, a) \in T
      BY <1>0, <3>5, <3>6
    <3> QED BY <3>3, <3>7
  <2>2. 1 \in Int /\ n - 1 \in Int /\ F.w - 1 \in Int /\ 1 <= F.w - 1
    BY <1>0
  <2> DEFINE h == 2^(F.w - 1)
  <2>3. IsFiniteSet(1..(F.w - 1)) /\ Cardinality(1..(F.w - 1)) = F.w - 1
    <3>1. (F.w - 1) - 1 + 1 = F.w - 1
      BY <1>0
    <3> QED BY <2>2, <3>1, FS_Interval, SMTT(30)
  <2>4. IsFiniteSet(T) /\ Cardinality(T) = h
    BY <2>3, FS_SUBSET
  <2>5. h \in Nat /\ n + 1 = 2 * h /\ h >= 4
    <3>1. F.w - 3 \in Nat /\ F.w - 2 \in Nat /\ F.w - 1 \in Nat /\ (F.w - 3) + 1 = F.w - 2 /\ (F.w - 2) + 1 = F.w - 1 /\ (F.w - 1) + 1 = F.w
      BY <1>0
    <3>2. 2^(F.w - 3) \in Nat \ {0}
      BY <3>1, PowDivides
    <3>3. 2^(F.w - 2) = 2 * 2^(F.w - 3) /\ 2^(F.w - 1) = 2 * 2^(F.w - 2) /\ 2^F.w = 2 * 2^(F.w - 1)
      <4>1. \A k \in Nat : 2^(k + 1) = 2 * 2^k
        BY PowNext
      <4>2. 2^((F.w - 3) + 1) = 2 * 2^(F.w - 3) /\ 2^((F.w - 2) + 1) = 2 * 2^(F.w - 2) /\ 2^((F.w - 1) + 1) = 2 * 2^(F.w - 1)
        BY <3>1, <4>1
      <4> QED BY ONLY <3>1, <4>2
    <3>4. h = 2 * (2 * 2^(F.w - 3)) /\ 2^F.w = 2 * h
      BY <3>3
    <3> DEFINE u == 2^(F.w - 3)
    <3>5. u \in Nat \ {0} /\ h = 2 * (2 * u) /\ n + 1 = 2 * h
      BY <1>0, <3>2, <3>4
    <3> HIDE DEF u, h
    <3> QED BY <3>5
  <2>6. g \in Injection(S, T)
    <3>1. g \in [S -> T]
      BY <2>1
    <3>2. \A i \in S : i \in Turns(F)
      BY <1>0
    <3>3. \A i, j \in S : g[i] = g[j] => i = j
      BY <1>2, <3>2
    <3> HIDE DEF g
    <3> QED BY <3>1, <3>3 DEF Injection, IsInjective
  <2>7. Cardinality(S) = n - 1
    <3>1. 1 <= n - 1 /\ (n - 1) - 1 + 1 = n - 1
      BY <1>0, <2>5
    <3> QED BY <2>2, <3>1, FS_Interval
  <2>8. n - 1 <= h
    <3> HIDE DEF g, S, T, h
    <3>1. Cardinality(S) <= Cardinality(T)
      BY <2>4, <2>6, FS_Injection
    <3> QED BY <2>4, <2>7, <3>1
  <2> HIDE DEF h
  <2> QED BY <1>0, <2>5, <2>8
<1>4. \A i \in Nat : XP(F, i) # Zero
  <2> DEFINE G == {i \in Nat : XP(F, i) # Zero}
  <2>1. 0 \in G
    BY XPIs, ZeroOneWords
  <2>2. ASSUME NEW i \in Nat, i >= 0, i \in G PROVE i + 1 \in G
    <3>1. XP(F, i) # Zero /\ XP(F, i) \in Words(F) /\ XP(F, i + 1) = Double(F, XP(F, i))
      BY <2>2, XPIs
    <3>2. Zero \in Words(F) /\ Double(F, Zero) = Zero
      <4>1. F.w - 1 \notin Zero /\ Shl(Zero, 1) = Zero
        BY DEF Zero, Shl
      <4> QED BY <4>1, ZeroOneWords DEF Double
    <3>3. Double(F, XP(F, i)) # Double(F, Zero)
      BY <1>3, <3>1, <3>2, DoubleIsInjective
    <3> QED BY <3>1, <3>2, <3>3
  <2> HIDE DEF G
  <2>3. \A i \in Nat : i >= 0 => i \in G
    BY <2>1, <2>2, Upwards
  <2> QED BY <2>3 DEF G
<1>5. \A a \in Words(F) \ {Zero} : \E i \in Turns(F) : XP(F, i) = a
  <2>1. \A i \in Turns(F) : XP(F, i) \in Words(F) \ {Zero}
    BY <1>0, <1>4, XPIs
  <2>2. f \in [Turns(F) -> Words(F) \ {Zero}] /\ \A x, y \in Turns(F) : f[x] = f[y] => x = y
    BY <1>2, <2>1
  <2>3. /\ IsFiniteSet(Turns(F)) /\ IsFiniteSet(Words(F) \ {Zero})
        /\ Cardinality(Turns(F)) = Cardinality(Words(F) \ {Zero})
    BY WordCount
  <2>4. \A a \in Words(F) \ {Zero} : \E i \in Turns(F) : f[i] = a
    <3> HIDE DEF f
    <3> QED BY <2>2, <2>3, SameSize
  <2> QED BY <2>4
<1>6. XP(F, n) = One
  <2>1. n \in Nat /\ n - 1 \in Nat /\ (n - 1) + 1 = n /\ n - 1 \in Turns(F)
    BY <1>0
  <2>2. XP(F, n) \in Words(F) \ {Zero}
    BY <1>4, <2>1, XPIs
  <2>3. PICK j \in Turns(F) : XP(F, j) = XP(F, n)
    BY <1>5, <2>2
  <2>4. j = 0
    <3> SUFFICES ASSUME j # 0 PROVE FALSE
      OBVIOUS
    <3>1. j - 1 \in Nat /\ (j - 1) + 1 = j /\ j - 1 \in Turns(F) /\ j # n /\ j \in Nat
      BY <1>0
    <3>2. XP(F, j) = Double(F, XP(F, j - 1)) /\ XP(F, j - 1) \in Words(F)
      BY <3>1, XPIs
    <3>3. XP(F, n) = Double(F, XP(F, n - 1)) /\ XP(F, n - 1) \in Words(F)
      BY <2>1, XPIs
    <3>4. XP(F, j - 1) = XP(F, n - 1)
      BY <1>3, <2>3, <3>2, <3>3, DoubleIsInjective
    <3>5. j - 1 = n - 1
      BY <1>2, <2>1, <3>1, <3>4
    <3> QED BY <2>1, <3>1, <3>5
  <2> QED BY <2>3, <2>4, XPIs
<1>7. XP(F, Order(F)) = One
  BY <1>6 DEF n
<1> QED BY <1>2, <1>7, ReturnIsCycle

\* x by itself or as a word: its powers are the same.  They differ in width 1.
LEMMA PowerOfXIs ==
    ASSUME NEW F, IsGF(F), NEW e \in Nat
    PROVE  PowerOfX(F, e) = XP(F, e) /\ PowerOfX(F, e) \in Words(F)
<1> DEFINE Value(f, m) == IF m = 0 THEN One
                          ELSE LET half == f[m \div 2]
                                   even == Times(F, half, half)
                               IN  IF m % 2 = 0 THEN even ELSE Times(F, even, {1})
           power == CHOOSE f : f = [m \in Nat |-> Value(f, m)]
           h == [m \in Nat |-> XP(F, m)]
<1>1. PowerOfX(F, e) = power[e]
  BY DEF PowerOfX, Power
<1>2. ASSUME NEW m \in Nat, m # 0
      PROVE  /\ m \div 2 \in Nat /\ m \div 2 < m
             /\ m % 2 = 0 => m = m \div 2 + m \div 2
             /\ m % 2 # 0 => m = (m \div 2 + m \div 2) + 1
  BY <1>2
<1>3. ASSUME NEW s \in Words(F) PROVE Times(F, s, {1}) = Double(F, s)
  <2>1. F.w \in Nat /\ F.w >= 1 /\ s \in SUBSET (0..(F.w - 1)) /\ s \in Polynomial /\ Reduced(F, s) = s
    BY WordsAre
  <2>2. Product(s, {1}) = Shl(s, 1)
    BY <2>1, ProductOfPower
  <2>3. s \in SUBSET (0..(2 * F.w - 1))
    BY <2>1
  <2> QED BY <2>1, <2>2, <2>3, ReducedDouble DEF Times
<1>4. \A m \in Nat : h[m] = Value(h, m)
  <2> SUFFICES ASSUME NEW m \in Nat PROVE h[m] = Value(h, m)
    OBVIOUS
  <2>1. CASE m = 0
    BY <2>1, XPIs
  <2>2. CASE m # 0
    <3> DEFINE k == m \div 2
    <3>1. k \in Nat /\ k + k \in Nat /\ (m % 2 = 0 => m = k + k) /\ (m % 2 # 0 => m = (k + k) + 1)
      BY <1>2, <2>2
    <3>2. Value(h, m) = IF m % 2 = 0 THEN Times(F, h[k], h[k]) ELSE Times(F, Times(F, h[k], h[k]), {1})
      BY <2>2
    <3>3. h[k] = XP(F, k) /\ h[m] = XP(F, m)
      BY <3>1
    <3> HIDE DEF k, Value, h
    <3>4. XP(F, k + k) = Times(F, XP(F, k), XP(F, k)) /\ XP(F, k + k) \in Words(F)
      BY <3>1, XPIs
    <3>5. XP(F, (k + k) + 1) = Times(F, XP(F, k + k), {1})
      BY <1>3, <3>1, <3>4, XPIs
    <3> QED BY <3>1, <3>2, <3>3, <3>4, <3>5
  <2> QED BY <2>1, <2>2
<1>5. h = [m \in Nat |-> Value(h, m)]
  <2> HIDE DEF Value
  <2> QED BY <1>4
<1>6. power = [m \in Nat |-> Value(power, m)]
  <2> HIDE DEF Value
  <2> QED BY <1>5
<1> HIDE DEF power
<1>7. power[e] = h[e]
  <2> DEFINE T == {m \in Nat : power[m] # h[m]}
  <2> SUFFICES ASSUME T # {} PROVE FALSE
    OBVIOUS
  <2>1. PICK m \in T : \A k \in T : m <= k
    <3>1. T \in SUBSET Nat
      OBVIOUS
    <3> HIDE DEF T
    <3> QED BY <3>1, LeastNat
  <2>2. m \in Nat /\ power[m] # h[m]
    BY <2>1
  <2>3. power[m] = Value(power, m) /\ h[m] = Value(h, m)
    <3> HIDE DEF Value, T, h
    <3> QED BY <1>4, <1>6, <2>2
  <2> HIDE DEF h
  <2>4. m # 0
    BY <2>2, <2>3
  <2>5. m \div 2 \in Nat /\ m \div 2 \notin T
    BY <1>2, <2>1, <2>2, <2>4
  <2>6. power[m \div 2] = h[m \div 2]
    BY <2>5
  <2>7. Value(power, m) = Value(h, m)
    BY <2>6
  <2> QED BY <2>2, <2>3, <2>7
<1>8. XP(F, e) \in Words(F)
  BY XPIs
<1> QED BY <1>1, <1>7, <1>8

-----------------------------------------------------------------------------
(* The methods with tables: logarithms, products, pieces and groups.          *)

\* Logarithms as the tables ought to hold them.
AreLogs(F, P) ==
    /\ \A i \in Turns(F) : P.antilog[i] = XP(F, i)
    /\ \A a \in Words(F) \ {Zero} : P.log[a] \in Turns(F) /\ XP(F, P.log[a]) = a

\* The antilogarithm of a sum of logarithms is the product.
LEMMA LogsMultiply ==
    ASSUME NEW F, IsGF(F), Cycle(F), NEW P, AreLogs(F, P), NEW a \in Words(F), NEW b \in Words(F), Zero \notin {a, b}
    PROVE  /\ P.log[a] \in 0..(Order(F) - 1) /\ P.log[b] \in 0..(Order(F) - 1) /\ Order(F) \in Nat \ {0}
           /\ (P.log[a] + P.log[b]) % Order(F) \in 0..(Order(F) - 1)
           /\ P.antilog[(P.log[a] + P.log[b]) % Order(F)] = Times(F, a, b)
<1> DEFINE i == P.log[a]
           j == P.log[b]
           n == Order(F)
<1>1. i \in Turns(F) /\ j \in Turns(F) /\ XP(F, i) = a /\ XP(F, j) = b
  BY DEF AreLogs
<1>2. n \in Nat \ {0}
  BY WordCount
<1> HIDE DEF i, j, n
<1>3. i \in 0..(n - 1) /\ j \in 0..(n - 1)
  BY <1>1 DEF Turns, n
<1>4. (i + j) % n \in 0..(n - 1)
  BY <1>2, <1>3
<1>5. Times(F, XP(F, i), XP(F, j)) = XP(F, (i + j) % n)
  BY <1>1 DEF Cycle, n
<1>6. P.antilog[(i + j) % n] = XP(F, (i + j) % n)
  BY <1>4 DEF AreLogs, Turns, n
<1> QED BY <1>1, <1>2, <1>3, <1>4, <1>5, <1>6 DEF i, j, n

\* 0 times a word.
LEMMA TimesZero ==
    ASSUME NEW F, IsGF(F), NEW a \in Words(F)
    PROVE  Times(F, a, Zero) = Zero /\ Times(F, Zero, a) = Zero
BY TimesIs, ZeroOneWords DEF Zero

\* The widths that have a file of their own.
LEMMA SomePowersOfTwo == 2^4 = 16 /\ 2^8 = 256 /\ 2^16 = 65536
<1>1. 2^0 = 1 /\ 2^1 = 2 * 2^0
  <2>1. 2^(0 + 1) = 2 * 2^0
    BY PowNext
  <2> QED BY <2>1
<1>2. 2^(1 + 1) = 2^1 * 2^1 /\ 2^(2 + 2) = 2^2 * 2^2 /\ 2^(4 + 4) = 2^4 * 2^4 /\ 2^(8 + 8) = 2^8 * 2^8
  <2>1. \A i, j \in Nat : 2^(i + j) = 2^i * 2^j
    BY PowSum
  <2> QED BY <2>1
<1>3. 2^4 = 16
  <2>1. 2^1 = 2
    BY <1>1
  <2>2. 2^2 = 4
    BY <1>2, <2>1
  <2> QED BY <1>2, <2>2
<1>4. 2^8 = 256
  BY <1>2, <1>3
<1> QED BY <1>2, <1>3, <1>4

\* LOG_TABLE of every width, LOG_ZERO and LOG_ZERO_EXT.
THEOREM LogsAreTimes ==
    ASSUME NEW F, IsGF(F), Cycle(F), NEW P, AreLogs(F, P), NEW a \in Words(F), NEW b \in Words(F)
    PROVE  /\ F.w = 4 => GfW4LogMultiply(P, a, b) = Times(F, a, b)
           /\ F.w = 8 => /\ GfW8LogMultiply(P, a, b) = Times(F, a, b)
                         /\ GfW8LogzeroSmallMultiply(P, a, b) = Times(F, a, b)
                         /\ GfW8LogzeroMultiply(P, a, b) = Times(F, a, b)
           /\ F.w = 16 => /\ GfW16LogMultiply(P.antilog, P.log, a, b) = Times(F, a, b)
                          /\ GfW16LogZeroMultiply(P.antilog, P.log, a, b) = Times(F, a, b)
           /\ Cardinality(DOMAIN P.antilog) = Order(F) => GfWgenLogMultiply(P, a, b) = Times(F, a, b)
<1> DEFINE i == P.log[a]
           j == P.log[b]
           n == Order(F)
           t == Times(F, a, b)
<1>0. n \in Nat \ {0}
  BY WordCount
<1>1. (F.w = 4 => n = 15) /\ (F.w = 8 => n = 255) /\ (F.w = 16 => n = 65535)
  <2>1. ASSUME F.w = 4 PROVE 2^F.w = 16
    BY <2>1, SomePowersOfTwo, SMT
  <2>2. ASSUME F.w = 8 PROVE 2^F.w = 256
    BY <2>2, SomePowersOfTwo, SMT
  <2>3. ASSUME F.w = 16 PROVE 2^F.w = 65536
    BY <2>3, SomePowersOfTwo, SMT
  <2>4. ASSUME F.w = 16 PROVE n = 65535
    BY <2>3, <2>4, SMT DEF Order
  <2> QED BY <2>1, <2>2, <2>4, SMT DEF Order
<1>2. Zero \notin {a, b} => i \in 0..(n - 1) /\ j \in 0..(n - 1) /\ P.antilog[(i + j) % n] = t
  BY LogsMultiply
<1>3. Zero \in {a, b} => t = Zero
  BY TimesZero
<1>4. (a # Zero => i \in 0..(n - 1)) /\ (b # Zero => j \in 0..(n - 1))
  BY DEF AreLogs, Turns
<1> HIDE DEF i, j, n, t
<1>5. F.w = 4 => GfW4LogMultiply(P, a, b) = t
  BY <1>1, <1>2, <1>3 DEF GfW4LogMultiply, i, j
<1>6. ASSUME F.w = 8
      PROVE  /\ GfW8LogMultiply(P, a, b) = t /\ GfW8LogzeroSmallMultiply(P, a, b) = t
             /\ GfW8LogzeroMultiply(P, a, b) = t
  <2>1. n = 255
    BY <1>1, <1>6
  <2>2. GfW8LogMultiply(P, a, b) = t
    BY <1>2, <1>3, <2>1 DEF GfW8LogMultiply, i, j
  <2>3. GfW8LogzeroSmallMultiply(P, a, b) = t
    <3>1. CASE b = Zero
      BY <1>3, <3>1 DEF GfW8LogzeroSmallMultiply
    <3>2. CASE b # Zero /\ a = Zero
      <4>1. SmallLog(P, a) = 510 /\ SmallLog(P, b) = j
        BY <3>2 DEF SmallLog, j
      <4>2. ~(510 + j < 510)
        BY <1>4, <2>1, <3>2
      <4> QED BY <1>3, <3>2, <4>1, <4>2 DEF GfW8LogzeroSmallMultiply, SmallAntilog
    <3>3. CASE b # Zero /\ a # Zero
      <4>1. SmallLog(P, a) = i /\ SmallLog(P, b) = j
        BY <3>3 DEF SmallLog, i, j
      <4>2. i + j < 510
        <5>1. i \in 0..(n - 1) /\ j \in 0..(n - 1)
          BY <1>4, <3>3
        <5> QED BY ONLY <2>1, <5>1, SMT
      <4> QED BY <1>2, <2>1, <3>3, <4>1, <4>2 DEF GfW8LogzeroSmallMultiply, SmallAntilog
    <3> QED BY <3>1, <3>2, <3>3
  <2>4. GfW8LogzeroMultiply(P, a, b) = t
    <3>1. CASE Zero \in {a, b}
      <4>1. ExtLog(P, a) + ExtLog(P, b) \in 512..766 \/ ExtLog(P, a) + ExtLog(P, b) = 1024
        BY <1>4, <2>1, <3>1 DEF ExtLog, i, j
      <4>2. ~(ExtLog(P, a) + ExtLog(P, b) < 510)
        BY <4>1
      <4> HIDE DEF ExtLog
      <4>3. ExtAntilog(P, ExtLog(P, a) + ExtLog(P, b)) = Zero
        BY <4>1, <4>2 DEF ExtAntilog
      <4> QED BY <1>3, <3>1, <4>3 DEF GfW8LogzeroMultiply
    <3>2. CASE Zero \notin {a, b}
      <4>1. ExtLog(P, a) = i /\ ExtLog(P, b) = j
        BY <3>2 DEF ExtLog, i, j
      <4>2. i + j < 510 /\ i + j \notin 512..766 /\ i + j # 1024
        <5>1. i \in 0..(n - 1) /\ j \in 0..(n - 1)
          BY <1>4, <3>2
        <5> QED BY ONLY <2>1, <5>1, SMT
      <4>3. ExtAntilog(P, i + j) = P.antilog[(i + j) % 255]
        BY <4>2 DEF ExtAntilog
      <4> QED BY <1>2, <2>1, <3>2, <4>1, <4>3 DEF GfW8LogzeroMultiply
    <3> QED BY <3>1, <3>2
  <2> QED BY <2>2, <2>3, <2>4
<1>7. ASSUME F.w = 16
      PROVE  /\ GfW16LogMultiply(P.antilog, P.log, a, b) = t
             /\ GfW16LogZeroMultiply(P.antilog, P.log, a, b) = t
  <2> DEFINE z == ZeroLog(P.log, a) + ZeroLog(P.log, b)
  <2>1. n = 65535
    BY <1>1, <1>7
  <2>2. ZeroLog(P.log, a) = (IF a = Zero THEN 0 - 65536 ELSE i) /\ ZeroLog(P.log, b) = IF b = Zero THEN 0 - 65536 ELSE j
    BY SMT DEF ZeroLog, LogOfZero, i, j
  <2>3. GfW16LogZeroMultiply(P.antilog, P.log, a, b) =
            IF 0 - 131072 <= z /\ z < 0 THEN Zero ELSE P.antilog[z % 65535]
    BY SMT DEF GfW16LogZeroMultiply, ZeroAlog
  <2>4. CASE Zero \in {a, b}
    <3>1. GfW16LogMultiply(P.antilog, P.log, a, b) = Zero
      BY <2>4, SMT DEF GfW16LogMultiply
    <3>2. 0 - 131072 <= z /\ z < 0
      <4> DEFINE u == ZeroLog(P.log, a)
                 v == ZeroLog(P.log, b)
                 Log(x) == (x \in Int /\ 0 <= x /\ x < n) \/ x = 0 - 65536
      <4>0. (a # Zero => i \in Int /\ 0 <= i /\ i < n) /\ (b # Zero => j \in Int /\ 0 <= j /\ j < n)
        BY <1>0, <1>4
      <4>1. (u = 0 - 65536 \/ v = 0 - 65536) /\ Log(u) /\ Log(v)
        BY <2>2, <2>4, <4>0, SMT
      <4> HIDE DEF u, v
      <4>2. u \in Int /\ v \in Int /\ u < 65536 /\ v < 65536 /\ u >= 0 - 65536 /\ v >= 0 - 65536
        BY ONLY <2>1, <4>1, SMT
      <4> HIDE DEF Log
      <4>3. 0 - 131072 <= u + v /\ u + v < 0
        BY ONLY <4>1, <4>2, SMT
      <4> QED BY ONLY <4>3, SMT DEF u, v
    <3> HIDE DEF z
    <3> QED BY <1>3, <2>3, <2>4, <3>1, <3>2, SMT
  <2>5. CASE Zero \notin {a, b}
    <3>1. a # Zero /\ b # Zero
      BY <2>5
    <3>2. i \in 0..(n - 1) /\ j \in 0..(n - 1) /\ P.antilog[(i + j) % n] = t
      BY <1>2, <2>5
    <3>3. P.antilog[(i + j) % 65535] = t
      BY ONLY <2>1, <3>2, SMTT(30)
    <3>4. GfW16LogMultiply(P.antilog, P.log, a, b) = t
      BY <2>5, <3>3, SMT DEF GfW16LogMultiply, i, j
    <3>5. z = i + j
      BY <2>2, <3>1, SMT
    <3>6. ~(z < 0)
      <4> HIDE DEF z
      <4> QED BY <1>0, <3>2, <3>5, SMT
    <3> HIDE DEF z
    <3> QED BY <2>3, <3>3, <3>4, <3>5, <3>6, SMT
  <2> HIDE DEF z
  <2> QED BY <2>4, <2>5
<1>8. ASSUME Cardinality(DOMAIN P.antilog) = n
      PROVE  GfWgenLogMultiply(P, a, b) = t
  <2>1. CASE Zero \in {a, b}
    BY <1>3, <2>1 DEF GfWgenLogMultiply
  <2>2. CASE Zero \notin {a, b}
    <3>1. GfWgenLogMultiply(P, a, b) = IF i + j < n THEN P.antilog[i + j] ELSE P.antilog[(i + j) - n]
      BY <1>8, <2>2 DEF GfWgenLogMultiply, GfWgenAnti, i, j
    <3>2. i + j \in Nat /\ i + j < 2 * n
      BY <1>0, <1>4, <2>2
    <3>3. i + j < n => (i + j) % n = i + j
      BY <1>0, <3>2
    <3>4. ~(i + j < n) => (i + j) % n = (i + j) - n
      <4> SUFFICES ASSUME ~(i + j < n) PROVE (i + j) % n = (i + j) - n
        OBVIOUS
      <4>1. (i + j) - n \in 0..(n - 1) /\ n * 1 + ((i + j) - n) = i + j
        BY <1>0, <3>2
      <4>2. (n * 1 + ((i + j) - n)) % n = (i + j) - n
        BY <1>0, <4>1, DivModOf
      <4> QED BY <4>1, <4>2
    <3> QED BY <1>2, <2>2, <3>1, <3>3, <3>4
  <2> QED BY <2>1, <2>2
<1> QED BY <1>5, <1>6, <1>7, <1>8 DEF n, t

\* The exponents of x beyond the order come round.
LEMMA PowersComeRound ==
    ASSUME NEW F, IsGF(F), Cycle(F), Order(F) > 1, NEW e \in Nat
    PROVE  e % Order(F) \in Turns(F) /\ XP(F, e) = XP(F, e % Order(F))
<1> DEFINE n == Order(F)
           G == {k \in Nat : XP(F, k) = XP(F, k % n)}
<1>1. n \in Nat \ {0} /\ n > 1 /\ Turns(F) = 0..(n - 1)
  BY WordCount DEF Turns
<1>2. \A k \in Nat : k % n \in Turns(F)
  BY <1>1
<1> HIDE DEF n
<1>3. 0 \in G
  <2>1. 0 % n = 0
    BY <1>1
  <2> QED BY <2>1
<1>4. ASSUME NEW k \in Nat, k \in G PROVE k + 1 \in G
  <2> DEFINE r == k % n
             q == k \div n
  <2>1. k = n * q + r /\ r \in 0..(n - 1) /\ q \in Nat
    BY <1>1, DivMod
  <2> HIDE DEF r, q
  <2>2. XP(F, k) = XP(F, r)
    BY <1>4, Zenon DEF r
  <2>3. XP(F, k + 1) = Double(F, XP(F, k)) /\ XP(F, r + 1) = Double(F, XP(F, r))
    <3>1. \A i \in Nat : XP(F, i + 1) = Double(F, XP(F, i))
      BY XPIs
    <3>2. r \in Nat
      BY <1>1, <2>1
    <3> QED BY <3>1, <3>2
  <2>4. CASE r + 1 < n
    <3>1. r + 1 \in 0..(n - 1) /\ n * q + (r + 1) = k + 1
      BY <1>1, <2>1, <2>4
    <3>2. (k + 1) % n = r + 1
      <4>1. (n * q + (r + 1)) % n = r + 1
        BY <1>1, <2>1, <3>1, DivModOf
      <4> QED BY <3>1, <4>1
    <3>3. XP(F, k + 1) = XP(F, (k + 1) % n)
      BY <2>2, <2>3, <3>2
    <3> QED BY <3>3
  <2>5. CASE r + 1 = n
    <3>1. n * (q + 1) + 0 = k + 1 /\ q + 1 \in Nat /\ 0 \in 0..(n - 1)
      BY <1>1, <2>1, <2>5
    <3>2. (k + 1) % n = 0
      BY <1>1, <3>1, DivModOf
    <3>3. XP(F, n) = One
      <4>1. n - 1 \in Turns(F) /\ 1 \in Turns(F) /\ (n - 1) + 1 = n /\ n % n = 0
        BY <1>1
      <4>2. Times(F, XP(F, n - 1), XP(F, 1)) = XP(F, ((n - 1) + 1) % n)
        BY <4>1 DEF Cycle, n
      <4>3. XP(F, (n - 1) + 1) = Times(F, XP(F, n - 1), XP(F, 1))
        BY <1>1, XPIs
      <4> QED BY <4>1, <4>2, <4>3, XPIs
    <3>4. XP(F, 0) = One
      BY XPIs
    <3> QED BY <2>2, <2>3, <2>5, <3>2, <3>3, <3>4
  <2> QED BY <1>1, <2>1, <2>4, <2>5
<1>5. \A k \in Nat : k \in G
  <2>1. \A k \in Nat : k >= 0 /\ k \in G => k + 1 \in G
    BY <1>4
  <2> HIDE DEF G
  <2> QED BY <1>3, <2>1, Upwards
<1> QED BY <1>2, <1>5 DEF n

\* The order of x is n times m.
Splits(F, n, m) == 65535 \div n = m /\ \A k \in 0..(n - 1) : k * m \in Turns(F)

\* The logarithms of the words of an order that divides that of x.
LEMMA ResiduesAre ==
    ASSUME NEW F, IsGF(F), Cycle(F), NEW n \in Nat \ {0}, NEW m \in Nat \ {0}, Splits(F, n, m),
           NEW k \in 0..(n - 1)
    PROVE  Residues(F, n)[XP(F, k * m)] = k
<1> DEFINE d == 65535 \div n
           row == {<<j, PowerOfX(F, j * d)>> : j \in 0..(n - 1)}
           first == [y \in {kx[2] : kx \in row} |-> (CHOOSE kx \in row : kx[2] = y)[1]]
           x == XP(F, k * m)
           found == CHOOSE kx \in row : kx[2] = x
<1>0. Residues(F, n) = first
  BY SMT DEF Residues
<1>d. d = m
  BY SMT DEF Splits
<1>r. \A y : y \in row <=> \E j \in 0..(n - 1) : y = <<j, PowerOfX(F, j * d)>>
  <2> HIDE DEF d
  <2> QED OBVIOUS
<1> HIDE DEF d, row
<1>1. \A j \in 0..(n - 1) : j * m \in Turns(F) /\ j * m \in Nat /\ PowerOfX(F, j * m) = XP(F, j * m)
  <2> SUFFICES ASSUME NEW j \in 0..(n - 1) PROVE j * m \in Turns(F) /\ j * m \in Nat /\ PowerOfX(F, j * m) = XP(F, j * m)
    OBVIOUS
  <2>1. j * m \in Nat
    OBVIOUS
  <2>2. j * m \in Turns(F)
    BY DEF Splits
  <2> QED BY <2>1, <2>2, PowerOfXIs
<1>2. <<k, x>> \in row /\ <<k, x>>[2] = x
  BY <1>1, <1>d, <1>r
<1>3. x \in {kx[2] : kx \in row}
  BY <1>2
<1>4. found \in row /\ found[2] = x
  BY <1>2
<1>9. Residues(F, n)[x] = found[1]
  <2>1. first[x] = found[1]
    BY ONLY <1>3
  <2> HIDE DEF first, found
  <2> QED BY ONLY <1>0, <2>1
<1> HIDE DEF found
<1>5. PICK j \in 0..(n - 1) : found = <<j, PowerOfX(F, j * d)>>
  BY <1>4, <1>r
<1>6. XP(F, j * m) = XP(F, k * m)
  <2>1. found[2] = PowerOfX(F, j * m)
    BY ONLY <1>5, <1>d
  <2> QED BY ONLY <1>1, <1>4, <2>1
<1>7. j * m = k * m
  <2>1. \A i, l \in Turns(F) : XP(F, i) = XP(F, l) => i = l
    BY DEF Cycle
  <2>2. j * m \in Turns(F) /\ k * m \in Turns(F)
    BY <1>1
  <2> QED BY <1>6, <2>1, <2>2
<1>8. j = k
  <2>1. j \in Int /\ k \in Int /\ m \in Int /\ m > 0
    OBVIOUS
  <2>2. (j - k) * m = 0
    BY <1>7, <2>1
  <2> QED BY <2>1, <2>2
<1>10. found[1] = j
  BY <1>5
<1> QED BY <1>8, <1>9, <1>10

\* An exponent from what it leaves when divided by 255 and by 257.
LEMMA Remainders ==
    ASSUME NEW e \in Nat, e < 65535
    PROVE  /\ e % 255 \in 0..254 /\ (e * 257) % 65535 = (e % 255) * 257
           /\ e % 257 \in 0..256 /\ (e * 255) % 65535 = (e % 257) * 255
           /\ ((e % 255) * 128 * 257 + (e % 257) * 128 * 255) % 65535 = e
<1> DEFINE q == e \div 255
           r == e % 255
           p == e \div 257
           s == e % 257
           z == 65535
<1>1. e = 255 * q + r /\ r \in 0..254 /\ q \in Nat
  BY DivMod
<1>2. e = 257 * p + s /\ s \in 0..256 /\ p \in Nat
  BY DivMod
<1> HIDE DEF q, r, p, s
<1>3. (e * 257) = 65535 * q + r * 257 /\ r * 257 \in Nat /\ r * 257 < 65535
  BY <1>1, SMT
<1>4. (e * 255) = 65535 * p + s * 255 /\ s * 255 \in Nat /\ s * 255 < 65535
  BY <1>2, SMT
<1>5. /\ r * 128 * 257 + s * 128 * 255 = 65535 * (e - 128 * (q + p)) + e
      /\ e - 128 * (q + p) \in Nat
  BY <1>1, <1>2, SMT
<1>6. ASSUME NEW a \in Nat, NEW b \in Nat, b < z PROVE (z * a + b) % z = b
  <2>1. z \in Nat \ {0}
    BY SMT
  <2> HIDE DEF z
  <2>2. b \in 0..(z - 1)
    BY <1>6, <2>1
  <2> QED BY <2>1, <2>2, DivModOf
<1> HIDE DEF z
<1>7. z = 65535
  BY SMT DEF z
<1>8. (e * 257) % 65535 = r * 257
  BY <1>1, <1>3, <1>6, <1>7, SMT
<1>9. (e * 255) % 65535 = s * 255
  BY <1>2, <1>4, <1>6, <1>7, SMT
<1>10. (r * 128 * 257 + s * 128 * 255) % 65535 = e
  BY <1>5, <1>6, <1>7, SMT
<1> QED BY <1>1, <1>2, <1>8, <1>9, <1>10, SMT DEF r, s

\* GF(2^16): the tables that are written out and the logarithms that are not.
LEMMA Tables16Are ==
    ASSUME NEW F \in KnownFields, IsGF(F), F.w = 16, XHasFullOrder(F)
    PROVE  AreLogs(F, Tables16[F])
<1> DEFINE z == 65535
<1>1. Cycle(F)
  BY FullOrderIsCycle
<1>2. Order(F) = 65535 /\ 2^F.w = 65536
  <2>1. 2^F.w = 65536
    BY SomePowersOfTwo, SMT
  <2> QED BY <2>1, SMT DEF Order
<1>3. F \in LogFields16
  <2>1. F \in {G \in KnownFields : G.w <= 16}
    BY SMT
  <2>2. IsPrimitive[F] = XHasFullOrder(F)
    BY <2>1 DEF IsPrimitive
  <2> QED BY <2>2 DEF LogFields16
<1>4. Tables16[F] = [antilog |-> [i \in Int |-> Alog16(F, i)], log |-> [x \in Bits |-> Log16(F, x)]]
  BY <1>3 DEF Tables16
<1> HIDE DEF z
<1>z. z = 65535
  BY SMT DEF z
<1>t. Turns(F) = 0..(z - 1) /\ z \in Nat \ {0}
  <2>1. Order(F) = z
    BY ONLY <1>2, <1>z
  <2>2. z \in Nat \ {0}
    BY ONLY <1>z, SMT
  <2> QED BY <2>1, <2>2 DEF Turns
<1>5. \A i \in Turns(F) : Tables16[F].antilog[i] = XP(F, i)
  <2> SUFFICES ASSUME NEW i \in Turns(F) PROVE Tables16[F].antilog[i] = XP(F, i)
    OBVIOUS
  <2>1. i \in Int /\ i \in 0..(2^F.w - 1)
    <3>1. i \in 0..(z - 1)
      BY <1>t
    <3>2. i \in Int /\ 0 <= i /\ i <= z - 1
      BY ONLY <1>t, <3>1
    <3>3. 2^F.w = z + 1
      BY ONLY <1>2, <1>z, SMT
    <3> QED BY ONLY <1>t, <3>2, <3>3
  <2>2. Tables16[F].antilog[i] = Alog16(F, i)
    BY <1>4, <2>1
  <2>3. Antilogs16[F] = PowerRow(F)
    BY <1>3 DEF Antilogs16
  <2>4. Alog16(F, i) = PowerRow(F)[i + 1]
    BY <2>3 DEF Alog16
  <2>5. \A k \in 0..(2^F.w - 1) : PowerRow(F)[k + 1] = XP(F, k)
    BY RowIs
  <2> QED BY <2>1, <2>2, <2>4, <2>5
<1>6. ASSUME NEW a \in Words(F) \ {Zero} PROVE Tables16[F].log[a] \in Turns(F) /\ XP(F, Tables16[F].log[a]) = a
  <2>1. Tables16[F].log[a] = Log16(F, a)
    <3>1. a \in Bits
      BY DEF Words, Bits, IsGF
    <3> QED BY <1>4, <3>1
  <2>2. CASE a \in DOMAIN Logs16[F]
    <3> DEFINE row == {<<e, PowerOfX(F, e)>> : e \in LogEntries}
               found == CHOOSE ex \in row : ex[2] = a
               table == [x \in {ex[2] : ex \in row} |-> (CHOOSE ex \in row : ex[2] = x)[1]]
    <3>1. Logs16[F] = table
      BY <1>3 DEF Logs16
    <3>r. \A y : y \in row <=> \E e \in LogEntries : y = <<e, PowerOfX(F, e)>>
      OBVIOUS
    <3> HIDE DEF row
    <3>2. a \in {ex[2] : ex \in row}
      BY <2>2, <3>1
    <3>3. found \in row /\ found[2] = a
      <4>1. \E ex \in row : ex[2] = a
        BY ONLY <3>2
      <4> QED BY ONLY <4>1
    <3>4. table[a] = found[1]
      BY ONLY <3>2
    <3> HIDE DEF found, table
    <3>5. PICK e \in LogEntries : found = <<e, PowerOfX(F, e)>>
      BY <3>3, <3>r
    <3>6. e \in Turns(F) /\ e \in Nat
      <4>1. PICK c \in LogExponents, i \in 0..16 : e = (c + i) % 65535
        BY SMT DEF LogEntries
      <4>2. c + i \in Nat
        BY LogAssumption, SMT
      <4>3. e = (c + i) % z
        BY ONLY <4>1, <1>z
      <4>4. e \in 0..(z - 1)
        BY ONLY <1>t, <4>2, <4>3
      <4> QED BY <1>t, <4>4
    <3>7. PowerOfX(F, e) = XP(F, e)
      BY <3>6, PowerOfXIs
    <3>8. Log16(F, a) = e
      <4>1. Log16(F, a) = Logs16[F][a]
        BY <2>2 DEF Log16
      <4> QED BY ONLY <3>1, <3>4, <3>5, <4>1
    <3> QED BY <2>1, <3>3, <3>5, <3>6, <3>7, <3>8
  <2>3. CASE a \notin DOMAIN Logs16[F]
    <3>1. PICK e \in Turns(F) : a = XP(F, e)
      <4>1. {XP(F, i) : i \in Turns(F)} = Words(F) \ {Zero}
        BY <1>1 DEF Cycle
      <4> QED BY <4>1
    <3>2. e \in Nat /\ e < z /\ e < 65535
      <4>1. e \in Nat /\ e < z
        BY <1>t
      <4> QED BY <4>1, <1>z, SMT
    <3>3. /\ e % 255 \in 0..254 /\ (e * 257) % 65535 = (e % 255) * 257
          /\ e % 257 \in 0..256 /\ (e * 255) % 65535 = (e % 257) * 255
          /\ ((e % 255) * 128 * 257 + (e % 257) * 128 * 255) % 65535 = e
      BY <3>2, Remainders, SMT
    <3> DEFINE r == e % 255
               s == e % 257
    <3> HIDE DEF r, s
    <3>r. /\ r \in 0..254 /\ (e * 257) % 65535 = r * 257
          /\ s \in 0..256 /\ (e * 255) % 65535 = s * 255
          /\ (r * 128 * 257 + s * 128 * 255) % 65535 = e
      BY <3>3, SMT DEF r, s
    <3>4. ASSUME NEW n \in Nat PROVE Power(F, a, n) = XP(F, (e * n) % 65535)
      <4>1. Power(F, Power(F, X(F), e), n) = Power(F, X(F), e * n)
        BY <3>2, PowerOfPower, XPIs
      <4>2. Power(F, a, n) = XP(F, e * n)
        BY <3>1, <4>1 DEF XP
      <4>3. e * n \in Nat
        BY ONLY <3>2, <3>4
      <4>4. Order(F) > 1
        BY <1>2, SMT
      <4>5. XP(F, e * n) = XP(F, (e * n) % Order(F))
        BY <1>1, <4>3, <4>4, PowersComeRound
      <4> QED BY ONLY <1>2, <4>2, <4>5
    <3>5. Power(F, a, 257) = XP(F, r * 257) /\ Power(F, a, 255) = XP(F, s * 255)
      <4>1. Power(F, a, 257) = XP(F, (e * 257) % 65535)
        BY <3>4, SMT
      <4>2. Power(F, a, 255) = XP(F, (e * 255) % 65535)
        BY <3>4, SMT
      <4> QED BY ONLY <3>r, <4>1, <4>2
    <3>6. Residues255[F] = Residues(F, 255) /\ Residues257[F] = Residues(F, 257)
      BY <1>3, SMT DEF Residues255, Residues257
    <3>7. Residues(F, 255)[XP(F, r * 257)] = r
      <4> DEFINE n == 255
                 m == 257
      <4>1. 65535 \div n = m /\ n \in Nat \ {0} /\ m \in Nat \ {0} /\ r \in 0..(n - 1)
        BY ONLY <3>r, SMT
      <4>2. ASSUME NEW k \in 0..(n - 1) PROVE k * m \in Turns(F)
        <5>1. k \in Int /\ 0 <= k /\ k <= n - 1
          BY <4>2, SMT
        <5>2. k * m \in Int /\ 0 <= k * m /\ k * m <= z - 1
          BY ONLY <1>z, <5>1, SMT
        <5>3. k * m \in 0..(z - 1)
          BY ONLY <1>t, <5>2, SMT
        <5> QED BY <1>t, <5>3, SMT
      <4> HIDE DEF n, m
      <4>3. Residues(F, n)[XP(F, r * m)] = r
        <5>1. \A k \in 0..(n - 1) : k * m \in Turns(F)
          BY ONLY <4>2
        <5>2. IsGF(F)
          OBVIOUS
        <5>3. 65535 \div n = m
          BY ONLY <4>1, SMT
        <5>4. Splits(F, n, m)
          BY ONLY <5>1, <5>3, SMT DEF Splits
        <5> QED BY ONLY <1>1, <4>1, <5>2, <5>4, ResiduesAre
      <4>4. n = 255 /\ m = 257
        BY SMT DEF n, m
      <4> QED BY ONLY <4>3, <4>4
    <3>8. Residues(F, 257)[XP(F, s * 255)] = s
      <4> DEFINE n == 257
                 m == 255
      <4>1. 65535 \div n = m /\ n \in Nat \ {0} /\ m \in Nat \ {0} /\ s \in 0..(n - 1)
        BY ONLY <3>r, SMT
      <4>2. ASSUME NEW k \in 0..(n - 1) PROVE k * m \in Turns(F)
        <5>1. k \in Int /\ 0 <= k /\ k <= n - 1
          BY <4>2, SMT
        <5>2. k * m \in Int /\ 0 <= k * m /\ k * m <= z - 1
          BY ONLY <1>z, <5>1, SMT
        <5>3. k * m \in 0..(z - 1)
          BY ONLY <1>t, <5>2, SMT
        <5> QED BY <1>t, <5>3, SMT
      <4> HIDE DEF n, m
      <4>3. Residues(F, n)[XP(F, s * m)] = s
        <5>1. \A k \in 0..(n - 1) : k * m \in Turns(F)
          BY ONLY <4>2
        <5>2. IsGF(F)
          OBVIOUS
        <5>3. 65535 \div n = m
          BY ONLY <4>1, SMT
        <5>4. Splits(F, n, m)
          BY ONLY <5>1, <5>3, SMT DEF Splits
        <5> QED BY ONLY <1>1, <4>1, <5>2, <5>4, ResiduesAre
      <4>4. n = 257 /\ m = 255
        BY SMT DEF n, m
      <4> QED BY ONLY <4>3, <4>4
    <3>9. Log16(F, a) = e
      <4>1. Log16(F, a) = DiscreteLog16(F, a)
        BY <2>3, SMT DEF Log16
      <4>2. DiscreteLog16(F, a) = (Residues255[F][Power(F, a, 257)] * 128 * 257
                                     + Residues257[F][Power(F, a, 255)] * 128 * 255) % 65535
        BY SMT DEF DiscreteLog16
      <4> QED BY ONLY <3>r, <3>5, <3>6, <3>7, <3>8, <4>1, <4>2, SMT
    <3> QED BY <2>1, <3>1, <3>9, SMT
  <2> QED BY <2>2, <2>3, SMT
<1> QED BY <1>5, <1>6, SMT DEF AreLogs

\* The tables of logarithms hold logarithms.
LEMMA TablesAreLogs ==
    ASSUME NEW F \in KnownFields, IsGF(F), Cycle(F), F.w = 16 => XHasFullOrder(F)
    PROVE  /\ AreLogs(F, PowersOf(F))
           /\ F.w # 16 => Cardinality(DOMAIN PowersOf(F).antilog) = Order(F)
<1>1. CASE F.w = 16
  <2>1. PowersOf(F) = Tables16[F]
    BY <1>1 DEF PowersOf
  <2> QED BY <1>1, <2>1, Tables16Are
<1>2. CASE F.w # 16
  <2>1. PowersOf(F) = Powers(F)
    BY <1>2 DEF PowersOf, PowersTable, IsGF
  <2>2. /\ Cardinality(DOMAIN Powers(F).antilog) = Order(F)
        /\ \A i \in Turns(F) : Powers(F).antilog[i] = XP(F, i)
        /\ \A a \in DOMAIN Powers(F).log : Powers(F).log[a] \in Turns(F) /\ XP(F, Powers(F).log[a]) = a
    BY PowersAre
  <2>3. DOMAIN Powers(F).log = Words(F) \ {Zero}
    BY CycleIsNotMet
  <2>4. AreLogs(F, Powers(F))
    BY <2>2, <2>3 DEF AreLogs
  <2> QED BY <1>2, <2>1, <2>2, <2>4
<1> QED BY <1>1, <1>2

\* A word is its own low part, and has no other.
LEMMA WordParts ==
    ASSUME NEW F, IsGF(F), NEW b \in Words(F)
    PROVE  /\ Cut(b, F.w) = b /\ Shr(b, F.w) = Zero
           /\ \A n \in Nat : Cut(Zero, n) = Zero /\ Shr(Zero, n) = Zero /\ Shl(Zero, n) = Zero
           /\ \A n \in Nat : n >= F.w => Shr(b, n) = Zero
<1>1. F.w \in Nat /\ b \in SUBSET Nat /\ b \in SUBSET (0..(F.w - 1))
  BY WordsAre
<1>2. Cut(b, F.w) = b /\ Shr(b, F.w) = Zero
  BY <1>1, HighAndLow
<1>3. \A n \in Nat : Cut(Zero, n) = Zero /\ Shr(Zero, n) = Zero /\ Shl(Zero, n) = Zero
  BY DEF Cut, Shr, Shl, Zero
<1>4. \A n \in Nat : n >= F.w => Shr(b, n) = Zero
  BY <1>1 DEF Shr, Zero
<1> QED BY <1>2, <1>3, <1>4

\* TABLE of every width, whose entries SHIFT filled: single, double and quad
\* tables of words of four bits, single and double ones of bytes, and SPLIT of
\* bytes, which looks the two halves of a byte up apart.
THEOREM TablesAreTimes ==
    ASSUME NEW F, IsGF(F), NEW a \in Words(F), NEW b \in Words(F)
    PROVE  /\ F.w = 4 => /\ GfW4SingleTableMultiply(GfW4SingleTable(F), a, b) = Times(F, a, b)
                         /\ GfW4DoubleTableMultiply(GfW4SingleTable(F), a, b) = Times(F, a, b)
                         /\ GfW4QuadTableMultiply(GfW4SingleTable(F), a, b) = Times(F, a, b)
           /\ F.w = 8 => /\ GfW8TableMultiply(F, a, b) = Times(F, a, b)
                         /\ GfW8DoubleTableMultiply(F, a, b) = Times(F, a, b)
                         /\ GfW8DoubleTableLazyMultiply(F, a, b) = Times(F, a, b)
                         /\ GfW8SplitMultiply(F, a, b) = Times(F, a, b)
           /\ GfWgenTableMultiply(GfWgenTable(F), a, b) = Times(F, a, b)
<1>1. \A x, y \in Words(F) : Zero \in {x, y} => Times(F, x, y) = Zero
  BY TimesZero
<1>2. \A x, y \in Words(F) : /\ GfWgenShiftMultiply(F, x, y) = Times(F, x, y)
                             /\ F.w = 4 => GfW4ShiftMultiply(F, x, y) = Times(F, x, y)
                             /\ F.w = 8 => GfW8ShiftMultiply(F, x, y) = Times(F, x, y)
  BY ShiftIsTimes
<1>3. Zero \in Words(F)
  BY ZeroOneWords
<1>4. F.w \in Nat /\ b \in SUBSET Nat /\ Cut(b, F.w) = b /\ Shr(b, F.w) = Zero
  BY WordParts, WordsAre
<1>5. \A n \in Nat : Cut(Zero, n) = Zero /\ Shr(Zero, n) = Zero /\ Shl(Zero, n) = Zero
  BY WordParts
<1>6. ASSUME F.w = 4
      PROVE  /\ GfW4SingleTableMultiply(GfW4SingleTable(F), a, b) = Times(F, a, b)
             /\ GfW4DoubleTableMultiply(GfW4SingleTable(F), a, b) = Times(F, a, b)
             /\ GfW4QuadTableMultiply(GfW4SingleTable(F), a, b) = Times(F, a, b)
  <2> DEFINE T == GfW4SingleTable(F)
  <2>1. \A x, y \in Words(F) : T[<<x, y>>] = Times(F, x, y)
    <3> SUFFICES ASSUME NEW x \in Words(F), NEW y \in Words(F) PROVE T[<<x, y>>] = Times(F, x, y)
      OBVIOUS
    <3>1. T[<<x, y>>] = IF Zero \in {x, y} THEN Zero ELSE GfW4ShiftMultiply(F, x, y)
      BY DEF GfW4SingleTable
    <3> HIDE DEF T
    <3> QED BY <1>1, <1>2, <1>6, <3>1
  <2> HIDE DEF T
  <2>2. T[<<a, b>>] = Times(F, a, b) /\ T[<<a, Zero>>] = Zero
    BY <1>1, <1>3, <2>1
  <2>3. GfW4DoubleTable(T, a, b) = T[<<a, b>>]
    BY <1>4, <1>5, <1>6, <2>2 DEF GfW4DoubleTable, Zero
  <2>4. GfW4QuadTable(T, a, b) = T[<<a, b>>]
    <3> DEFINE part(k) == Shl(T[<<a, Cut(Shr(b, 4 * k), 4)>>], 4 * k)
    <3>1. part(0) = T[<<a, b>>]
      <4>1. Shr(b, 4 * 0) = b
        <5>1. Shr(b, 0) = b
          BY <1>4, NextBit
        <5> QED BY <5>1
      <4>2. Shl(T[<<a, b>>], 4 * 0) = T[<<a, b>>]
        <5>1. ASSUME NEW s \in SUBSET Nat PROVE Shl(s, 0) = s
          <6>1. \A i \in s : i + 0 = i
            OBVIOUS
          <6>2. \A i : i \in Shl(s, 0) <=> i \in s
            BY <6>1 DEF Shl
          <6> QED BY <6>2
        <5>2. Times(F, a, b) \in SUBSET Nat
          BY TimesIsRing, WordsAre
        <5> QED BY <2>2, <5>1, <5>2
      <4> QED BY <1>4, <1>6, <4>1, <4>2
    <3>2. ASSUME NEW k \in 1..3 PROVE part(k) = Zero
      <4>1. 4 * k \in Nat /\ 4 * k >= F.w
        BY <1>6
      <4>2. Shr(b, 4 * k) = Zero
        BY <4>1, WordParts
      <4> QED BY <1>5, <2>2, <4>1, <4>2
    <3>3. GfW4QuadTable(T, a, b) = UNION {part(k) : k \in 0..3}
      BY DEF GfW4QuadTable
    <3> HIDE DEF part
    <3>4. \A k \in 0..3 : k = 0 \/ k \in 1..3
      OBVIOUS
    <3>5. UNION {part(k) : k \in 0..3} = part(0)
      BY <3>2, <3>4 DEF Zero
    <3> QED BY <3>1, <3>3, <3>5
  <2>5. /\ GfW4SingleTableMultiply(T, a, b) = Times(F, a, b)
        /\ GfW4DoubleTableMultiply(T, a, b) = Times(F, a, b)
        /\ GfW4QuadTableMultiply(T, a, b) = Times(F, a, b)
    BY <2>2, <2>3, <2>4 DEF GfW4SingleTableMultiply, GfW4DoubleTableMultiply, GfW4QuadTableMultiply
  <2> QED BY <2>5 DEF T
<1>7. ASSUME F.w = 8
      PROVE  /\ GfW8TableMultiply(F, a, b) = Times(F, a, b)
             /\ GfW8DoubleTableMultiply(F, a, b) = Times(F, a, b)
             /\ GfW8DoubleTableLazyMultiply(F, a, b) = Times(F, a, b)
             /\ GfW8SplitMultiply(F, a, b) = Times(F, a, b)
  <2>1. \A x, y \in Words(F) : GfW8TableMultiply(F, x, y) = Times(F, x, y)
    BY <1>1, <1>2, <1>7 DEF GfW8TableMultiply
  <2>2. GfW8DoubleTableMultiply(F, a, b) = Times(F, a, b)
    <3>1. GfW8TableMultiply(F, a, Zero) = Zero /\ GfW8TableMultiply(F, a, b) = Times(F, a, b)
      BY <1>1, <1>3, <2>1
    <3> QED BY <1>4, <1>5, <1>7, <3>1 DEF GfW8DoubleTableMultiply, GfW8DoubleTable, Zero
  <2>3. GfW8SplitMultiply(F, a, b) = Times(F, a, b)
    <3> DEFINE low == Cut(a, 4)
               high == Shl(Shr(a, 4), 4)
    <3>1. a \in SUBSET Nat /\ a \in SUBSET (0..7)
      BY <1>7, WordsAre
    <3>2. a = Xor(low, high)
      BY <3>1, HighAndLow
    <3>3. low \in Words(F) /\ high \in Words(F)
      <4>1. high \in SUBSET a /\ low \in SUBSET a
        BY <3>1 DEF Shl, Shr, Cut
      <4> HIDE DEF low, high
      <4> QED BY <4>1 DEF Words
    <3> HIDE DEF low, high
    <3>4. GfW8SplitMultiply(F, a, b) = Xor(Times(F, b, high), Times(F, b, low))
      BY <2>1, <3>3 DEF GfW8SplitMultiply, SplitHigh, SplitLow, high, low
    <3>5. Times(F, b, Xor(high, low)) = Xor(Times(F, b, high), Times(F, b, low))
      BY <3>3, TimesIsRing
    <3>6. Xor(high, low) = a
      BY <3>2, XorAlgebra
    <3>7. Times(F, b, a) = Times(F, a, b)
      BY TimesIsRing
    <3> QED BY <3>4, <3>5, <3>6, <3>7
  <2>4. GfW8DoubleTableLazyMultiply(F, a, b) = Times(F, a, b)
    BY <2>1 DEF GfW8DoubleTableLazyMultiply
  <2> QED BY <2>1, <2>2, <2>3, <2>4
<1>8. GfWgenTableMultiply(GfWgenTable(F), a, b) = Times(F, a, b)
  <2>1. GfWgenTableMultiply(GfWgenTable(F), a, b) = IF Zero \in {a, b} THEN Zero ELSE GfWgenShiftMultiply(F, a, b)
    BY DEF GfWgenTableMultiply, GfWgenTable
  <2> QED BY <1>1, <1>2, <2>1
<1> QED BY <1>6, <1>7, <1>8

\* The first w powers of x are single bits.
LEMMA PowerIsBit ==
    ASSUME NEW F, IsGF(F), NEW n \in 0..(F.w - 1)
    PROVE  XP(F, n) = {n} /\ {n} \in Words(F)
<1> DEFINE G == {k \in Nat : k < F.w => XP(F, k) = {k}}
<1>1. F.w \in Nat /\ F.w >= 1
  BY DEF IsGF
<1>2. 0 \in G
  BY XPIs DEF One
<1>3. ASSUME NEW k \in Nat, k \in G PROVE k + 1 \in G
  <2> SUFFICES ASSUME k + 1 < F.w PROVE XP(F, k + 1) = {k + 1}
    OBVIOUS
  <2>1. XP(F, k) = {k}
    BY <1>1, <1>3
  <2>2. XP(F, k + 1) = Double(F, XP(F, k))
    BY XPIs
  <2>3. F.w - 1 \notin {k}
    BY <1>1
  <2>4. Double(F, {k}) = Shl({k}, 1)
    BY <2>3 DEF Double
  <2>5. Shl({k}, 1) = {k + 1}
    BY DEF Shl
  <2> QED BY <2>1, <2>2, <2>4, <2>5
<1>4. \A k \in Nat : k >= 0 => k \in G
  <2> HIDE DEF G
  <2> QED BY <1>2, <1>3, Upwards
<1> QED BY <1>1, <1>4 DEF Words

\* The word v doubled i times.
DoubledTimes(F, v, i) == Times(F, XP(F, i), v)

\* One doubling more.
LEMMA DoubledNext ==
    ASSUME NEW F, IsGF(F), NEW v \in Words(F)
    PROVE  /\ DoubledTimes(F, v, 0) = v
           /\ \A i \in Nat : /\ DoubledTimes(F, v, i) \in Words(F)
                             /\ DoubledTimes(F, v, i + 1) = Double(F, DoubledTimes(F, v, i))
<1>1. DoubledTimes(F, v, 0) = v
  BY XPIs, TimesIsRing DEF DoubledTimes
<1>2. ASSUME NEW i \in Nat
      PROVE  /\ DoubledTimes(F, v, i) \in Words(F)
             /\ DoubledTimes(F, v, i + 1) = Double(F, DoubledTimes(F, v, i))
  <2>1. XP(F, i) \in Words(F) /\ XP(F, i + 1) \in Words(F) /\ XP(F, i + 1) = Double(F, XP(F, i))
    BY XPIs
  <2>2. Times(F, v, Double(F, XP(F, i))) = Double(F, Times(F, v, XP(F, i)))
    BY <2>1, TimesOfDouble
  <2>3. \A y \in Words(F) : Times(F, v, y) = Times(F, y, v) /\ Times(F, v, y) \in Words(F)
    BY TimesIsRing
  <2> QED BY <2>1, <2>2, <2>3 DEF DoubledTimes
<1> QED BY <1>1, <1>2

\* A row of doublings holds v, v x, v x^2 and so on.
LEMMA DoublingsAre ==
    ASSUME NEW F, IsGF(F), NEW v \in Words(F), NEW n \in Nat \ {0}, NEW j \in 0..(n - 1)
    PROVE  Doublings(F, v, n)[j] = Times(F, XP(F, j), v)
<1> DEFINE Turn(s, i) == Append(s, Double(F, s[i + 1]))
           Value(g, i) == IF i = 0 THEN <<v>> ELSE Turn(g[i - 1], i - 1)
           after == CHOOSE g : g = [i \in 0..(n - 1) |-> Value(g, i)]
           row == [i \in 0..(n - 1) |-> [k \in 1..(i + 1) |-> DoubledTimes(F, v, k - 1)]]
<1>1. Doublings(F, v, n)[j] = after[n - 1][j + 1]
  BY DEF Doublings, Repeat
<1>2. row[0] = <<v>>
  <2>1. row[0] = [k \in 1..1 |-> DoubledTimes(F, v, k - 1)]
    OBVIOUS
  <2>2. \A k \in 1..1 : k - 1 = 0
    OBVIOUS
  <2>3. DoubledTimes(F, v, 0) = v
    BY DoubledNext
  <2>4. row[0] = [k \in 1..1 |-> v]
    BY <2>1, <2>2, <2>3
  <2> QED BY <2>4
<1>3. ASSUME NEW i \in 0..(n - 2) PROVE row[i + 1] = Turn(row[i], i)
  <2> DEFINE s == [k \in 1..(i + 1) |-> DoubledTimes(F, v, k - 1)]
             t == [k \in 1..((i + 1) + 1) |-> DoubledTimes(F, v, k - 1)]
  <2>1. row[i] = s /\ row[i + 1] = t
    OBVIOUS
  <2>2. \A k \in Nat : DoubledTimes(F, v, k) \in Words(F) /\ DoubledTimes(F, v, k + 1) = Double(F, DoubledTimes(F, v, k))
    BY DoubledNext
  <2>3. s \in Seq(Words(F)) /\ Len(s) = i + 1 /\ s[i + 1] = DoubledTimes(F, v, i)
    BY <2>2
  <2>4. t \in Seq(Words(F)) /\ Len(t) = (i + 1) + 1 /\ t[(i + 1) + 1] = Double(F, s[i + 1])
    BY <2>2, <2>3
  <2>5. \A k \in 1..(i + 1) : t[k] = s[k]
    OBVIOUS
  <2> HIDE DEF s, t, row
  <2>6. t = Append(s, Double(F, s[i + 1]))
    BY <2>3, <2>4, <2>5
  <2> QED BY <2>1, <2>6
<1>4. row = [i \in 0..(n - 1) |-> Value(row, i)]
  <2>1. \A i \in 0..(n - 1) : i # 0 => i - 1 \in 0..(n - 2) /\ (i - 1) + 1 = i
    OBVIOUS
  <2>2. \A i \in 0..(n - 1) : row[i] = Value(row, i)
    <3> HIDE DEF row, Turn
    <3> QED BY <1>2, <1>3, <2>1
  <2> HIDE DEF Value
  <2> QED BY <2>2
<1>5. after = [i \in 0..(n - 1) |-> Value(after, i)]
  <2> HIDE DEF Value, row
  <2> QED BY <1>4
<1> HIDE DEF after, row, Turn
<1>6. after[n - 1] = row[n - 1]
  <2>1. after[0] = row[0]
    BY <1>2, <1>5
  <2>2. ASSUME NEW i \in 0..(n - 2), after[i] = row[i] PROVE after[i + 1] = row[i + 1]
    <3>1. i + 1 \in 0..(n - 1) /\ i + 1 # 0 /\ (i + 1) - 1 = i
      OBVIOUS
    <3>2. after[i + 1] = Turn(after[i], i)
      BY <1>5, <3>1
    <3> QED BY <1>3, <2>2, <3>2
  <2>3. n - 1 \in Nat /\ (n - 1) - 1 = n - 2
    OBVIOUS
  <2> QED BY <2>1, <2>2, <2>3, LoopsAgree
<1>7. row[n - 1][j + 1] = Times(F, XP(F, j), v)
  <2>1. n - 1 \in 0..(n - 1) /\ j + 1 \in 1..((n - 1) + 1) /\ (j + 1) - 1 = j
    OBVIOUS
  <2>2. row[n - 1] = [k \in 1..((n - 1) + 1) |-> DoubledTimes(F, v, k - 1)]
    BY <2>1 DEF row
  <2> QED BY <2>1, <2>2 DEF DoubledTimes
<1> QED BY <1>1, <1>6, <1>7

\* A sum of one more.
LEMMA SumOfNext ==
    ASSUME NEW T, IsFiniteSet(T), NEW n, n \notin T, NEW f
    PROVE  /\ SumOver(T \cup {n}, f) = Xor(SumOver(T, f), f[n])
           /\ SumOver({}, f) = {}
<1>1. ASSUME NEW S, NEW k PROVE k \in SumOver(S, f) <=> Odd({s \in S : k \in f[s]})
  <2>1. Odd({s \in S : k \in f[s]}) => k \in UNION {f[s] : s \in S}
    <3>1. ~Odd({})
      BY OddFew
    <3>2. Odd({s \in S : k \in f[s]}) => \E s \in S : k \in f[s]
      BY <3>1
    <3> QED BY <3>2
  <2> QED BY <2>1 DEF SumOver
<1>2. ASSUME NEW k PROVE k \in SumOver(T \cup {n}, f) <=> ~(k \in SumOver(T, f) <=> k \in f[n])
  <2> DEFINE A == {s \in T : k \in f[s]}
             B == {s \in {n} : k \in f[s]}
             C == {s \in T \cup {n} : k \in f[s]}
  <2>1. C = Xor(A, B)
    BY DEF Xor
  <2>2. IsFiniteSet(A) /\ IsFiniteSet(B)
    <3>1. A \in SUBSET T /\ B \in SUBSET {n} /\ IsFiniteSet({n})
      BY FS_Singleton
    <3> HIDE DEF A, B
    <3> QED BY <3>1, FS_Subset
  <2>3. Odd(B) <=> k \in f[n]
    <3>1. k \in f[n] => B = {n}
      OBVIOUS
    <3>2. k \notin f[n] => B = {}
      OBVIOUS
    <3> HIDE DEF B
    <3> QED BY <3>1, <3>2, OddFew
  <2>4. (k \in SumOver(T \cup {n}, f) <=> Odd(C)) /\ (k \in SumOver(T, f) <=> Odd(A))
    BY <1>1
  <2> HIDE DEF A, B, C
  <2> QED BY <2>1, <2>2, <2>3, <2>4, OddXor
<1>3. SumOver(T \cup {n}, f) = Xor(SumOver(T, f), f[n])
  BY <1>2, InXor
<1>4. SumOver({}, f) = {}
  BY DEF SumOver
<1> QED BY <1>3, <1>4

\* A sum of multiples of c by single bits is the multiple by the word of the bits.
LEMMA SumIsTimes ==
    ASSUME NEW F, IsGF(F), NEW c \in Words(F), NEW S \in Words(F), NEW f,
           \A n \in S : f[n] = Times(F, {n}, c)
    PROVE  SumOver(S, f) = Times(F, S, c)
<1> DEFINE G == {k \in Nat : SumOver(Cut(S, k), f) = Times(F, Cut(S, k), c)}
<1>1. F.w \in Nat /\ S \in SUBSET Nat /\ S \in SUBSET (0..(F.w - 1)) /\ IsFiniteSet(S)
  BY WordsAre, PolynomialIs
<1>2. \A T \in SUBSET S : T \in Words(F) /\ IsFiniteSet(T)
  BY <1>1, FS_Subset DEF Words
<1>3. 0 \in G
  <2>1. Cut(S, 0) = {}
    BY <1>1, NextBit
  <2>2. SumOver({}, f) = {}
    BY DEF SumOver
  <2>3. Times(F, {}, c) = {}
    BY TimesZero DEF Zero
  <2> QED BY <2>1, <2>2, <2>3
<1>4. ASSUME NEW k \in Nat, k \in G PROVE k + 1 \in G
  <2> DEFINE T == Cut(S, k)
  <2>1. Cut(S, k + 1) = Xor(T, IF k \in S THEN {k} ELSE {})
    BY <1>1, NextBit
  <2>2. T \in SUBSET S /\ k \notin T
    BY DEF Cut
  <2>3. SumOver(T, f) = Times(F, T, c)
    BY <1>4
  <2> HIDE DEF T
  <2>4. CASE k \in S
    <3>1. Cut(S, k + 1) = Xor(T, {k}) /\ Xor(T, {k}) = T \cup {k}
      BY <2>1, <2>2, <2>4 DEF Xor
    <3>2. SumOver(T \cup {k}, f) = Xor(SumOver(T, f), f[k])
      BY <1>2, <2>2, SumOfNext
    <3>3. {k} \in Words(F) /\ T \in Words(F)
      BY <1>2, <2>2, <2>4
    <3>4. Times(F, Xor(T, {k}), c) = Xor(Times(F, T, c), Times(F, {k}, c))
      BY <3>3, TimesOfSum
    <3>5. SumOver(Cut(S, k + 1), f) = Times(F, Cut(S, k + 1), c)
      BY <2>3, <2>4, <3>1, <3>2, <3>4
    <3> QED BY <3>5
  <2>5. CASE k \notin S
    <3>1. Cut(S, k + 1) = T
      BY <2>1, <2>5, XorAlgebra
    <3> QED BY <2>3, <3>1
  <2> QED BY <2>4, <2>5
<1>5. \A k \in Nat : k >= 0 => k \in G
  <2> HIDE DEF G
  <2> QED BY <1>3, <1>4, Upwards
<1>6. Cut(S, F.w) = S
  BY WordParts
<1> QED BY <1>1, <1>5, <1>6

\* An entry of tables[k] of SPLIT 8 8 is i j x^(8k).
LEMMA Table88Is ==
    ASSUME NEW F, IsGF(F), F.w = 16, NEW k \in 0..2, NEW i \in SUBSET (0..7), NEW j \in SUBSET (0..7)
    PROVE  Table88(F, k, i, j) = Times(F, i, Times(F, XP(F, 8 * k), j))
<1> DEFINE m == 8 * k + 16
           row == Doublings(F, One, m)
           p == XP(F, 8 * k)
           inner(n) == [l \in j |-> row[(8 * k + n) + l]]
           outer == [n \in i |-> SumOver(j, inner(n))]
<1>1. m \in Nat \ {0} /\ 8 * k \in Nat
  OBVIOUS
<1>2. i \in Words(F) /\ j \in Words(F) /\ One \in Words(F)
  BY ZeroOneWords DEF Words
<1>3. Table88(F, k, i, j) = SumOver(i, outer)
  BY DEF Table88
<1> HIDE DEF row
<1>4. ASSUME NEW q \in 0..(m - 1) PROVE row[q] = XP(F, q)
  <2>1. row[q] = Times(F, XP(F, q), One)
    BY <1>1, <1>2, DoublingsAre DEF row
  <2>2. XP(F, q) \in Words(F)
    BY <1>1, XPIs
  <2>3. Times(F, XP(F, q), One) = Times(F, One, XP(F, q)) /\ Times(F, One, XP(F, q)) = XP(F, q)
    BY <1>2, <2>2, TimesIsRing
  <2> QED BY <2>1, <2>3
<1>5. p \in Words(F) /\ Times(F, p, j) \in Words(F)
  BY <1>1, <1>2, XPIs, TimesIsRing
<1>6. \A n \in Nat, l \in Nat : XP(F, n + l) = Times(F, XP(F, n), XP(F, l))
  BY XPIs
<1>7. ASSUME NEW n \in i PROVE outer[n] = Times(F, {n}, Times(F, p, j))
  <2> DEFINE d == 8 * k + n
  <2>1. n \in 0..7 /\ d \in Nat /\ n \in 0..(F.w - 1)
    OBVIOUS
  <2>2. XP(F, d) = Times(F, p, XP(F, n)) /\ XP(F, n) = {n} /\ {n} \in Words(F)
    <3>1. XP(F, d) = Times(F, p, XP(F, n))
      BY <1>1, <1>6, <2>1
    <3> QED BY <2>1, <3>1, PowerIsBit
  <2>3. XP(F, d) \in Words(F)
    BY <2>1, XPIs
  <2>4. ASSUME NEW l \in j PROVE inner(n)[l] = Times(F, {l}, XP(F, d))
    <3>1. l \in 0..7 /\ d + l \in 0..(m - 1) /\ l \in 0..(F.w - 1) /\ l \in Nat
      OBVIOUS
    <3>2. inner(n)[l] = row[d + l]
      OBVIOUS
    <3>3. XP(F, l) = {l} /\ {l} \in Words(F)
      BY <3>1, PowerIsBit
    <3> HIDE DEF d, inner, m
    <3>4. row[d + l] = Times(F, XP(F, d), {l})
      BY <1>4, <1>6, <2>1, <3>1, <3>3
    <3>5. Times(F, XP(F, d), {l}) = Times(F, {l}, XP(F, d))
      BY <2>3, <3>3, TimesIsRing
    <3> QED BY <3>2, <3>4, <3>5
  <2> HIDE DEF d, inner
  <2>5. SumOver(j, inner(n)) = Times(F, j, XP(F, d))
    BY <1>2, <2>3, <2>4, SumIsTimes
  <2>6. Times(F, j, Times(F, p, {n})) = Times(F, {n}, Times(F, p, j))
    <3>1. Times(F, Times(F, p, {n}), j) = Times(F, j, Times(F, p, {n}))
      BY <1>2, <1>5, <2>2, TimesIsRing
    <3>2. Times(F, {n}, p) = Times(F, p, {n})
      BY <1>5, <2>2, TimesIsRing
    <3>3. Times(F, Times(F, {n}, p), j) = Times(F, {n}, Times(F, p, j))
      BY <1>2, <1>5, <2>2, TimesIsRing
    <3> QED BY <3>1, <3>2, <3>3
  <2>7. outer[n] = SumOver(j, inner(n))
    BY DEF inner
  <2> QED BY <2>2, <2>5, <2>6, <2>7
<1> HIDE DEF outer, p
<1>8. SumOver(i, outer) = Times(F, i, Times(F, p, j))
  BY <1>2, <1>5, <1>7, SumIsTimes
<1> QED BY <1>3, <1>8 DEF p

\* SPLIT 8 8: both words in two bytes, four products of bytes from three tables.
THEOREM Split88IsTimes ==
    ASSUME NEW F, IsGF(F), F.w = 16, NEW a \in Words(F), NEW b \in Words(F)
    PROVE  GfW16Split88Multiply(F, a, b) = Times(F, a, b)
<1> DEFINE L(x) == Piece(8, x, 0)
           H(x) == Piece(8, x, 1)
           y == {8}
<1>1. ASSUME NEW x \in Words(F)
      PROVE  /\ L(x) \in SUBSET (0..7) /\ H(x) \in SUBSET (0..7)
             /\ L(x) \in Words(F) /\ H(x) \in Words(F)
             /\ x = Xor(L(x), Times(F, y, H(x)))
  <2>1. x \in SUBSET Nat /\ x \in SUBSET (0..15) /\ 8 * 0 = 0 /\ 8 * 1 = 8
    BY WordsAre
  <2>2. Shr(x, 0) = x
    BY <2>1, NextBit
  <2>3. L(x) = Cut(x, 8) /\ H(x) = Cut(Shr(x, 8), 8)
    BY <2>1, <2>2 DEF Piece
  <2>4. x = Xor(Cut(x, 8), Shl(Shr(x, 8), 8))
    BY <2>1, HighAndLow
  <2>5. Cut(x, 8) \in SUBSET (0..7) /\ Shr(x, 8) \in SUBSET (0..7)
    <3>1. 8 \in Nat /\ 15 \in Nat /\ 8 - 1 = 7 /\ 15 - 8 = 7
      OBVIOUS
    <3>2. \A n \in Nat : Cut(x, n) \in SUBSET (0..(n - 1))
      BY <2>1, HighAndLow
    <3>3. \A m \in Nat : x \in SUBSET (0..m) => Shr(x, 8) \in SUBSET (0..(m - 8))
      BY <2>1, <3>1, HighAndLow
    <3>4. Cut(x, 8) \in SUBSET (0..(8 - 1))
      BY ONLY <3>1, <3>2
    <3>5. Shr(x, 8) \in SUBSET (0..(15 - 8))
      BY ONLY <2>1, <3>1, <3>3
    <3> QED BY ONLY <3>1, <3>4, <3>5, SMTT(30)
  <2>6. H(x) = Shr(x, 8)
    <3>1. Shr(x, 8) \in SUBSET Nat
      BY <2>5
    <3>2. Cut(Shr(x, 8), 8) = Shr(x, 8)
      BY <2>5 DEF Cut
    <3> QED BY <2>3, <3>2
  <2> HIDE DEF L, H
  <2>7. L(x) \in SUBSET (0..7) /\ H(x) \in SUBSET (0..7)
    BY <2>3, <2>5, <2>6
  <2>8. L(x) \in Words(F) /\ H(x) \in Words(F)
    BY <2>7 DEF Words
  <2>9. Times(F, y, H(x)) = Shl(H(x), 8)
    <3>1. H(x) \in Polynomial
      BY <2>8, WordsAre
    <3>2. Product(y, H(x)) = Shl(H(x), 8)
      BY <3>1, ProductOfPower
    <3>3. Shl(H(x), 8) \in Words(F)
      BY <2>7 DEF Words, Shl
    <3> QED BY <3>2, <3>3, WordsAre DEF Times
  <2> QED BY <2>3, <2>4, <2>6, <2>7, <2>8, <2>9
<1>2. XP(F, 8 * 0) = One /\ XP(F, 8 * 1) = y /\ XP(F, 8 * 2) = Times(F, y, y) /\ y \in Words(F)
  <2>1. 8 \in 0..(F.w - 1) /\ 8 * 0 = 0 /\ 8 * 1 = 8 /\ 8 * 2 = 8 + 8
    OBVIOUS
  <2>2. XP(F, 0) = One /\ XP(F, 8 + 8) = Times(F, XP(F, 8), XP(F, 8))
    BY XPIs
  <2>3. XP(F, 8) = y /\ y \in Words(F)
    BY <2>1, PowerIsBit
  <2> HIDE DEF y
  <2> QED BY <2>1, <2>2, <2>3
<1> DEFINE la == L(a)
           lb == L(b)
           ha == H(a)
           hb == H(b)
<1>3. GfW16Split88Multiply(F, a, b) =
          Xor(Xor(Table88(F, 0, la, lb), Table88(F, 1, la, hb)), Xor(Table88(F, 1, ha, lb), Table88(F, 2, ha, hb)))
  BY DEF GfW16Split88Multiply
<1>4. /\ la \in SUBSET (0..7) /\ ha \in SUBSET (0..7) /\ lb \in SUBSET (0..7) /\ hb \in SUBSET (0..7)
      /\ la \in Words(F) /\ ha \in Words(F) /\ lb \in Words(F) /\ hb \in Words(F)
      /\ a = Xor(la, Times(F, y, ha)) /\ b = Xor(lb, Times(F, y, hb))
  <2> HIDE DEF L, H
  <2> QED BY <1>1
<1> HIDE DEF la, lb, ha, hb, y, L, H
<1>5. \A s, t \in Words(F) : Times(F, s, t) \in Words(F) /\ Times(F, s, t) = Times(F, t, s) /\ Times(F, One, s) = s
  BY TimesIsRing
<1>6. \A s, t, u \in Words(F) : Times(F, Times(F, s, t), u) = Times(F, s, Times(F, t, u))
  BY TimesIsRing
<1>7. \A s, t, u \in Words(F) : /\ Times(F, s, Xor(t, u)) = Xor(Times(F, s, t), Times(F, s, u))
                                /\ Times(F, Xor(t, u), s) = Xor(Times(F, t, s), Times(F, u, s))
  BY TimesIsRing, TimesOfSum
<1>8. Table88(F, 0, la, lb) = Times(F, la, lb)
  BY <1>2, <1>4, <1>5, Table88Is
<1>9. Table88(F, 1, la, hb) = Times(F, la, Times(F, y, hb))
  BY <1>2, <1>4, Table88Is
<1>10. Table88(F, 1, ha, lb) = Times(F, Times(F, y, ha), lb)
  <2>1. Table88(F, 1, ha, lb) = Times(F, ha, Times(F, y, lb))
    BY <1>2, <1>4, Table88Is
  <2>2. Times(F, ha, Times(F, y, lb)) = Times(F, Times(F, ha, y), lb)
    BY <1>2, <1>4, <1>6
  <2> QED BY <1>2, <1>4, <1>5, <2>1, <2>2
<1>11. Table88(F, 2, ha, hb) = Times(F, Times(F, y, ha), Times(F, y, hb))
  <2>1. Table88(F, 2, ha, hb) = Times(F, ha, Times(F, Times(F, y, y), hb))
    BY <1>2, <1>4, Table88Is
  <2>2. Times(F, Times(F, y, y), hb) = Times(F, y, Times(F, y, hb))
    BY <1>2, <1>4, <1>6
  <2>3. Times(F, ha, Times(F, y, Times(F, y, hb))) = Times(F, Times(F, ha, y), Times(F, y, hb))
    BY <1>2, <1>4, <1>5, <1>6
  <2>4. Times(F, ha, y) = Times(F, y, ha)
    BY <1>2, <1>4, <1>5
  <2> QED BY <2>1, <2>2, <2>3, <2>4
<1>12. ASSUME NEW s \in Words(F), NEW t \in Words(F), NEW u \in Words(F), NEW v \in Words(F)
       PROVE  Times(F, Xor(s, t), Xor(u, v)) = Xor(Xor(Times(F, s, u), Times(F, s, v)), Xor(Times(F, t, u), Times(F, t, v)))
  <2>1. Xor(u, v) \in Words(F)
    BY WordSums
  <2> QED BY <1>7, <2>1
<1>13. Times(F, y, ha) \in Words(F) /\ Times(F, y, hb) \in Words(F)
  BY <1>2, <1>4, <1>5
<1> QED BY <1>3, <1>4, <1>8, <1>9, <1>10, <1>11, <1>12, <1>13

\* The multiples of the polynomial are 0 in the field.
LEMMA MultipleIsZero ==
    ASSUME NEW F, IsGF(F), NEW i \in Words(F)
    PROVE  Product(i, Whole(F)) \in SUBSET (0..(2 * F.w)) /\ Reduced(F, Product(i, Whole(F))) = Zero
<1> DEFINE W == Whole(F)
           Zeroes(p) == p \in SUBSET (0..(2 * F.w)) /\ Reduced(F, p) = Zero
           G == {k \in Nat : Zeroes(Product(Cut(i, k), W))}
<1>1. /\ F.w \in Nat /\ F.w >= 1 /\ i \in SUBSET (0..(F.w - 1)) /\ i \in Polynomial /\ i \in SUBSET Nat
      /\ Zero \in SUBSET (0..(2 * F.w)) /\ Reduced(F, Zero) = Zero
  BY WordsAre, ZeroOneWords
<1>2. W \in Polynomial
  <2>1. W \in SUBSET (0..F.w)
    <3>1. F.poly \in SUBSET (0..(F.w - 1)) /\ W = F.poly \cup {F.w}
      BY DEF Whole, IsGF
    <3> QED BY <1>1, <3>1
  <2>2. F.w \in Int
    BY <1>1
  <2> HIDE DEF W
  <2> QED BY <2>1, <2>2, WordPolynomial
<1>3. \A k \in Nat : Cut(i, k) \in Polynomial
  BY <1>1, SmallerPolynomial DEF Cut
<1> HIDE DEF W
<1>4. 0 \in G
  <2>1. Cut(i, 0) = {} /\ Product({}, W) = {}
    BY <1>1, <1>2, NextBit, ProductOfZero
  <2> QED BY <1>1, <2>1 DEF Zero
<1>5. ASSUME NEW k \in Nat, k \in G PROVE k + 1 \in G
  <2> DEFINE c == Cut(i, k)
  <2>1. Cut(i, k + 1) = Xor(c, IF k \in i THEN {k} ELSE {})
    BY <1>1, NextBit
  <2>2. Zeroes(Product(c, W)) /\ c \in Polynomial
    BY <1>3, <1>5
  <2> HIDE DEF c
  <2>3. CASE k \notin i
    <3>1. Cut(i, k + 1) = c
      BY <2>1, <2>3, XorAlgebra
    <3> QED BY <2>2, <3>1
  <2>4. CASE k \in i
    <3>1. k \in 0..F.w
      BY <1>1, <2>4
    <3>2. {k} \in Polynomial /\ Product({k}, W) = Shl(W, k)
      BY <1>2, ProductOfPower
    <3>3. Zeroes(Shl(W, k))
      BY <3>1, WholeIsZero DEF W
    <3>4. Product(Xor(c, {k}), W) = Xor(Product(c, W), Product({k}, W))
      BY <1>2, <2>2, <3>2, ProductOfSum
    <3>5. Reduced(F, Xor(Product(c, W), Shl(W, k))) = Xor(Zero, Zero)
      <4> DEFINE p == Product(c, W)
                 q == Shl(W, k)
      <4>1. p \in SUBSET (0..(2 * F.w)) /\ q \in SUBSET (0..(2 * F.w)) /\ Reduced(F, p) = Zero /\ Reduced(F, q) = Zero
        BY <2>2, <3>3
      <4> HIDE DEF p, q
      <4>2. Reduced(F, Xor(p, q)) = Xor(Reduced(F, p), Reduced(F, q))
        BY <4>1, ReducedSum
      <4>3. Reduced(F, Xor(p, q)) = Xor(Zero, Zero)
        BY <4>1, <4>2
      <4> QED BY <4>3 DEF p, q
    <3>6. Xor(Product(c, W), Shl(W, k)) \in SUBSET (0..(2 * F.w))
      <4>1. Product(c, W) \in SUBSET (0..(2 * F.w)) /\ Shl(W, k) \in SUBSET (0..(2 * F.w))
        BY <2>2, <3>3
      <4> QED BY <4>1 DEF Xor
    <3>7. Xor(Zero, Zero) = Zero
      BY DEF Xor, Zero
    <3>8. Product(Cut(i, k + 1), W) = Xor(Product(c, W), Shl(W, k))
      BY <2>1, <2>4, <3>2, <3>4
    <3> QED BY <3>5, <3>6, <3>7, <3>8
  <2> QED BY <2>3, <2>4
<1>6. \A k \in Nat : k >= 0 => k \in G
  <2> HIDE DEF G
  <2> QED BY <1>4, <1>5, Upwards
<1>7. Cut(i, F.w) = i
  BY WordParts
<1> QED BY <1>1, <1>6, <1>7 DEF W

\* The high part of a sum is the sum of the high parts.
LEMMA HighOfSums == \A p, q \in SUBSET Nat : \A n \in Nat : Shr(Xor(p, q), n) = Xor(Shr(p, n), Shr(q, n))
<1> SUFFICES ASSUME NEW p \in SUBSET Nat, NEW q \in SUBSET Nat, NEW n \in Nat
             PROVE  Shr(Xor(p, q), n) = Xor(Shr(p, n), Shr(q, n))
  OBVIOUS
<1> QED BY HighAndLowOfSum

\* A finite set of bits that is not empty has a highest one.
LEMMA HighestBit ==
    ASSUME NEW n \in Nat, NEW d \in SUBSET (0..n), d # {}
    PROVE  \E m \in d : \A x \in d : x <= m
<1> DEFINE T == {k \in Nat : \A x \in d : x <= k}
<1>1. n \in T
  OBVIOUS
<1>2. T \in SUBSET Nat
  OBVIOUS
<1>3. PICK m \in T : \A k \in T : m <= k
  <2> HIDE DEF T
  <2> QED BY <1>1, <1>2, LeastNat
<1>4. m \in Nat /\ \A x \in d : x <= m
  BY <1>3
<1>5. m \in d
  <2> SUFFICES ASSUME m \notin d PROVE FALSE
    OBVIOUS
  <2>1. \A x \in d : x \in Nat /\ x <= m - 1
    BY <1>4
  <2>2. m - 1 \in Nat
    <3>1. PICK x \in d : TRUE
      OBVIOUS
    <3>2. x \in Nat /\ x <= m - 1
      BY <2>1
    <3> QED BY <1>4, <3>2
  <2>3. m - 1 \in T
    BY <2>1, <2>2
  <2> QED BY <1>3, <1>4, <2>3
<1> QED BY <1>4, <1>5

\* The part of a multiple of the polynomial above the word, i # {} has one.
LEMMA MultipleHigh ==
    ASSUME NEW F, IsGF(F), NEW g \in 1..F.w, NEW i \in SUBSET (0..(g - 1))
    PROVE  /\ Shr(Product(i, Whole(F)), F.w) \in SUBSET (0..(g - 1))
           /\ i # {} => Shr(Product(i, Whole(F)), F.w) # {}
           /\ i \in Words(F) /\ i \in Polynomial /\ Whole(F) \in Polynomial
<1> DEFINE W == Whole(F)
           p == Product(i, W)
<1>1. F.w \in Nat /\ g \in Nat /\ g <= F.w /\ g >= 1
  BY DEF IsGF
<1>2. W \in SUBSET (0..F.w) /\ F.w \in W
  <2>1. F.poly \in SUBSET (0..(F.w - 1)) /\ W = F.poly \cup {F.w}
    BY DEF Whole, IsGF
  <2> QED BY <1>1, <2>1
<1>3. i \in Polynomial /\ W \in Polynomial
  <2>1. g - 1 \in Int
    BY <1>1
  <2>2. i \in Polynomial
    BY <2>1, WordPolynomial
  <2>3. W \in Polynomial
    <3>1. F.w \in Int /\ W \in SUBSET (0..F.w)
      BY <1>1, <1>2
    <3> HIDE DEF W
    <3> QED BY <3>1, WordPolynomial
  <2> QED BY <2>2, <2>3
<1>4. p \in SUBSET (0..((g - 1) + F.w))
  <2>1. F.w \in Int /\ g - 1 \in Int /\ W \in SUBSET (0..F.w)
    BY <1>1, <1>2
  <2> HIDE DEF W
  <2> QED BY <2>1, ProductBound
<1> HIDE DEF W, p
<1>5. Shr(p, F.w) \in SUBSET (0..(g - 1))
  BY <1>1, <1>4 DEF Shr
<1>6. ASSUME i # {} PROVE Shr(p, F.w) # {}
  <2>1. PICK m \in i : \A x \in i : x <= m
    <3>1. g - 1 \in Nat
      BY <1>1
    <3> QED BY <1>6, <3>1, HighestBit
  <2>2. m \in Nat /\ m + F.w \in Nat
    BY <1>1
  <2>3. \A x \in i : (m + F.w) - x \in W <=> x = m
    <3>1. \A x \in i : x \in Int /\ x <= m
      BY <1>1, <2>1
    <3>2. \A y \in W : y <= F.w
      BY <1>1, <1>2
    <3> QED BY <1>1, <1>2, <2>2, <3>1, <3>2
  <2>4. {x \in i : (m + F.w) - x \in W} = {m}
    BY <2>1, <2>3
  <2>5. m + F.w \in p
    BY <1>3, <2>2, <2>4, InProduct, OddFew DEF p
  <2>6. (m + F.w) - F.w \in Shr(p, F.w)
    BY <1>1, <2>2, <2>5 DEF Shr
  <2> QED BY <2>6
<1>7. i \in Words(F)
  BY <1>1 DEF Words
<1> QED BY <1>3, <1>5, <1>6, <1>7 DEF W, p

\* What the bits l above a word come back as: the low part of the one multiple
\* of the polynomial that has them there.
LEMMA ReduceEntries ==
    ASSUME NEW F, IsGF(F), NEW g \in 1..F.w, NEW l \in SUBSET (0..(g - 1))
    PROVE  /\ \E i \in SUBSET (0..(g - 1)) : Shr(Product(i, Whole(F)), F.w) = l
           /\ \A i \in SUBSET (0..(g - 1)) :
                Shr(Product(i, Whole(F)), F.w) = l => Cut(Product(i, Whole(F)), F.w) = Reduced(F, Shl(l, F.w))
<1> DEFINE S == SUBSET (0..(g - 1))
           W == Whole(F)
           f == [i \in S |-> Shr(Product(i, W), F.w)]
<1>1. F.w \in Nat /\ g \in Nat /\ g <= F.w /\ g >= 1
  BY DEF IsGF
<1>2. \A i \in S : /\ f[i] \in S /\ (i # {} => f[i] # {})
                   /\ i \in Words(F) /\ i \in Polynomial /\ W \in Polynomial
  BY MultipleHigh
<1>3. IsFiniteSet(S)
  <2> DEFINE T == 0..(g - 1)
  <2>1. IsFiniteSet(T)
    BY <1>1, FS_Interval
  <2> HIDE DEF T
  <2>2. IsFiniteSet(SUBSET T)
    BY <2>1, FS_SUBSET
  <2> QED BY <2>2 DEF T
<1>4. ASSUME NEW i \in S, NEW j \in S, f[i] = f[j] PROVE i = j
  <2>1. Xor(i, j) \in S
    BY XorWithin
  <2>2. Product(Xor(i, j), W) = Xor(Product(i, W), Product(j, W))
    BY <1>2, ProductOfSum
  <2>3. Product(i, W) \in SUBSET Nat /\ Product(j, W) \in SUBSET Nat
    BY <1>2, InProduct
  <2>4. f[Xor(i, j)] = Xor(f[i], f[j])
    <3>1. \A p, q \in SUBSET Nat : \A n \in Nat : Shr(Xor(p, q), n) = Xor(Shr(p, n), Shr(q, n))
      BY ONLY HighOfSums
    <3>2. Shr(Xor(Product(i, W), Product(j, W)), F.w) = Xor(Shr(Product(i, W), F.w), Shr(Product(j, W), F.w))
      BY <1>1, <2>3, <3>1
    <3> QED BY <2>1, <2>2, <3>2
  <2>5. Xor(f[i], f[j]) = {}
    BY <1>4 DEF Xor
  <2>6. Xor(i, j) = {}
    BY <1>2, <2>1, <2>4, <2>5
  <2> QED BY <2>6 DEF Xor
<1>5. f \in [S -> S]
  BY <1>2
<1>6. \E i \in S : f[i] = l
  <2> HIDE DEF f, S
  <2>1. (\A x, y \in S : f[x] = f[y] => x = y) <=> (\A t \in S : \E x \in S : f[x] = t)
    BY <1>3, <1>5, SameSize
  <2>2. l \in S
    BY DEF S
  <2> QED BY <1>4, <2>1, <2>2
<1>7. ASSUME NEW i \in S, f[i] = l PROVE Cut(Product(i, W), F.w) = Reduced(F, Shl(l, F.w))
  <2> DEFINE p == Product(i, W)
             c == Cut(p, F.w)
             h == Shl(l, F.w)
  <2>1. p \in SUBSET (0..(2 * F.w)) /\ Reduced(F, p) = Zero
    BY <1>2, MultipleIsZero
  <2>2. p = Xor(c, h) /\ c \in SUBSET (0..(F.w - 1))
    <3>1. p \in SUBSET Nat
      BY <1>1, <2>1
    <3>2. Shr(p, F.w) = l
      BY <1>7
    <3> HIDE DEF p
    <3> QED BY <1>1, <3>1, <3>2, HighAndLow
  <2> HIDE DEF p, c
  <2>3. c \in Words(F) /\ c \in SUBSET (0..(2 * F.w))
    BY <1>1, <2>2 DEF Words
  <2>4. h \in SUBSET (0..(2 * F.w))
    <3>1. g - 1 \in Int /\ F.w \in Nat /\ 2 * F.w \in Int /\ (g - 1) + F.w <= 2 * F.w
      BY <1>1
    <3> QED BY <3>1, ShlWithin
  <2> HIDE DEF h
  <2>5. Xor(Reduced(F, c), Reduced(F, h)) = Zero
    BY <2>1, <2>2, <2>3, <2>4, ReducedSum
  <2>6. Reduced(F, c) = c
    BY <2>3, WordsAre
  <2>7. c = Reduced(F, h)
    BY <2>5, <2>6 DEF Xor, Zero
  <2> QED BY <2>7 DEF c, p, h
<1>8. \A i \in S : f[i] = Shr(Product(i, Whole(F)), F.w)
  OBVIOUS
<1> HIDE DEF f
<1> QED BY <1>6, <1>7, <1>8

\* The tables of GROUP: the multiples of a word and what comes back.
LEMMA GroupTables ==
    ASSUME NEW F, IsGF(F), NEW g \in 1..F.w, NEW l \in SUBSET (0..(g - 1)), NEW v \in Words(F)
    PROVE  /\ GfWgenGroupInit(F, g)[l] = Reduced(F, Shl(l, F.w))
           /\ GfWgenGroupSetShiftTables(F, v, g)[l] = Times(F, l, v)
           /\ F.w = 16 /\ g = 4 => /\ GfW16GroupReduce(F, l) = Reduced(F, Shl(l, F.w))
                                   /\ GfW16Group4SetShiftTables(F, v, l) = Times(F, l, v)
<1> DEFINE tops == SUBSET (0..(g - 1))
           W == Whole(F)
<1>0. F.w \in Nat /\ g \in Nat \ {0} /\ g <= F.w
  BY DEF IsGF
<1>1. /\ \E i \in tops : Shr(Product(i, W), F.w) = l
      /\ \A i \in tops : Shr(Product(i, W), F.w) = l => Cut(Product(i, W), F.w) = Reduced(F, Shl(l, F.w))
  BY ReduceEntries
<1>2. GfWgenGroupInit(F, g)[l] = Reduced(F, Shl(l, F.w))
  <2> DEFINE multiple == [i \in tops |-> Product(i, W)]
             found == CHOOSE i \in tops : Shr(multiple[i], F.w) = l
  <2>1. GfWgenGroupInit(F, g)[l] = Cut(multiple[found], F.w)
    BY DEF GfWgenGroupInit
  <2>2. \A i \in tops : multiple[i] = Product(i, W)
    OBVIOUS
  <2> HIDE DEF multiple, tops, W
  <2>3. found \in tops /\ Shr(multiple[found], F.w) = l
    <3>1. \E i \in tops : Shr(multiple[i], F.w) = l
      BY <1>1, <2>2
    <3> QED BY <3>1
  <2> HIDE DEF found
  <2> QED BY <1>1, <2>1, <2>2, <2>3
<1>3. l \in Words(F) /\ \A n \in l : n \in 0..(g - 1) /\ n \in 0..(F.w - 1) /\ XP(F, n) = {n}
  <2>1. \A n \in l : n \in 0..(g - 1) /\ n \in 0..(F.w - 1)
    BY <1>0
  <2> QED BY <2>1, PowerIsBit DEF Words
<1>4. \A n \in l : Doublings(F, v, g)[n] = Times(F, {n}, v)
  <2> SUFFICES ASSUME NEW n \in l PROVE Doublings(F, v, g)[n] = Times(F, {n}, v)
    OBVIOUS
  <2>1. Doublings(F, v, g)[n] = Times(F, XP(F, n), v)
    BY <1>0, <1>3, DoublingsAre
  <2> QED BY <1>3, <2>1
<1>5. GfWgenGroupSetShiftTables(F, v, g)[l] = Times(F, l, v)
  <2>1. GfWgenGroupSetShiftTables(F, v, g)[l] = SumOver(l, Doublings(F, v, g))
    BY DEF GfWgenGroupSetShiftTables
  <2> DEFINE row == Doublings(F, v, g)
  <2> HIDE DEF row
  <2>2. SumOver(l, row) = Times(F, l, v)
    BY <1>3, <1>4, SumIsTimes DEF row
  <2> QED BY <2>1, <2>2 DEF row
<1>6. ASSUME F.w = 16, g = 4
      PROVE  /\ GfW16GroupReduce(F, l) = Reduced(F, Shl(l, F.w))
             /\ GfW16Group4SetShiftTables(F, v, l) = Times(F, l, v)
  <2>1. GfW16GroupReduce(F, l) = Reduced(F, Shl(l, F.w))
    <3> DEFINE multiples == {Product(i, W) : i \in SUBSET (0..3)}
               found == CHOOSE p \in multiples : Shr(p, 16) = l
    <3>1. GfW16GroupReduce(F, l) = Cut(found, 16)
      BY DEF GfW16GroupReduce
    <3>2. tops = SUBSET (0..3)
      BY <1>6
    <3>3. \A p : p \in multiples <=> \E i \in tops : p = Product(i, W)
      BY <3>2
    <3> HIDE DEF multiples, tops, W
    <3>4. found \in multiples /\ Shr(found, 16) = l
      <4>1. PICK i \in tops : Shr(Product(i, W), 16) = l
        BY <1>1, <1>6
      <4>2. Product(i, W) \in multiples
        BY <3>3
      <4> QED BY <4>1, <4>2
    <3> HIDE DEF found
    <3> QED BY <1>1, <1>6, <3>1, <3>3, <3>4
  <2>2. GfW16Group4SetShiftTables(F, v, l) = Times(F, l, v)
    <3> DEFINE row == [n \in l |-> Doublings(F, v, 4)[n]]
    <3>1. GfW16Group4SetShiftTables(F, v, l) = SumOver(l, row)
      BY DEF GfW16Group4SetShiftTables
    <3>2. \A n \in l : row[n] = Times(F, {n}, v)
      BY <1>4, <1>6
    <3> HIDE DEF row
    <3>3. SumOver(l, row) = Times(F, l, v)
      BY <1>3, <3>2, SumIsTimes
    <3> QED BY <3>1, <3>3
  <2> QED BY <2>1, <2>2
<1> QED BY <1>2, <1>5, <1>6

\* Reading a word from its highest group, of g bits or less, in groups of g.
LEMMA Grouping ==
    ASSUME NEW w \in Nat \ {0}, NEW g \in 1..w
    PROVE  /\ FirstGroup(w, g) \in 1..g
           /\ (w - FirstGroup(w, g)) \div g \in Nat
           /\ w - FirstGroup(w, g) = ((w - FirstGroup(w, g)) \div g) * g
           /\ w - FirstGroup(w, g) \in 0..(w - 1)
<1> DEFINE f == FirstGroup(w, g)
           q == w \div g
<1>1. w = g * q + (w % g) /\ q \in Nat /\ w % g \in 0..(g - 1)
  OBVIOUS
<1>2. f = IF w % g = 0 THEN g ELSE w % g
  BY DEF FirstGroup
<1>3. f \in 1..g /\ w - f \in 0..(w - 1)
  <2> HIDE DEF q
  <2>1. w % g <= w
    OBVIOUS
  <2> QED BY <1>1, <1>2, <2>1
<1>4. \E n \in Nat : w - f = g * n
  <2>1. CASE w % g = 0
    <3>1. q >= 1
      <4> HIDE DEF q
      <4>1. q # 0
        BY <1>1, <2>1
      <4> QED BY <1>1, <4>1
    <3>2. w - f = g * (q - 1) /\ q - 1 \in Nat
      <4> HIDE DEF q
      <4>1. q - 1 \in Nat
        BY <1>1, <3>1
      <4>2. g * q = g * (q - 1) + g
        BY <1>1
      <4> QED BY <1>1, <1>2, <2>1, <4>1, <4>2
    <3> HIDE DEF f, q
    <3> QED BY <3>2
  <2>2. CASE w % g # 0
    <3>1. w - f = g * q
      BY <1>1, <1>2, <2>2
    <3> HIDE DEF f, q
    <3> QED BY <1>1, <3>1
  <2> QED BY <2>1, <2>2
<1> HIDE DEF f
<1>5. PICK n \in Nat : w - f = g * n
  BY <1>4
<1>6. (g * n) \div g = n
  <2>1. g * n = g * n + 0 /\ 0 \in 0..(g - 1) /\ g * n \in Nat
    OBVIOUS
  <2> QED BY <2>1
<1>7. (w - f) \div g = n /\ w - f = n * g
  BY <1>5, <1>6
<1> QED BY <1>3, <1>7 DEF f

\* Where the reading and the reduction are after k turns.
LEMMA GroupPlaces ==
    ASSUME NEW n \in Nat, NEW g \in Nat, NEW k \in 0..(n - 1)
    PROVE  /\ n * g - (k + 1) * g \in Nat /\ n * g - k * g = (n * g - (k + 1) * g) + g
           /\ (n - 1 - k) * g \in Nat /\ (n - k) * g = (n - 1 - k) * g + g
           /\ k * g + g = (k + 1) * g /\ k * g \in Nat /\ (k + 1) * g \in Nat /\ (k + 1) * g <= n * g
<1>1. n - 1 - k \in Nat /\ k \in Nat
  OBVIOUS
<1>2. PICK m \in Nat : m = n - 1 - k
  BY <1>1
<1>3. n = m + (k + 1)
  BY <1>2
<1>4. n * g = m * g + (k + 1) * g
  BY <1>1, <1>3
<1>5. (k + 1) * g = k * g + g
  BY <1>1
<1>6. m * g \in Nat /\ k * g \in Nat
  BY <1>1
<1>7. (n - k) * g = m * g + g
  <2>1. n - k = m + 1
    BY <1>2
  <2> QED BY <2>1
<1>8. (n - 1 - k) * g = m * g
  BY <1>2
<1> QED BY <1>4, <1>5, <1>6, <1>7, <1>8

\* A bit of the shifted word is the one n places up.
LEMMA BitOfShr ==
    ASSUME NEW a \in SUBSET Nat, NEW n \in Nat, NEW y
    PROVE  y \in Shr(a, n) <=> y \in Nat /\ y + n \in a
<1>1. y \in Shr(a, n) <=> \E j \in a : j >= n /\ y = j - n
  BY DEF Shr
<1>2. ASSUME NEW j \in a, j >= n, y = j - n PROVE y \in Nat /\ y + n \in a
  <2>1. j \in Nat
    OBVIOUS
  <2>2. y \in Nat /\ y + n = j
    BY <1>2, <2>1
  <2> QED BY <2>2
<1>3. ASSUME y \in Nat, y + n \in a PROVE \E j \in a : j >= n /\ y = j - n
  <2>1. y + n >= n /\ y = (y + n) - n
    BY <1>3
  <2> QED BY <1>3, <2>1
<1> QED BY <1>1, <1>2, <1>3

\* The bits from n up: those from n + g up, and g bits.
LEMMA GroupOfBits ==
    ASSUME NEW a \in SUBSET Nat, NEW n \in Nat, NEW g \in Nat
    PROVE  /\ Shr(a, n) = Xor(Shl(Shr(a, n + g), g), Cut(Shr(a, n), g))
           /\ Cut(Shr(a, n), g) \in SUBSET (0..(g - 1)) /\ Shr(a, n) \in SUBSET Nat
           /\ Shr(Shr(a, n), g) = Shr(a, n + g)
<1>1. Shr(a, n) \in SUBSET Nat
  BY DEF Shr
<1>2. Shr(Shr(a, n), g) = Shr(a, n + g)
  <2>1. ASSUME NEW x PROVE x \in Shr(Shr(a, n), g) <=> x \in Shr(a, n + g)
    <3>1. x \in Shr(a, n + g) <=> x \in Nat /\ x + (n + g) \in a
      <4>1. n + g \in Nat
        OBVIOUS
      <4> QED BY <4>1, BitOfShr
    <3>2. \A y : y \in Shr(a, n) <=> y \in Nat /\ y + n \in a
      BY BitOfShr
    <3> DEFINE s == Shr(a, n)
    <3> HIDE DEF s
    <3>3. x \in Shr(s, g) <=> x \in Nat /\ x + g \in s
      <4>1. s \in SUBSET Nat
        BY <1>1 DEF s
      <4> QED BY <4>1, BitOfShr
    <3>4. x \in Nat => ((x + g) + n = x + (n + g) /\ x + g \in Nat)
      OBVIOUS
    <3>5. x \in Nat => (x + g \in s <=> x + (n + g) \in a)
      BY <3>2, <3>4 DEF s
    <3> QED BY <3>1, <3>3, <3>5 DEF s
  <2> QED BY <2>1
<1> DEFINE s == Shr(a, n)
<1> HIDE DEF s
<1>3. s \in SUBSET Nat
  BY <1>1 DEF s
<1>4. Cut(s, g) \in SUBSET (0..(g - 1)) /\ s = Xor(Cut(s, g), Shl(Shr(s, g), g))
  BY <1>3, HighAndLow
<1>5. s = Xor(Shl(Shr(s, g), g), Cut(s, g))
  BY <1>4, XorAlgebra
<1> QED BY <1>2, <1>3, <1>4, <1>5 DEF s

\* A polynomial may be reduced before it is moved up.
LEMMA ReducedShl ==
    ASSUME NEW F, IsGF(F), NEW m \in Nat, NEW p \in SUBSET (0..m), NEW g \in 0..F.w, m + g <= 2 * F.w
    PROVE  /\ Reduced(F, Shl(p, g)) = Reduced(F, Shl(Reduced(F, p), g))
           /\ Shl(p, g) \in SUBSET (0..(m + g)) /\ Shl(p, g) \in SUBSET (0..(2 * F.w))
<1> DEFINE r == Reduced(F, p)
           G == {k \in Nat : k <= g => Reduced(F, Shl(p, k)) = Reduced(F, Shl(r, k))}
<1>1. F.w \in Nat /\ F.w >= 1 /\ g \in Nat /\ g <= F.w
  BY DEF IsGF
<1>2. p \in SUBSET (0..(2 * F.w)) /\ p \in SUBSET Nat
  BY <1>1
<1>3. r \in Words(F)
  BY <1>2, ReducedSum
<1> HIDE DEF r
<1>4. r \in SUBSET (0..(F.w - 1)) /\ r \in SUBSET Nat /\ Reduced(F, r) = r
  BY <1>3, WordsAre
<1>5. \A x \in SUBSET Nat : Shl(x, 0) = x
  <2> SUFFICES ASSUME NEW x \in SUBSET Nat PROVE Shl(x, 0) = x
    OBVIOUS
  <2>1. \A y \in x : y + 0 = y
    OBVIOUS
  <2> QED BY <2>1 DEF Shl
<1>6. 0 \in G
  BY <1>2, <1>4, <1>5 DEF r
<1>7. ASSUME NEW k \in Nat, k \in G PROVE k + 1 \in G
  <2> SUFFICES ASSUME k + 1 <= g PROVE Reduced(F, Shl(p, k + 1)) = Reduced(F, Shl(r, k + 1))
    OBVIOUS
  <2>1. Reduced(F, Shl(p, k)) = Reduced(F, Shl(r, k))
    BY <1>1, <1>7
  <2>2. Shl(p, k) \in SUBSET (0..(2 * F.w - 1)) /\ Shl(r, k) \in SUBSET (0..(2 * F.w - 1))
    BY <1>1, <1>4 DEF Shl
  <2>3. Shl(p, k + 1) = Shl(Shl(p, k), 1) /\ Shl(r, k + 1) = Shl(Shl(r, k), 1)
    BY <1>2, <1>4, ShlShl
  <2>4. Reduced(F, Shl(Shl(p, k), 1)) = Double(F, Reduced(F, Shl(p, k)))
    BY <2>2, ReducedDouble
  <2>5. Reduced(F, Shl(Shl(r, k), 1)) = Double(F, Reduced(F, Shl(r, k)))
    BY <2>2, ReducedDouble
  <2> QED BY <2>1, <2>3, <2>4, <2>5
<1>8. \A k \in Nat : k >= 0 => k \in G
  <2> HIDE DEF G
  <2> QED BY <1>6, <1>7, Upwards
<1>9. Reduced(F, Shl(p, g)) = Reduced(F, Shl(r, g))
  BY <1>1, <1>8
<1>10. Shl(p, g) \in SUBSET (0..(m + g)) /\ Shl(p, g) \in SUBSET (0..(2 * F.w))
  <2>1. m \in Int /\ m + g \in Int /\ m + g <= m + g /\ 2 * F.w \in Int
    BY <1>1
  <2> QED BY <1>1, <2>1, ShlWithin
<1> QED BY <1>9, <1>10 DEF r

\* What a group of bits adds to the product of the bits above it.
LEMMA GroupStep ==
    ASSUME NEW F, IsGF(F), NEW a \in Words(F), NEW b \in Words(F), NEW n \in Nat, NEW g \in 1..F.w
    PROVE  /\ Cut(Shr(a, n), g) \in SUBSET (0..(g - 1)) /\ Cut(Shr(a, n), g) \in Words(F)
           /\ Shr(a, n) \in Words(F) /\ Shr(a, n + g) \in Words(F)
           /\ Times(F, Shr(a, n), b)
                = Xor(Reduced(F, Shl(Times(F, Shr(a, n + g), b), g)), Times(F, Cut(Shr(a, n), g), b))
<1> DEFINE q == Shr(a, n + g)
           d == Cut(Shr(a, n), g)
           s == Shr(a, n)
<1>1. F.w \in Nat /\ F.w >= 1 /\ a \in SUBSET (0..(F.w - 1)) /\ a \in SUBSET Nat /\ g \in Nat /\ g <= F.w /\ g >= 1
  BY WordsAre
<1>2. s = Xor(Shl(q, g), d) /\ d \in SUBSET (0..(g - 1))
  <2>1. Shr(a, n) = Xor(Shl(Shr(a, n + g), g), Cut(Shr(a, n), g)) /\ Cut(Shr(a, n), g) \in SUBSET (0..(g - 1))
    <3> HIDE DEF q, d, s
    <3> QED BY <1>1, GroupOfBits
  <2> QED BY <2>1
<1>3. s \in Words(F) /\ q \in Words(F)
  <2>1. \A x \in s : x \in Nat /\ x <= F.w - 1
    BY <1>1 DEF Shr
  <2>2. \A x \in q : x \in Nat /\ x <= F.w - 1
    BY <1>1 DEF Shr
  <2> HIDE DEF s, q
  <2> QED BY <1>1, <2>1, <2>2 DEF Words
<1>4. d \in Words(F)
  BY <1>1, <1>2 DEF Words
<1>5. \A x \in q : x \in Nat /\ x + g <= F.w - 1
  BY <1>1 DEF Shr
<1> HIDE DEF q, d, s
<1>6. Shl(q, g) \in Words(F) /\ q \in SUBSET Nat
  BY <1>1, <1>5 DEF Shl, Words
<1>7. Times(F, s, b) = Xor(Times(F, Shl(q, g), b), Times(F, d, b))
  BY <1>2, <1>4, <1>6, TimesOfSum
<1>8. Times(F, Shl(q, g), b) = Reduced(F, Shl(Product(q, b), g))
  <2>1. q \in Polynomial /\ b \in Polynomial
    BY <1>3, WordsAre
  <2>2. Product(Shl(q, g), b) = Shl(Product(q, b), g)
    BY <1>1, <2>1, ProductOfShifted
  <2> QED BY <2>2 DEF Times
<1>9. Reduced(F, Shl(Product(q, b), g)) = Reduced(F, Shl(Times(F, q, b), g))
  <2>1. b \in SUBSET (0..(F.w - 1)) /\ F.w - 1 \in Int
    BY <1>1, WordsAre
  <2>2. CASE q = {}
    <3>1. Product(q, b) \in SUBSET (0..0)
      <4>1. b \in Polynomial
        BY WordsAre
      <4>2. Product(q, b) = {}
        BY <2>2, <4>1, ProductOfZero
      <4> QED BY <4>2
    <3>2. 0 + g <= 2 * F.w /\ g \in 0..F.w
      BY <1>1
    <3> QED BY <3>1, <3>2, ReducedShl, ZenonT(30) DEF Times
  <2>3. CASE q # {}
    <3>1. PICK x \in q : TRUE
      BY <2>3
    <3>2. F.w - 1 - g \in Nat
      BY <1>1, <1>5, <3>1
    <3>3. q \in SUBSET (0..(F.w - 1 - g))
      BY <1>1, <1>5
    <3>4. Product(q, b) \in SUBSET (0..((F.w - 1 - g) + (F.w - 1)))
      <4>1. F.w - 1 - g \in Int
        BY <3>2
      <4> QED BY ONLY <2>1, <3>3, <4>1, ProductBound
    <3> DEFINE m == (F.w - 1 - g) + (F.w - 1)
    <3>5. m \in Nat /\ m + g <= 2 * F.w /\ g \in 0..F.w
      BY <1>1, <3>2
    <3> HIDE DEF m
    <3>6. Product(q, b) \in SUBSET (0..m)
      BY <3>4 DEF m
    <3> QED BY <3>5, <3>6, ReducedShl DEF Times
  <2> QED BY <2>2, <2>3
<1>10. Times(F, s, b) = Xor(Reduced(F, Shl(Times(F, q, b), g)), Times(F, d, b))
  BY <1>7, <1>8, <1>9
<1> QED BY <1>2, <1>3, <1>4, <1>10 DEF q, d, s

\* A word moved up by a group: what leaves it comes back from the table.
LEMMA ReducedStep ==
    ASSUME NEW F, IsGF(F), NEW p \in Words(F), NEW g \in 1..F.w
    PROVE  /\ Shr(p, F.w - g) \in SUBSET (0..(g - 1))
           /\ Cut(Shl(p, g), F.w) = Shl(Cut(p, F.w - g), g)
           /\ Cut(Shl(p, g), F.w) \in Words(F)
           /\ Reduced(F, Shl(Shr(p, F.w - g), F.w)) \in Words(F)
           /\ Reduced(F, Shl(p, g)) = Xor(Reduced(F, Shl(Shr(p, F.w - g), F.w)), Cut(Shl(p, g), F.w))
<1> DEFINE h == Shr(p, F.w - g)
           s == Shl(p, g)
           c == Cut(s, F.w)
           t == Shl(h, F.w)
<1>1. F.w \in Nat /\ F.w >= 1 /\ p \in SUBSET (0..(F.w - 1)) /\ p \in SUBSET Nat /\ g \in Nat /\ g <= F.w /\ g >= 1
      /\ F.w - g \in Nat
  BY WordsAre
<1>2. h \in SUBSET (0..(g - 1))
  BY <1>1 DEF Shr
<1>3. c = Shl(Cut(p, F.w - g), g)
  BY <1>1 DEF Shl, Cut
<1>4. s \in SUBSET Nat /\ s \in SUBSET (0..(2 * F.w))
  BY <1>1 DEF Shl
<1>5. Shr(s, F.w) = h
  <2>1. ASSUME NEW x PROVE x \in Shr(s, F.w) <=> x \in Nat /\ x + F.w \in s
    <3> HIDE DEF s
    <3> QED BY <1>1, <1>4 DEF Shr
  <2>2. ASSUME NEW x PROVE x \in h <=> x \in Nat /\ x + (F.w - g) \in p
    BY <1>1 DEF Shr
  <2>3. ASSUME NEW x \in Nat PROVE x + F.w \in s <=> x + (F.w - g) \in p
    <3>1. ASSUME x + F.w \in s PROVE x + (F.w - g) \in p
      <4>1. PICK y \in p : x + F.w = y + g
        BY <3>1 DEF Shl
      <4>2. y = x + (F.w - g)
        BY <1>1, <4>1
      <4> QED BY <4>2
    <3>2. ASSUME x + (F.w - g) \in p PROVE x + F.w \in s
      <4>1. x + F.w = (x + (F.w - g)) + g
        BY <1>1
      <4> QED BY <3>2, <4>1 DEF Shl
    <3> QED BY <3>1, <3>2
  <2> HIDE DEF s, h
  <2> QED BY <2>1, <2>2, <2>3
<1>6. s = Xor(c, t) /\ c \in SUBSET (0..(F.w - 1))
  <2> HIDE DEF s, h
  <2>1. Cut(s, F.w) \in SUBSET (0..(F.w - 1)) /\ s = Xor(Cut(s, F.w), Shl(Shr(s, F.w), F.w))
    BY <1>1, <1>4, HighAndLow
  <2> QED BY <1>5, <2>1
<1>7. t \in SUBSET (0..(2 * F.w))
  <2> HIDE DEF h
  <2> QED BY <1>1, <1>2 DEF Shl
<1> HIDE DEF h, s, c, t
<1>8. c \in Words(F) /\ c \in SUBSET (0..(2 * F.w))
  BY <1>1, <1>6 DEF Words
<1>9. Reduced(F, c) = c
  BY <1>8, WordsAre
<1>10. Reduced(F, t) \in Words(F) /\ Reduced(F, Xor(c, t)) = Xor(Reduced(F, c), Reduced(F, t))
  BY <1>7, <1>8, ReducedSum
<1>11. Reduced(F, s) = Xor(Reduced(F, t), c)
  BY <1>6, <1>9, <1>10, XorAlgebra
<1> QED BY <1>2, <1>3, <1>8, <1>10, <1>11 DEF h, s, c, t

\* A sum of three words, as the loops of GROUP make it.
LEMMA GroupTurn ==
    ASSUME NEW F, IsGF(F), NEW a \in Words(F), NEW b \in Words(F), NEW n \in Nat, NEW g \in 1..F.w,
           NEW t, t = Times(F, Cut(Shr(a, n), g), b),
           NEW p, p = Times(F, Shr(a, n + g), b),
           NEW r, r = Reduced(F, Shl(Shr(p, F.w - g), F.w))
    PROVE  /\ Cut(Xor(Xor(t, r), Shl(p, g)), F.w) = Times(F, Shr(a, n), b)
           /\ Xor(Xor(t, r), Shl(Cut(p, F.w - g), g)) = Times(F, Shr(a, n), b)
           /\ Shr(p, F.w - g) \in SUBSET (0..(g - 1))
<1> DEFINE c == Cut(Shl(p, g), F.w)
<1>1. /\ Cut(Shr(a, n), g) \in Words(F) /\ Shr(a, n + g) \in Words(F)
      /\ Times(F, Shr(a, n), b) = Xor(Reduced(F, Shl(p, g)), t)
  <2>1. /\ Cut(Shr(a, n), g) \in Words(F) /\ Shr(a, n + g) \in Words(F)
        /\ Times(F, Shr(a, n), b)
             = Xor(Reduced(F, Shl(Times(F, Shr(a, n + g), b), g)), Times(F, Cut(Shr(a, n), g), b))
    BY GroupStep
  <2> QED BY <2>1
<1>2. t \in Words(F) /\ p \in Words(F)
  BY <1>1, TimesIs
<1>3. /\ Shr(p, F.w - g) \in SUBSET (0..(g - 1)) /\ c = Shl(Cut(p, F.w - g), g)
      /\ c \in Words(F) /\ r \in Words(F) /\ Reduced(F, Shl(p, g)) = Xor(r, c)
  BY <1>2, ReducedStep
<1>4. Times(F, Shr(a, n), b) = Xor(Xor(t, r), c)
  <2> HIDE DEF c
  <2>1. Times(F, Shr(a, n), b) = Xor(Xor(r, c), t)
    BY <1>1, <1>3
  <2>2. Xor(Xor(r, c), t) = Xor(t, Xor(r, c)) /\ Xor(Xor(t, r), c) = Xor(t, Xor(r, c))
    BY XorAlgebra
  <2> QED BY <2>1, <2>2
<1>5. Cut(Xor(Xor(t, r), Shl(p, g)), F.w) = Xor(Xor(t, r), c)
  <2>1. Xor(t, r) \in Words(F)
    BY <1>2, <1>3, WordSums
  <2>2. F.w \in Nat /\ Xor(t, r) \in SUBSET Nat /\ p \in SUBSET Nat /\ g \in Nat
    BY <1>2, <2>1, WordsAre
  <2>3. Shl(p, g) \in SUBSET Nat
    BY <2>2 DEF Shl
  <2> DEFINE x == Xor(t, r)
             y == Shl(p, g)
  <2> HIDE DEF x, y
  <2>4. Cut(Xor(x, y), F.w) = Xor(Cut(x, F.w), Cut(y, F.w))
    <3>1. x \in SUBSET Nat /\ y \in SUBSET Nat /\ F.w \in Nat
      BY <2>2, <2>3 DEF x, y
    <3> QED BY ONLY <3>1, HighAndLowOfSum
  <2>5. Cut(x, F.w) = x
    BY <2>1, WordParts DEF x
  <2> QED BY <2>4, <2>5 DEF x, y
<1> QED BY <1>3, <1>4, <1>5

\* GROUP with groups of one size.
THEOREM GroupsOfOneSize ==
    ASSUME NEW F, IsGF(F), NEW g \in 1..F.w, NEW a \in Words(F), NEW b \in Words(F)
    PROVE  GfWgenGroupSEqualsRMultiply(F, g, a, b) = Times(F, a, b)
<1> DEFINE shift == GfWgenGroupSetShiftTables(F, b, g)
           reduce == GfWgenGroupInit(F, g)
           rs == F.w - FirstGroup(F.w, g)
           n == rs \div g
           Turn(p, k) ==
             LET ind == Cut(Shr(a, rs - (k + 1) * g), g)
             IN  Cut(Xor(Xor(shift[ind], reduce[Shr(p, F.w - g)]), Shl(p, g)), F.w)
           first == shift[Shr(a, rs)]
           Value(f, i) == IF i = 0 THEN first ELSE Turn(f[i - 1], i - 1)
           after == CHOOSE f : f = [i \in 0..n |-> Value(f, i)]
           v == [i \in 0..n |-> Times(F, Shr(a, rs - i * g), b)]
<1>0. F.w \in Nat \ {0} /\ a \in SUBSET Nat /\ a \in SUBSET (0..(F.w - 1)) /\ g \in Nat
  BY WordsAre
<1>1. GfWgenGroupSEqualsRMultiply(F, g, a, b) = after[n]
  BY DEF GfWgenGroupSEqualsRMultiply, Repeat
<1>2. n \in Nat /\ rs = n * g /\ rs \in 0..(F.w - 1) /\ FirstGroup(F.w, g) \in 1..g
  BY <1>0, Grouping
<1>3. ASSUME NEW l \in SUBSET (0..(g - 1)) PROVE reduce[l] = Reduced(F, Shl(l, F.w)) /\ shift[l] = Times(F, l, b)
  BY GroupTables
<1>4. v[0] = first
  <2>1. Shr(a, rs) \in SUBSET (0..(g - 1))
    BY <1>0, <1>2 DEF Shr
  <2>2. first = Times(F, Shr(a, rs), b)
    <3> HIDE DEF shift, rs, reduce
    <3> QED BY <1>3, <2>1
  <2>3. rs - 0 * g = rs /\ 0 \in 0..n
    <3> HIDE DEF rs, n
    <3> QED BY <1>0, <1>2
  <2> HIDE DEF rs, n, shift
  <2>4. v[0] = Times(F, Shr(a, rs - 0 * g), b)
    BY <2>3
  <2> QED BY <2>2, <2>3, <2>4
<1> HIDE DEF shift, reduce, rs, n
<1>5. v[n] = Times(F, a, b)
  <2>1. rs - n * g = 0 /\ n \in 0..n
    BY <1>0, <1>2
  <2>2. Shr(a, 0) = a
    BY <1>0, NextBit
  <2> QED BY <2>1, <2>2
<1>6. ASSUME NEW i \in 0..(n - 1) PROVE v[i + 1] = Turn(v[i], i)
  <2> DEFINE m == rs - (i + 1) * g
             p == Times(F, Shr(a, m + g), b)
             ind == Cut(Shr(a, m), g)
             h == Shr(p, F.w - g)
  <2>1. m \in Nat /\ rs - i * g = m + g /\ i \in 0..n /\ i + 1 \in 0..n
    <3>1. n * g - (i + 1) * g \in Nat /\ n * g - i * g = (n * g - (i + 1) * g) + g
      BY <1>0, <1>2, GroupPlaces
    <3> QED BY <1>2, <3>1
  <2>2. v[i] = p /\ v[i + 1] = Times(F, Shr(a, m), b)
    BY <2>1
  <2> HIDE DEF v, m
  <2>3. ind \in SUBSET (0..(g - 1))
    BY <2>1, GroupStep
  <2> HIDE DEF ind
  <2>4. shift[ind] = Times(F, ind, b)
    BY <1>3, <2>3
  <2> HIDE DEF p
  <2>5. h \in SUBSET (0..(g - 1)) /\ Cut(Xor(Xor(Times(F, ind, b), Reduced(F, Shl(h, F.w))), Shl(p, g)), F.w) = Times(F, Shr(a, m), b)
    <3> DEFINE t == Times(F, ind, b)
               r == Reduced(F, Shl(h, F.w))
    <3>1. /\ t = Times(F, Cut(Shr(a, m), g), b) /\ p = Times(F, Shr(a, m + g), b)
          /\ r = Reduced(F, Shl(Shr(p, F.w - g), F.w)) /\ m \in Nat
      BY <2>1 DEF ind, p
    <3> HIDE DEF t, r, h
    <3>2. /\ Cut(Xor(Xor(t, r), Shl(p, g)), F.w) = Times(F, Shr(a, m), b)
          /\ Shr(p, F.w - g) \in SUBSET (0..(g - 1))
      BY <3>1, GroupTurn
    <3> QED BY <3>2 DEF t, r, h
  <2>6. reduce[h] = Reduced(F, Shl(h, F.w))
    <3> HIDE DEF h
    <3> QED BY <1>3, <2>5
  <2>7. Turn(v[i], i) = Cut(Xor(Xor(shift[ind], reduce[h]), Shl(p, g)), F.w)
    BY <2>2 DEF ind, m
  <2> HIDE DEF Turn, h
  <2> QED BY <2>2, <2>4, <2>5, <2>6, <2>7
<1>7. v = [i \in 0..n |-> Value(v, i)]
  <2>1. \A i \in 0..n : i # 0 => i - 1 \in 0..(n - 1) /\ (i - 1) + 1 = i
    BY <1>2
  <2>2. \A i \in 0..n : v[i] = Value(v, i)
    <3> HIDE DEF v, Turn, first
    <3> QED BY <1>4, <1>6, <2>1
  <2> HIDE DEF Value
  <2> QED BY <2>2
<1>8. after = [i \in 0..n |-> Value(after, i)]
  <2> HIDE DEF Value, v
  <2> QED BY <1>7
<1> HIDE DEF after, v, Turn, first
<1>9. after[n] = v[n]
  <2>1. after[0] = v[0]
    BY <1>2, <1>4, <1>8
  <2>2. ASSUME NEW i \in 0..(n - 1), after[i] = v[i] PROVE after[i + 1] = v[i + 1]
    <3>1. i + 1 \in 0..n /\ i + 1 # 0 /\ (i + 1) - 1 = i
      BY <1>2
    <3>2. after[i + 1] = Turn(after[i], i)
      BY <1>8, <3>1
    <3> QED BY <1>6, <2>2, <3>2
  <2> QED BY <1>2, <2>1, <2>2, LoopsAgree
<1> QED BY <1>1, <1>5, <1>9

\* GROUP 4 4 of 16 bits.
THEOREM Group44IsTimes ==
    ASSUME NEW F, IsGF(F), NEW a \in Words(F), NEW b \in Words(F)
    PROVE  F.w = 16 => GfW16Group44Multiply(F, a, b) = Times(F, a, b)
<1>w. SUFFICES ASSUME F.w = 16 PROVE GfW16Group44Multiply(F, a, b) = Times(F, a, b)
  OBVIOUS
<1> DEFINE Turn(p, k) ==
             Xor(Xor(GfW16Group4SetShiftTables(F, b, Piece(4, a, 3 - k)), GfW16GroupReduce(F, Shr(p, 12))),
                 Shl(Cut(p, 12), 4))
           Value(f, i) == IF i = 0 THEN Zero ELSE Turn(f[i - 1], i - 1)
           after == CHOOSE f : f = [i \in 0..4 |-> Value(f, i)]
           v == [i \in 0..4 |-> Times(F, Shr(a, 16 - 4 * i), b)]
<1>0. PICK g \in 1..F.w : g = 4
  BY <1>w
<1>a. a \in SUBSET Nat /\ F.w - g = 12
  BY <1>0, <1>w, WordsAre
<1>1. GfW16Group44Multiply(F, a, b) = after[4]
  BY DEF GfW16Group44Multiply, Repeat
<1>2. ASSUME NEW l \in SUBSET (0..(g - 1))
      PROVE  GfW16GroupReduce(F, l) = Reduced(F, Shl(l, F.w)) /\ GfW16Group4SetShiftTables(F, b, l) = Times(F, l, b)
  BY <1>0, <1>w, GroupTables
<1>3. v[0] = Zero
  <2>1. Shr(a, 16) = Zero
    BY <1>w, WordParts
  <2>2. 16 - 4 * 0 = 16
    OBVIOUS
  <2> QED BY <2>1, <2>2, TimesZero
<1>4. v[4] = Times(F, a, b)
  <2>1. Shr(a, 0) = a
    BY <1>a, NextBit
  <2>2. 16 - 4 * 4 = 0
    OBVIOUS
  <2> QED BY <2>1, <2>2
<1>5. ASSUME NEW i \in 0..3 PROVE v[i + 1] = Turn(v[i], i)
  <2> DEFINE m == 16 - 4 * (i + 1)
             p == Times(F, Shr(a, m + g), b)
             ind == Cut(Shr(a, m), g)
             h == Shr(p, F.w - g)
  <2>1. m \in Nat /\ 16 - 4 * i = m + g /\ 4 * (3 - i) = m
    BY <1>0
  <2>2. v[i] = p /\ v[i + 1] = Times(F, Shr(a, m), b)
    BY <2>1
  <2> HIDE DEF v, m
  <2>3. Piece(4, a, 3 - i) = ind
    BY <1>0, <2>1 DEF Piece
  <2>4. ind \in SUBSET (0..(g - 1)) /\ m \in Nat
    <3>1. m \in Nat
      BY <2>1
    <3> QED BY <3>1, GroupStep
  <2> HIDE DEF ind
  <2>5. GfW16Group4SetShiftTables(F, b, ind) = Times(F, ind, b)
    BY <1>2, <2>4
  <2> HIDE DEF p
  <2>6. h \in SUBSET (0..(g - 1)) /\ Xor(Xor(Times(F, ind, b), Reduced(F, Shl(h, F.w))), Shl(Cut(p, F.w - g), g)) = Times(F, Shr(a, m), b)
    <3> DEFINE t == Times(F, ind, b)
               r == Reduced(F, Shl(h, F.w))
    <3>1. /\ t = Times(F, Cut(Shr(a, m), g), b) /\ p = Times(F, Shr(a, m + g), b)
          /\ r = Reduced(F, Shl(Shr(p, F.w - g), F.w)) /\ m \in Nat
      BY <2>4 DEF ind, p
    <3> HIDE DEF t, r, h
    <3>2. /\ Xor(Xor(t, r), Shl(Cut(p, F.w - g), g)) = Times(F, Shr(a, m), b)
          /\ Shr(p, F.w - g) \in SUBSET (0..(g - 1))
      BY <3>1, GroupTurn
    <3> QED BY <3>2 DEF t, r, h
  <2>7. GfW16GroupReduce(F, h) = Reduced(F, Shl(h, F.w))
    <3> HIDE DEF h
    <3> QED BY <1>2, <2>6
  <2>8. Turn(v[i], i) = Xor(Xor(GfW16Group4SetShiftTables(F, b, ind), GfW16GroupReduce(F, h)), Shl(Cut(p, F.w - g), g))
    BY <1>0, <1>a, <2>2, <2>3
  <2> HIDE DEF Turn, h
  <2> QED BY <2>2, <2>5, <2>6, <2>7, <2>8
<1>6. v = [i \in 0..4 |-> Value(v, i)]
  <2>1. \A i \in 0..4 : i # 0 => i - 1 \in 0..3 /\ (i - 1) + 1 = i
    OBVIOUS
  <2>2. \A i \in 0..4 : v[i] = Value(v, i)
    <3> HIDE DEF v, Turn
    <3> QED BY <1>3, <1>5, <2>1
  <2> HIDE DEF Value
  <2> QED BY <2>2
<1>7. after = [i \in 0..4 |-> Value(after, i)]
  <2> HIDE DEF Value, v
  <2> QED BY <1>6
<1> HIDE DEF after, v, Turn
<1>8. after[4] = v[4]
  <2>1. after[0] = v[0]
    BY <1>3, <1>7
  <2>2. ASSUME NEW i \in 0..(4 - 1), after[i] = v[i] PROVE after[i + 1] = v[i + 1]
    <3>1. i \in 0..3 /\ i + 1 \in 0..4 /\ i + 1 # 0 /\ (i + 1) - 1 = i
      OBVIOUS
    <3>2. after[i + 1] = Turn(after[i], i)
      BY <1>7, <3>1
    <3> QED BY <1>5, <2>2, <3>1, <3>2
  <2> QED BY <2>1, <2>2, LoopsAgree
<1> QED BY <1>1, <1>4, <1>8

\* The two loops of gf_wgen_group_multiply: the whole product, and its reduction.
WholeOfGroups(F, g_s, a, b) ==
    LET shift == GfWgenGroupSetShiftTables(F, b, g_s)
        rs    == F.w - FirstGroup(F.w, g_s)
        Read(p, k) == Xor(Shl(p, g_s), shift[Cut(Shr(a, rs - (k + 1) * g_s), g_s)])
    IN  Repeat(rs \div g_s, shift[Shr(a, rs)], Read)

CutOfGroups(F, g_r, turns, p) ==
    LET reduce == GfWgenGroupInit(F, g_r)
        Reduce(q, k) ==
            LET i == (turns - 1 - k) * g_r
            IN  Xor(q, Shl(reduce[Cut(Shr(q, F.w + i), g_r)], i))
    IN  Cut(Repeat(turns, p, Reduce), F.w)

\* After k groups the product is that of the bits read so far, in w - 1 + k g
\* bits at most.
LEMMA WholeOfGroupsIs ==
    ASSUME NEW F, IsGF(F), NEW g \in 1..F.w, NEW a \in Words(F), NEW b \in Words(F)
    PROVE  /\ WholeOfGroups(F, g, a, b) \in SUBSET (0..(F.w - 1 + (F.w - FirstGroup(F.w, g))))
           /\ Reduced(F, WholeOfGroups(F, g, a, b)) = Times(F, a, b)
<1> DEFINE shift == GfWgenGroupSetShiftTables(F, b, g)
           rs == F.w - FirstGroup(F.w, g)
           n == rs \div g
           Turn(p, k) == Xor(Shl(p, g), shift[Cut(Shr(a, rs - (k + 1) * g), g)])
           first == shift[Shr(a, rs)]
           Value(f, i) == IF i = 0 THEN first ELSE Turn(f[i - 1], i - 1)
           after == CHOOSE f : f = [i \in 0..n |-> Value(f, i)]
           S == SUBSET Nat
           t == [s \in S \X Nat |-> Turn(s[1], s[2])]
<1>0. F.w \in Nat \ {0} /\ a \in SUBSET Nat /\ a \in SUBSET (0..(F.w - 1)) /\ g \in Nat /\ g <= F.w
  BY WordsAre
<1>1. WholeOfGroups(F, g, a, b) = after[n]
  BY DEF WholeOfGroups, Repeat
<1>2. n \in Nat /\ rs = n * g /\ rs \in 0..(F.w - 1) /\ FirstGroup(F.w, g) \in 1..g
  BY <1>0, Grouping
<1>3. ASSUME NEW l \in SUBSET (0..(g - 1)) PROVE shift[l] = Times(F, l, b) /\ shift[l] \in Words(F) /\ shift[l] \in S
  <2>1. shift[l] = Times(F, l, b)
    BY GroupTables
  <2>2. l \in Words(F)
    BY <1>0 DEF Words
  <2>3. Times(F, l, b) \in Words(F)
    BY <2>2, TimesIs
  <2> HIDE DEF shift
  <2> QED BY <2>1, <2>3, WordsAre
<1>4. first = Times(F, Shr(a, rs), b) /\ Shr(a, rs) \in Words(F) /\ first \in S /\ first \in Words(F)
  <2>1. Shr(a, rs) \in SUBSET (0..(g - 1))
    BY <1>0, <1>2 DEF Shr
  <2>2. Shr(a, rs) \in Words(F)
    BY <1>0, <2>1 DEF Words
  <2> HIDE DEF shift, rs, S
  <2> QED BY <1>3, <2>1, <2>2
<1> HIDE DEF shift, rs, n, first
<1>5. ASSUME NEW p \in S, NEW k \in Nat PROVE Turn(p, k) \in S
  <2> DEFINE l == Cut(Shr(a, rs - (k + 1) * g), g)
             z == rs - (k + 1) * g
  <2>1. z \in Int
    BY <1>0, <1>2
  <2> HIDE DEF z
  <2>2. Cut(Shr(a, z), g) \in SUBSET (0..(g - 1))
    BY <1>0, <2>1 DEF Cut, Shr
  <2>3. shift[l] \in S
    BY <1>3, <2>2 DEF z
  <2>4. Shl(p, g) \in S
    BY <1>0 DEF Shl
  <2> HIDE DEF l
  <2>5. Xor(Shl(p, g), shift[l]) \in S
    BY <2>3, <2>4, XorWithin
  <2> QED BY <2>5 DEF l
<1> HIDE DEF Turn
<1>6. t \in [S \X Nat -> S]
  <2>1. \A s \in S \X Nat : s[1] \in S /\ s[2] \in Nat
    OBVIOUS
  <2> HIDE DEF S
  <2> QED BY <1>5, <2>1
<1>7. PICK f : f \in [0..n -> S] /\ f[0] = first /\ \A i \in 0..n : i # 0 => f[i] = t[<<f[i - 1], i - 1>>]
  <2> HIDE DEF t, S
  <2>1. \E f : IsLoop(f, n, S, first, t)
    BY <1>2, <1>4, <1>6, LoopExists
  <2> QED BY <2>1 DEF IsLoop
<1>8. f = [i \in 0..n |-> Value(f, i)]
  <2>1. \A i \in 0..n : i # 0 => i - 1 \in 0..n /\ i - 1 \in Nat
    BY <1>2
  <2> HIDE DEF S
  <2>2. \A i \in 0..n : i # 0 => t[<<f[i - 1], i - 1>>] = Turn(f[i - 1], i - 1)
    <3> SUFFICES ASSUME NEW i \in 0..n, i # 0
                 PROVE  t[<<f[i - 1], i - 1>>] = Turn(f[i - 1], i - 1)
      OBVIOUS
    <3>1. <<f[i - 1], i - 1>> \in S \X Nat
      BY <1>7, <2>1
    <3> QED BY <3>1
  <2>3. \A i \in 0..n : f[i] = Value(f, i)
    <3> HIDE DEF t
    <3> QED BY <1>7, <2>2
  <2> HIDE DEF Value, t
  <2> QED BY <1>7, <2>3
<1>9. after = [i \in 0..n |-> Value(after, i)]
  <2> HIDE DEF Value
  <2> QED BY <1>8
<1> HIDE DEF after, t
<1> DEFINE G == {i \in 0..n : /\ after[i] \in SUBSET (0..(F.w - 1 + i * g))
                              /\ Reduced(F, after[i]) = Times(F, Shr(a, n * g - i * g), b)}
<1>10. 0 \in G
  <2>1. after[0] = Value(after, 0)
    <3> HIDE DEF Value
    <3> QED BY <1>2, <1>9
  <2>2. after[0] = first /\ 0 \in 0..n
    BY <1>2, <2>1
  <2>3. n * g - 0 * g = rs /\ F.w - 1 + 0 * g = F.w - 1
    BY <1>0, <1>2
  <2>4. first \in SUBSET (0..(F.w - 1)) /\ Reduced(F, first) = first
    BY <1>4, WordsAre
  <2> QED BY <1>4, <2>2, <2>3, <2>4
<1>11. ASSUME NEW i \in 0..(n - 1), i \in G PROVE i + 1 \in G
  <2> DEFINE p == after[i]
             m == n * g - (i + 1) * g
             l == Cut(Shr(a, m), g)
             q == Times(F, Shr(a, m + g), b)
  <2>1. i + 1 \in 0..n /\ i + 1 # 0 /\ (i + 1) - 1 = i
    BY <1>2
  <2>2. after[i + 1] = Turn(p, i)
    BY <1>9, <2>1
  <2>3. after[i + 1] = Xor(Shl(p, g), shift[l])
    BY <1>2, <2>2 DEF Turn
  <2>4. /\ m \in Nat /\ n * g - i * g = m + g /\ i * g + g = (i + 1) * g /\ i * g \in Nat
        /\ (i + 1) * g \in Nat /\ (i + 1) * g <= n * g
    BY <1>0, <1>2, GroupPlaces
  <2>5. p \in SUBSET (0..(F.w - 1 + i * g)) /\ Reduced(F, p) = q
    BY <1>11, <2>4
  <2> HIDE DEF p, m
  <2>6. /\ l \in SUBSET (0..(g - 1)) /\ Times(F, Shr(a, m), b) = Xor(Reduced(F, Shl(q, g)), Times(F, l, b))
    <3>1. m \in Nat
      BY <2>4
    <3>2. /\ Cut(Shr(a, m), g) \in SUBSET (0..(g - 1))
          /\ Times(F, Shr(a, m), b)
                = Xor(Reduced(F, Shl(Times(F, Shr(a, m + g), b), g)), Times(F, Cut(Shr(a, m), g), b))
      <4> HIDE DEF l, q
      <4>1. Cut(Shr(a, m), g) \in SUBSET (0..(g - 1))
        BY <3>1, GroupStep
      <4>2. Times(F, Shr(a, m), b)
                = Xor(Reduced(F, Shl(Times(F, Shr(a, m + g), b), g)), Times(F, Cut(Shr(a, m), g), b))
        BY <3>1, GroupStep
      <4> QED BY <4>1, <4>2
    <3> QED BY <3>2
  <2> HIDE DEF l, q
  <2>7. shift[l] = Times(F, l, b) /\ shift[l] \in Words(F)
    BY <1>3, <2>6
  <2> DEFINE c == F.w - 1 + i * g
             e == shift[l]
  <2>8. c \in Nat /\ c + g <= 2 * F.w /\ g \in 0..F.w /\ c + g = F.w - 1 + (i + 1) * g /\ F.w - 1 <= c + g
    BY <1>0, <1>2, <2>4
  <2>9. p \in SUBSET (0..c)
    BY <2>5
  <2> HIDE DEF c, e
  <2>10. /\ Reduced(F, Shl(p, g)) = Reduced(F, Shl(Reduced(F, p), g))
         /\ Shl(p, g) \in SUBSET (0..(c + g)) /\ Shl(p, g) \in SUBSET (0..(2 * F.w))
    BY <2>8, <2>9, ReducedShl
  <2>11. e \in SUBSET (0..(2 * F.w)) /\ e \in SUBSET (0..(F.w - 1)) /\ Reduced(F, e) = e
    BY <2>7, WordsAre DEF e
  <2> DEFINE d == Shl(p, g)
  <2> HIDE DEF d
  <2>12. Reduced(F, Xor(d, e)) = Xor(Reduced(F, d), Reduced(F, e))
    <3>1. d \in SUBSET (0..(2 * F.w))
      BY <2>10 DEF d
    <3> QED BY <2>11, <3>1, ReducedSum
  <2>13. Xor(d, e) \in SUBSET (0..(c + g))
    <3>1. d \in SUBSET (0..(c + g))
      BY <2>10 DEF d
    <3>2. e \in SUBSET (0..(c + g))
      BY <1>0, <2>8, <2>11
    <3> QED BY <3>1, <3>2 DEF Xor
  <2>14. after[i + 1] = Xor(d, e)
    BY <2>3 DEF d, e
  <2>15. Reduced(F, after[i + 1]) = Times(F, Shr(a, m), b)
    BY <2>5, <2>6, <2>7, <2>10, <2>11, <2>12, <2>14 DEF d, e
  <2>16. after[i + 1] \in SUBSET (0..(F.w - 1 + (i + 1) * g))
    BY <2>8, <2>13, <2>14
  <2> QED BY <2>1, <2>15, <2>16 DEF m
<1>12. n \in G
  <2> HIDE DEF G
  <2> QED BY <1>2, <1>10, <1>11, LoopKeeps
<1>13. n * g - n * g = 0 /\ Shr(a, 0) = a
  <2>1. n * g \in Nat
    BY <1>0, <1>2
  <2>2. n * g - n * g = 0
    BY <2>1
  <2>3. Shr(a, 0) = a
    BY <1>0, NextBit
  <2> QED BY <2>2, <2>3
<1>14. after[n] \in SUBSET (0..(F.w - 1 + rs)) /\ Reduced(F, after[n]) = Times(F, a, b)
  BY <1>2, <1>12, <1>13
<1> QED BY <1>1, <1>14 DEF rs

\* g bits above w + i come back through the table, moved up by i.
LEMMA GroupsBack ==
    ASSUME NEW F, IsGF(F), NEW g \in 1..F.w, NEW c \in 0..(F.w - 1), NEW p \in SUBSET (0..(F.w - 1 + c)),
           NEW i \in 0..c, NEW r, r = Reduced(F, Shl(Cut(Shr(p, F.w + i), g), F.w))
    PROVE  /\ Xor(p, Shl(r, i)) \in SUBSET (0..(F.w - 1 + c))
           /\ Reduced(F, Cut(Xor(p, Shl(r, i)), F.w + i)) = Reduced(F, Cut(p, F.w + (i + g)))
           /\ Cut(Shr(p, F.w + i), g) \in SUBSET (0..(g - 1))
<1> DEFINE l == Cut(Shr(p, F.w + i), g)
           low == Cut(p, F.w + i)
           d == Shl(r, i)
           n == F.w + i
           e == Shl(l, n)
<1>1. F.w \in Nat /\ F.w >= 1 /\ g \in Nat /\ g <= F.w /\ g >= 1 /\ c \in Nat /\ c <= F.w - 1 /\ i \in Nat /\ i <= c
      /\ n \in Nat /\ p \in SUBSET Nat
  BY DEF IsGF
<1>2. \A x \in l : x \in Nat /\ x <= g - 1 /\ x + n \in p
  BY <1>1 DEF Cut, Shr
<1>3. l \in SUBSET (0..(g - 1))
  BY <1>1, <1>2
<1>4. Cut(p, n + g) = Xor(low, e)
  <2>1. ASSUME NEW x PROVE x \in e <=> x \in p /\ x >= n /\ x < n + g
    <3>1. ASSUME x \in e PROVE x \in p /\ x >= n /\ x < n + g
      <4>1. PICK y \in l : x = y + n
        BY <3>1 DEF Shl
      <4> HIDE DEF l, n
      <4> QED BY <1>1, <1>2, <4>1
    <3>2. ASSUME x \in p, x >= n, x < n + g PROVE x \in e
      <4>1. x - n \in Shr(p, n)
        BY <1>1, <3>2 DEF Shr
      <4>2. x - n \in l
        BY <1>1, <3>2, <4>1 DEF Cut
      <4>3. (x - n) + n = x
        BY <1>1, <3>2
      <4> HIDE DEF l, n
      <4> QED BY <4>2, <4>3 DEF Shl
    <3> QED BY <3>1, <3>2
  <2>2. ASSUME NEW x PROVE x \in low <=> x \in p /\ x < n
    BY DEF Cut
  <2>3. ASSUME NEW x PROVE x \in Cut(p, n + g) <=> x \in p /\ x < n + g
    BY DEF Cut
  <2> HIDE DEF low, e, n
  <2>4. ASSUME NEW x PROVE x \in Cut(p, n + g) <=> x \in Xor(low, e)
    <3>1. x \in p => x \in Nat
      BY <1>1
    <3>2. x \in Xor(low, e) <=> ~(x \in low <=> x \in e)
      BY InXor
    <3> QED BY <1>1, <2>1, <2>2, <2>3, <3>1, <3>2
  <2> QED BY <2>4
<1> DEFINE m == F.w - 1 + c - i
           u == Shl(l, F.w)
<1>5. m \in Nat /\ m + i <= 2 * F.w /\ i \in 0..F.w
  BY <1>1
<1>6. u \in SUBSET (0..m)
  <2>1. ASSUME NEW x \in u PROVE x \in 0..m
    <3>1. PICK y \in l : x = y + F.w
      BY DEF Shl
    <3>2. y \in Nat /\ y + (F.w + i) <= F.w - 1 + c
      <4> HIDE DEF l
      <4> QED BY <1>1, <1>2, <3>1
    <3> QED BY <1>1, <3>1, <3>2
  <2> QED BY <2>1
<1>7. e = Shl(u, i)
  <2>1. l \in SUBSET Nat
    BY <1>2
  <2> HIDE DEF l
  <2> QED BY <1>1, <2>1, ShlShl
<1> HIDE DEF l, u, m
<1>8. r = Reduced(F, u)
  BY DEF u, l
<1>9. u \in SUBSET (0..(2 * F.w))
  BY <1>1, <1>5, <1>6
<1>10. r \in Words(F)
  BY <1>8, <1>9, ReducedSum
<1>11. r \in SUBSET (0..(F.w - 1)) /\ r \in SUBSET Nat
  BY <1>10, WordsAre
<1>12. Reduced(F, e) = Reduced(F, d) /\ e \in SUBSET (0..(2 * F.w))
  <2>1. Reduced(F, Shl(u, i)) = Reduced(F, Shl(Reduced(F, u), i)) /\ Shl(u, i) \in SUBSET (0..(2 * F.w))
    BY <1>5, <1>6, ReducedShl
  <2> HIDE DEF e, d
  <2> QED BY <1>7, <1>8, <2>1 DEF d
<1>13. d \in SUBSET (0..(n - 1)) /\ d \in SUBSET (0..(F.w - 1 + c)) /\ d \in SUBSET (0..(2 * F.w)) /\ d \in SUBSET Nat
  <2>1. \A x \in d : x \in Nat /\ x <= F.w - 1 + i
    BY <1>1, <1>11 DEF Shl
  <2>2. F.w - 1 + i = n - 1
    BY <1>1
  <2> HIDE DEF d, n
  <2>3. d \in SUBSET (0..(n - 1))
    BY <1>1, <2>1, <2>2
  <2>4. d \in SUBSET (0..(F.w - 1 + c)) /\ d \in SUBSET (0..(2 * F.w)) /\ d \in SUBSET Nat
    BY <1>1, <2>1
  <2> QED BY <2>3, <2>4
<1>14. low \in SUBSET (0..(2 * F.w))
  <2>1. low \in SUBSET p
    BY DEF Cut
  <2>2. F.w - 1 + c <= 2 * F.w
    BY <1>1
  <2> HIDE DEF low
  <2> QED BY <1>1, <2>1, <2>2
<1> HIDE DEF d, e
<1>15. Cut(Xor(p, d), n) = Xor(low, d)
  <2>1. Cut(Xor(p, d), n) = Xor(Cut(p, n), Cut(d, n))
    <3> HIDE DEF n
    <3> QED BY <1>1, <1>13, HighAndLowOfSum
  <2>2. Cut(d, n) = d
    <3> HIDE DEF n
    <3>1. \A x \in d : x < n
      BY <1>1, <1>13
    <3> QED BY <3>1 DEF Cut
  <2> QED BY <2>1, <2>2
<1> HIDE DEF low
<1>16. Reduced(F, Xor(low, d)) = Xor(Reduced(F, low), Reduced(F, d))
  BY <1>13, <1>14, ReducedSum
<1>17. Reduced(F, Xor(low, e)) = Xor(Reduced(F, low), Reduced(F, e))
  BY <1>12, <1>14, ReducedSum
<1>18. Xor(p, d) \in SUBSET (0..(F.w - 1 + c))
  BY <1>13 DEF Xor
<1>19. n + g = F.w + (i + g)
  BY <1>1
<1>20. Reduced(F, Cut(Xor(p, d), n)) = Reduced(F, Cut(p, F.w + (i + g)))
  <2> HIDE DEF n
  <2> QED BY <1>4, <1>12, <1>15, <1>16, <1>17, <1>19
<1> QED BY <1>3, <1>18, <1>20 DEF d, l

\* What the turns of the reduction cover.
LEMMA GroupTurns ==
    ASSUME NEW c \in Nat \ {0}, NEW g \in Nat \ {0}, NEW n, n = (c - 1) \div g + 1
    PROVE  n \in Nat /\ n >= 1 /\ n * g >= c /\ (n - 1) * g <= c - 1
<1> DEFINE q == (c - 1) \div g
           j == c - 1
<1>1. j \in Nat
  OBVIOUS
<1> HIDE DEF j
<1>2. j = g * (j \div g) + (j % g) /\ j % g \in 0..(g - 1) /\ j \div g \in Nat
  BY <1>1, DivMod
<1>3. q = j \div g /\ j = c - 1
  BY DEF j
<1> HIDE DEF q
<1>4. q \in Nat /\ n = q + 1 /\ n - 1 = q
  BY <1>2, <1>3 DEF q
<1>5. n * g = g * q + g /\ (n - 1) * g = g * q /\ g * q \in Nat
  BY <1>4
<1> QED BY <1>2, <1>3, <1>4, <1>5

\* With each turn the product, cut off above what is still to be reduced, is
\* the same in the field.
LEMMA CutOfGroupsIs ==
    ASSUME NEW F, IsGF(F), NEW g \in 1..F.w, NEW c \in 1..(F.w - 1), NEW p \in SUBSET (0..(F.w - 1 + c)),
           NEW n, n = (c - 1) \div g + 1
    PROVE  CutOfGroups(F, g, n, p) = Reduced(F, p)
<1> DEFINE reduce == GfWgenGroupInit(F, g)
           S == SUBSET (0..(F.w - 1 + c))
           Turn(q, k) ==
             LET i == (n - 1 - k) * g
             IN  Xor(q, Shl(reduce[Cut(Shr(q, F.w + i), g)], i))
           Value(f, i) == IF i = 0 THEN p ELSE Turn(f[i - 1], i - 1)
           after == CHOOSE f : f = [i \in 0..n |-> Value(f, i)]
           t == [s \in S \X Nat |-> IF s[2] < n THEN Turn(s[1], s[2]) ELSE s[1]]
<1>0. F.w \in Nat /\ F.w >= 1 /\ g \in Nat \ {0} /\ g \in Nat /\ g <= F.w /\ c \in Nat \ {0} /\ c \in 0..(F.w - 1) /\ c \in Nat
  BY DEF IsGF
<1>1. CutOfGroups(F, g, n, p) = Cut(after[n], F.w)
  BY DEF CutOfGroups, Repeat
<1>2. n \in Nat /\ n >= 1 /\ n * g >= c /\ (n - 1) * g <= c - 1
  BY <1>0, GroupTurns
<1>3. ASSUME NEW l \in SUBSET (0..(g - 1)) PROVE reduce[l] = Reduced(F, Shl(l, F.w))
  <2>1. Zero \in Words(F)
    BY ZeroOneWords
  <2> QED BY <2>1, GroupTables
<1> HIDE DEF reduce
<1>4. ASSUME NEW q \in S, NEW k \in 0..(n - 1)
      PROVE  /\ Turn(q, k) \in S
             /\ (n - 1 - k) * g \in Nat /\ (n - 1 - k) * g + g = (n - k) * g
             /\ Reduced(F, Cut(Turn(q, k), F.w + (n - 1 - k) * g)) = Reduced(F, Cut(q, F.w + (n - k) * g))
  <2> DEFINE i == (n - 1 - k) * g
             l == Cut(Shr(q, F.w + i), g)
             r == reduce[l]
  <2>1. i \in Nat /\ (n - k) * g = i + g /\ k * g \in Nat
    BY <1>0, <1>2, GroupPlaces
  <2>2. i \in 0..c
    <3>1. i = (n - 1) * g - k * g
      BY <1>0, <1>2
    <3> HIDE DEF i
    <3>2. (n - 1) * g \in Nat
      BY <1>0, <1>2
    <3> QED BY <1>0, <1>2, <2>1, <3>1, <3>2
  <2>3. Turn(q, k) = Xor(q, Shl(r, i))
    OBVIOUS
  <2> HIDE DEF i, Turn
  <2>4. q \in SUBSET (0..(F.w - 1 + c)) /\ q \in SUBSET Nat
    BY <1>0
  <2>5. l \in SUBSET (0..(g - 1))
    BY <1>0, <2>1, <2>4 DEF Cut, Shr
  <2>6. r = Reduced(F, Shl(Cut(Shr(q, F.w + i), g), F.w))
    BY <1>3, <2>5
  <2> HIDE DEF r, l, S
  <2>7. /\ Xor(q, Shl(r, i)) \in SUBSET (0..(F.w - 1 + c))
        /\ Reduced(F, Cut(Xor(q, Shl(r, i)), F.w + i)) = Reduced(F, Cut(q, F.w + (i + g)))
    <3>1. c \in 0..(F.w - 1) /\ i \in 0..c /\ q \in SUBSET (0..(F.w - 1 + c)) /\ g \in 1..F.w /\ IsGF(F)
          /\ r = Reduced(F, Shl(Cut(Shr(q, F.w + i), g), F.w))
      BY <1>0, <2>2, <2>4, <2>6
    <3>2. Xor(q, Shl(r, i)) \in SUBSET (0..(F.w - 1 + c))
      BY <3>1, GroupsBack
    <3>3. Reduced(F, Cut(Xor(q, Shl(r, i)), F.w + i)) = Reduced(F, Cut(q, F.w + (i + g)))
      BY <3>1, GroupsBack
    <3> QED BY <3>2, <3>3
  <2> QED BY <2>1, <2>3, <2>7 DEF i, S
<1>5. p \in S
  OBVIOUS
<1> HIDE DEF Turn, S
<1>6. t \in [S \X Nat -> S]
  <2>1. ASSUME NEW s \in S \X Nat PROVE (IF s[2] < n THEN Turn(s[1], s[2]) ELSE s[1]) \in S
    <3>1. s[1] \in S /\ s[2] \in Nat
      OBVIOUS
    <3>2. s[2] < n => s[2] \in 0..(n - 1)
      BY <1>2, <3>1
    <3> QED BY <1>4, <3>1, <3>2
  <2> QED BY <2>1
<1>7. PICK f : f \in [0..n -> S] /\ f[0] = p /\ \A i \in 0..n : i # 0 => f[i] = t[<<f[i - 1], i - 1>>]
  <2> HIDE DEF t
  <2>1. \E f : IsLoop(f, n, S, p, t)
    BY <1>2, <1>5, <1>6, LoopExists
  <2> QED BY <2>1 DEF IsLoop
<1>8. f = [i \in 0..n |-> Value(f, i)]
  <2>1. \A i \in 0..n : i # 0 => i - 1 \in 0..n /\ i - 1 \in Nat /\ i - 1 < n
    BY <1>2
  <2>2. \A i \in 0..n : i # 0 => t[<<f[i - 1], i - 1>>] = Turn(f[i - 1], i - 1)
    <3> SUFFICES ASSUME NEW i \in 0..n, i # 0
                 PROVE  t[<<f[i - 1], i - 1>>] = Turn(f[i - 1], i - 1)
      OBVIOUS
    <3>1. <<f[i - 1], i - 1>> \in S \X Nat
      BY <1>7, <2>1
    <3> QED BY <2>1, <3>1
  <2>3. \A i \in 0..n : f[i] = Value(f, i)
    <3> HIDE DEF t
    <3> QED BY <1>7, <2>2
  <2> HIDE DEF Value, t
  <2> QED BY <1>7, <2>3
<1>9. after = [i \in 0..n |-> Value(after, i)]
  <2> HIDE DEF Value
  <2> QED BY <1>8
<1> HIDE DEF after, t
<1> DEFINE G == {i \in 0..n : after[i] \in S /\ Reduced(F, Cut(after[i], F.w + (n - i) * g)) = Reduced(F, p)}
<1>10. 0 \in G
  <2>1. after[0] = Value(after, 0)
    <3>1. 0 \in 0..n
      BY <1>2
    <3> HIDE DEF Value
    <3> QED BY <1>9, <3>1
  <2>2. after[0] = p /\ 0 \in 0..n /\ (n - 0) * g = n * g /\ n * g \in Nat
    BY <1>0, <1>2, <2>1
  <2>3. Cut(p, F.w + n * g) = p
    <3>1. \A x \in p : x < F.w + n * g
      BY <1>0, <1>2, <2>2
    <3> QED BY <3>1 DEF Cut
  <2> QED BY <1>5, <2>2, <2>3
<1>11. ASSUME NEW i \in 0..(n - 1), i \in G PROVE i + 1 \in G
  <2>1. i + 1 \in 0..n /\ i + 1 # 0 /\ (i + 1) - 1 = i /\ n - (i + 1) = n - 1 - i
    BY <1>2
  <2>2. after[i + 1] = Turn(after[i], i)
    BY <1>9, <2>1
  <2>3. after[i] \in S /\ Reduced(F, Cut(after[i], F.w + (n - i) * g)) = Reduced(F, p)
    BY <1>11
  <2> QED BY <1>4, <2>1, <2>2, <2>3
<1>12. n \in G
  <2> HIDE DEF G
  <2> QED BY <1>2, <1>10, <1>11, LoopKeeps
<1>13. (n - n) * g = 0
  <2>1. n - n = 0
    BY <1>2
  <2> QED BY <1>0, <2>1
<1>14. after[n] \in S /\ Reduced(F, Cut(after[n], F.w + 0)) = Reduced(F, p)
  BY <1>12, <1>13
<1>15. F.w + 0 = F.w
  BY <1>0
<1> DEFINE z == Cut(after[n], F.w)
<1>16. z \in Words(F)
  <2>1. after[n] \in SUBSET Nat
    BY <1>0, <1>14 DEF S
  <2> DEFINE y == after[n]
  <2> HIDE DEF y
  <2>2. Cut(y, F.w) \in Words(F)
    <3>1. y \in SUBSET Nat
      BY <2>1 DEF y
    <3>2. \A x \in Cut(y, F.w) : x \in Nat /\ x < F.w
      BY <3>1 DEF Cut
    <3>3. Cut(y, F.w) \in SUBSET (0..(F.w - 1))
      BY <1>0, <3>2
    <3> QED BY <3>3 DEF Words
  <2> QED BY <2>2 DEF y
<1> HIDE DEF z
<1>17. Reduced(F, z) = z
  BY <1>16, WordsAre
<1> QED BY <1>1, <1>14, <1>15, <1>17 DEF z

\* GROUP with groups of two sizes, where a does not fit in a group.
THEOREM GroupsOfTwoSizes ==
    ASSUME NEW F, IsGF(F), NEW gs \in 1..(F.w - 1), NEW gr \in 1..F.w, NEW a \in Words(F), NEW b \in Words(F)
    PROVE  GfWgenGroupMultiply(F, gs, gr, a, b) = Times(F, a, b)
<1> DEFINE rs == F.w - FirstGroup(F.w, gs)
           n == (rs - 1) \div gr + 1
           p == WholeOfGroups(F, gs, a, b)
<1>1. F.w \in Nat \ {0} /\ gs \in 1..F.w /\ gs \in Nat /\ gs <= F.w - 1
  BY DEF IsGF
<1>2. rs \in 1..(F.w - 1)
  <2>1. FirstGroup(F.w, gs) \in 1..gs /\ F.w - FirstGroup(F.w, gs) \in 0..(F.w - 1)
    BY <1>1, Grouping
  <2> QED BY <1>1, <2>1
<1>3. GfWgenGroupMultiply(F, gs, gr, a, b) = CutOfGroups(F, gr, n, p)
  <2>1. rs # 0 /\ rs > 0
    BY <1>1, <1>2
  <2> QED BY <2>1 DEF GfWgenGroupMultiply, CutOfGroups, WholeOfGroups, Repeat
<1>4. p \in SUBSET (0..(F.w - 1 + rs)) /\ Reduced(F, p) = Times(F, a, b)
  BY <1>1, WholeOfGroupsIs
<1> HIDE DEF rs, p
<1>5. CutOfGroups(F, gr, n, p) = Reduced(F, p)
  BY <1>2, <1>4, CutOfGroupsIs
<1> QED BY <1>3, <1>4, <1>5

-----------------------------------------------------------------------------
(* What the quotients and the inverses of a field undo. *)

\* The antilogarithm of a difference of logarithms is the quotient, and of the
\* order less a logarithm the inverse.
LEMMA LogsDivide ==
    ASSUME NEW F, IsGF(F), Cycle(F), NEW P, AreLogs(F, P), NEW a \in Words(F), NEW b \in Words(F), Zero \notin {a, b}
    PROVE  /\ P.log[a] \in 0..(Order(F) - 1) /\ P.log[b] \in 0..(Order(F) - 1) /\ Order(F) \in Nat \ {0}
           /\ Times(F, P.antilog[(Order(F) + P.log[a] - P.log[b]) % Order(F)], b) = a
           /\ Times(F, P.antilog[(Order(F) - P.log[b]) % Order(F)], b) = One
<1> DEFINE i == P.log[a]
           j == P.log[b]
           n == Order(F)
<1>1. i \in Turns(F) /\ j \in Turns(F) /\ XP(F, i) = a /\ XP(F, j) = b
  BY DEF AreLogs
<1>2. n \in Nat \ {0}
  BY WordCount
<1> HIDE DEF i, j, n
<1>3. i \in 0..(n - 1) /\ j \in 0..(n - 1)
  BY <1>1 DEF Turns, n
<1>4. ASSUME NEW h \in 0..(n - 1)
      PROVE  Times(F, P.antilog[(n + h - j) % n], b) = XP(F, h)
  <2> DEFINE k == (n + h - j) % n
  <2>1. k \in 0..(n - 1) /\ (k = h - j \/ k = n + h - j)
    BY <1>2, <1>3
  <2> HIDE DEF k
  <2>2. k \in Turns(F) /\ j \in Turns(F)
    BY <1>1, <2>1 DEF Turns, n
  <2>3. (k + j) % n = h
    BY <1>2, <1>3, <2>1
  <2>4. Times(F, XP(F, k), XP(F, j)) = XP(F, h)
    BY <2>2, <2>3 DEF Cycle, n
  <2>5. P.antilog[k] = XP(F, k)
    BY <2>2 DEF AreLogs
  <2> QED BY <1>1, <2>4, <2>5 DEF k
<1>5. 0 \in 0..(n - 1) /\ n + 0 - j = n - j
  BY <1>2, <1>3
<1>6. Times(F, P.antilog[(n - j) % n], b) = XP(F, 0)
  <2>1. Times(F, P.antilog[(n + 0 - j) % n], b) = XP(F, 0)
    BY <1>4, <1>5
  <2> QED BY <1>5, <2>1
<1>7. Times(F, P.antilog[(n + i - j) % n], b) = a
  BY <1>1, <1>3, <1>4
<1>8. XP(F, 0) = One
  BY XPIs
<1> QED BY <1>2, <1>3, <1>6, <1>7, <1>8 DEF i, j, n

\* Dividing by logarithms undoes multiplication, and so do the inverses: LOG_TABLE
\* of every width, LOG_ZERO and LOG_ZERO_EXT, where dividing 0 by 1 reads an entry
\* nobody fills.
THEOREM LogsUndo ==
    ASSUME NEW F, IsGF(F), Cycle(F), NEW P, AreLogs(F, P), NEW a \in Words(F), NEW b \in Words(F), b # Zero
    PROVE  /\ F.w = 4 => Times(F, GfW4LogDivide(P, a, b), b) = a
           /\ F.w = 8 => /\ Times(F, GfW8LogDivide(P, a, b), b) = a
                         /\ Times(F, GfW8LogzeroSmallDivide(P, a, b), b) = a
                         /\ ~(a = Zero /\ b = One) => Times(F, GfW8LogzeroDivide(P, a, b), b) = a
                         /\ Times(F, GfW8LogInverse(P, b), b) = One
           /\ F.w = 16 => /\ Times(F, GfW16LogDivide(P.antilog, P.log, a, b), b) = a
                          /\ Times(F, GfW16LogZeroDivide(P.antilog, P.log, a, b), b) = a
                          /\ Times(F, GfW16LogInverse(P.antilog, P.log, b), b) = One
           /\ Cardinality(DOMAIN P.antilog) = Order(F) => Times(F, GfWgenLogDivide(P, a, b), b) = a
<1> DEFINE i == P.log[a]
           j == P.log[b]
           n == Order(F)
<1>0. n \in Nat \ {0}
  BY WordCount
<1>1. (F.w = 4 => n = 15) /\ (F.w = 8 => n = 255) /\ (F.w = 16 => n = 65535)
  <2>1. ASSUME F.w = 4 PROVE 2^F.w = 16
    BY <2>1, SomePowersOfTwo, SMT
  <2>2. ASSUME F.w = 8 PROVE 2^F.w = 256
    BY <2>2, SomePowersOfTwo, SMT
  <2>3. ASSUME F.w = 16 PROVE 2^F.w = 65536
    BY <2>3, SomePowersOfTwo, SMT
  <2>4. ASSUME F.w = 16 PROVE n = 65535
    BY <2>3, <2>4, SMT DEF Order
  <2> QED BY <2>1, <2>2, <2>4, SMT DEF Order
<1>2. j \in 0..(n - 1) /\ (j = 0 => b = One) /\ Times(F, Zero, b) = Zero
  <2>1. j \in Turns(F) /\ XP(F, j) = b
    BY DEF AreLogs
  <2>2. XP(F, 0) = One
    BY XPIs
  <2> QED BY <2>1, <2>2, TimesZero DEF Turns
<1>3. a # Zero => i \in 0..(n - 1) /\ Times(F, P.antilog[(n + i - j) % n], b) = a
  BY LogsDivide
<1>4. Times(F, P.antilog[(n - j) % n], b) = One
  BY LogsDivide
<1>5. Times(F, One, One) = One
  BY TimesIsRing, ZeroOneWords
<1> HIDE DEF i, j, n
<1>6. ASSUME F.w = 4 PROVE Times(F, GfW4LogDivide(P, a, b), b) = a
  BY <1>1, <1>2, <1>3, <1>6 DEF GfW4LogDivide, i, j
<1>7. ASSUME F.w = 8
      PROVE  /\ Times(F, GfW8LogDivide(P, a, b), b) = a /\ Times(F, GfW8LogzeroSmallDivide(P, a, b), b) = a
             /\ ~(a = Zero /\ b = One) => Times(F, GfW8LogzeroDivide(P, a, b), b) = a
             /\ Times(F, GfW8LogInverse(P, b), b) = One
  <2>1. n = 255
    BY <1>1, <1>7
  <2>2. Times(F, GfW8LogInverse(P, b), b) = One
    BY <1>4, <2>1 DEF GfW8LogInverse, j
  <2>3. CASE a = Zero
    <3>1. GfW8LogDivide(P, a, b) = Zero
      BY <2>3 DEF GfW8LogDivide
    <3>2. GfW8LogzeroSmallDivide(P, a, b) = Zero
      <4>1. SmallLog(P, a) = 510 /\ SmallLog(P, b) = j
        BY <2>3 DEF SmallLog, j
      <4>2. ~(255 + 510 - j < 510)
        BY <1>2, <2>1
      <4> QED BY <4>1, <4>2 DEF GfW8LogzeroSmallDivide, SmallAntilog
    <3>3. b # One => GfW8LogzeroDivide(P, a, b) = Zero
      <4> SUFFICES ASSUME b # One PROVE GfW8LogzeroDivide(P, a, b) = Zero
        OBVIOUS
      <4>1. ExtLog(P, a) = 512 /\ ExtLog(P, b) = j
        BY <2>3 DEF ExtLog, j
      <4>2. 255 + 512 - j \in 512..766 /\ ~(255 + 512 - j < 510)
        BY <1>2, <2>1
      <4> QED BY <4>1, <4>2 DEF GfW8LogzeroDivide, ExtAntilog
    <3> QED BY <1>2, <2>2, <2>3, <3>1, <3>2, <3>3
  <2>4. CASE a # Zero
    <3>0. i \in 0..(n - 1) /\ j \in 0..(n - 1)
      BY <1>2, <1>3, <2>4
    <3>1. 255 + i - j < 510 /\ 255 + i - j = i - j + 255 /\ 255 + i - j \notin 512..766 /\ 255 + i - j # 1024
      BY ONLY <2>1, <3>0, SMT
    <3>2. GfW8LogDivide(P, a, b) = P.antilog[(255 + i - j) % 255]
      BY <2>4, <3>1 DEF GfW8LogDivide, i, j
    <3>3. GfW8LogzeroSmallDivide(P, a, b) = P.antilog[(255 + i - j) % 255]
      <4>1. SmallLog(P, a) = i /\ SmallLog(P, b) = j
        BY <2>4 DEF SmallLog, i, j
      <4> QED BY <3>1, <4>1 DEF GfW8LogzeroSmallDivide, SmallAntilog
    <3>4. GfW8LogzeroDivide(P, a, b) = P.antilog[(255 + i - j) % 255]
      <4>1. ExtLog(P, a) = i /\ ExtLog(P, b) = j
        BY <2>4 DEF ExtLog, i, j
      <4>2. ExtAntilog(P, 255 + i - j) = P.antilog[(255 + i - j) % 255]
        BY <3>1 DEF ExtAntilog
      <4> QED BY <4>1, <4>2 DEF GfW8LogzeroDivide
    <3> QED BY <1>3, <2>1, <2>2, <2>4, <3>2, <3>3, <3>4
  <2> QED BY <2>3, <2>4
<1>8. ASSUME F.w = 16
      PROVE  /\ Times(F, GfW16LogDivide(P.antilog, P.log, a, b), b) = a
             /\ Times(F, GfW16LogZeroDivide(P.antilog, P.log, a, b), b) = a
             /\ Times(F, GfW16LogInverse(P.antilog, P.log, b), b) = One
  <2>1. n = 65535
    BY <1>1, <1>8
  <2>2. Times(F, GfW16LogInverse(P.antilog, P.log, b), b) = One
    <3>1. CASE b = One
      BY <1>5, <3>1 DEF GfW16LogInverse
    <3>2. CASE b # One
      <4>1. GfW16LogInverse(P.antilog, P.log, b) = P.antilog[(65535 - j) % 65535]
        BY <3>2, SMT DEF GfW16LogInverse, j
      <4>2. Times(F, P.antilog[(65535 - j) % 65535], b) = One
        BY ONLY <1>4, <2>1, SMT
      <4> QED BY ONLY <4>1, <4>2
    <3> QED BY <3>1, <3>2
  <2>3. CASE a = Zero
    <3>1. GfW16LogDivide(P.antilog, P.log, a, b) = Zero /\ GfW16LogZeroDivide(P.antilog, P.log, a, b) = Zero
      BY <2>3, SMT DEF GfW16LogDivide, GfW16LogZeroDivide
    <3> QED BY <1>2, <2>2, <2>3, <3>1
  <2>4. CASE a # Zero
    <3> DEFINE d == 65535 + i - j
    <3>1. GfW16LogDivide(P.antilog, P.log, a, b) = P.antilog[d % 65535]
      BY <2>4, SMT DEF GfW16LogDivide, i, j
    <3>2. i \in 0..(n - 1) /\ Times(F, P.antilog[d % 65535], b) = a
      BY ONLY <1>3, <2>1, <2>4, SMT
    <3>3. i - j + 65535 = d /\ ~(d < 0)
      BY ONLY <1>0, <1>2, <2>1, <3>2, SMT
    <3>4. GfW16LogZeroDivide(P.antilog, P.log, a, b) = ZeroAlog(P.antilog, i - j + 65535)
      BY <2>4, SMT DEF GfW16LogZeroDivide, i, j
    <3>5. ZeroAlog(P.antilog, d) = IF 0 - 131072 <= d /\ d < 0 THEN Zero ELSE P.antilog[d % 65535]
      BY SMT DEF ZeroAlog
    <3> HIDE DEF d
    <3>6. GfW16LogZeroDivide(P.antilog, P.log, a, b) = P.antilog[d % 65535]
      BY ONLY <3>3, <3>4, <3>5, SMT
    <3> QED BY ONLY <2>2, <3>1, <3>2, <3>6
  <2> QED BY <2>3, <2>4
<1>9. ASSUME Cardinality(DOMAIN P.antilog) = n
      PROVE  Times(F, GfWgenLogDivide(P, a, b), b) = a
  <2>1. CASE a = Zero
    BY <1>2, <2>1 DEF GfWgenLogDivide
  <2>2. CASE a # Zero
    <3>1. GfWgenLogDivide(P, a, b) = IF n + i - j < n THEN P.antilog[n + i - j] ELSE P.antilog[(n + i - j) - n]
      BY <1>9, <2>2 DEF GfWgenLogDivide, GfWgenAnti, i, j
    <3>2. i \in 0..(n - 1)
      BY <1>3, <2>2
    <3>3. /\ n + i - j < n => (n + i - j) % n = n + i - j
          /\ ~(n + i - j < n) => (n + i - j) % n = (n + i - j) - n
      BY <1>0, <1>2, <3>2
    <3> QED BY <1>3, <2>2, <3>1, <3>3
  <2> QED BY <2>1, <2>2
<1> QED BY <1>6, <1>7, <1>8, <1>9 DEF n

\* Where the powers of x make a cycle a word that is not 0 divides every word.
LEMMA Divisible ==
    ASSUME NEW F, IsGF(F), Cycle(F), NEW a \in Words(F), NEW b \in Words(F), b # Zero
    PROVE  \E q \in Words(F) : Times(F, q, b) = a /\ (a # Zero => q # Zero)
<1>1. CASE a = Zero
  BY <1>1, TimesZero, ZeroOneWords
<1>2. CASE a # Zero
  <2> DEFINE P == [antilog |-> [k \in Turns(F) |-> XP(F, k)],
                   log |-> [x \in Words(F) \ {Zero} |-> CHOOSE k \in Turns(F) : XP(F, k) = x]]
             k == (Order(F) + P.log[a] - P.log[b]) % Order(F)
  <2>1. AreLogs(F, P)
    BY DEF AreLogs, Cycle
  <2> HIDE DEF P
  <2>2. P.log[a] \in 0..(Order(F) - 1) /\ P.log[b] \in 0..(Order(F) - 1) /\ Order(F) \in Nat \ {0}
        /\ Times(F, P.antilog[k], b) = a
    BY <1>2, <2>1, LogsDivide
  <2>3. k \in Turns(F)
    BY <2>2 DEF Turns
  <2> HIDE DEF k
  <2>4. P.antilog[k] \in Words(F)
    BY <2>1, <2>3 DEF AreLogs, Cycle
  <2> QED BY <1>2, <2>2, <2>4, TimesZero
<1> QED BY <1>1, <1>2

\* So do the quotients that TABLE keeps, found in the rows of products.
THEOREM TablesUndo ==
    ASSUME NEW F, IsGF(F), Cycle(F), NEW a \in Words(F), NEW b \in Words(F), b # Zero
    PROVE  /\ F.w = 4 => Times(F, GfW4SingleTableDivide(F, GfW4SingleTable(F), a, b), b) = a
           /\ F.w = 8 => Times(F, GfW8TableDivide(F, a, b), b) = a
           /\ Times(F, GfWgenTableDivide(F, GfWgenTable(F), a, b), b) = a
<1>1. PICK q \in Words(F) : Times(F, q, b) = a /\ (a # Zero => q # Zero)
  BY Divisible
<1>2. Times(F, Zero, b) = Zero
  BY TimesZero
<1>3. \A x, y \in Words(F) : /\ F.w = 4 => GfW4SingleTable(F)[<<x, y>>] = Times(F, x, y)
                             /\ GfWgenTable(F)[<<x, y>>] = Times(F, x, y)
                             /\ Times(F, x, y) = Times(F, y, x)
  <2> SUFFICES ASSUME NEW x \in Words(F), NEW y \in Words(F)
               PROVE  /\ F.w = 4 => GfW4SingleTable(F)[<<x, y>>] = Times(F, x, y)
                      /\ GfWgenTable(F)[<<x, y>>] = Times(F, x, y)
                      /\ Times(F, x, y) = Times(F, y, x)
    OBVIOUS
  <2>1. Times(F, x, y) = Times(F, y, x)
    BY TimesIsRing
  <2> QED BY <2>1, TablesAreTimes DEF GfW4SingleTableMultiply, GfWgenTableMultiply
<1>4. ASSUME F.w = 4 PROVE Times(F, GfW4SingleTableDivide(F, GfW4SingleTable(F), a, b), b) = a
  <2>1. CASE a = Zero
    BY <1>2, <2>1 DEF GfW4SingleTableDivide
  <2>2. CASE a # Zero
    <3> DEFINE T == GfW4SingleTable(F)
               c == CHOOSE x \in Words(F) : T[<<x, b>>] = a
    <3>1. \A x \in Words(F) : T[<<x, b>>] = Times(F, x, b)
      BY <1>3, <1>4
    <3> HIDE DEF T
    <3>2. c \in Words(F) /\ T[<<c, b>>] = a
      BY <1>1, <3>1
    <3>3. GfW4SingleTableDivide(F, T, a, b) = c
      BY <2>2 DEF GfW4SingleTableDivide
    <3> HIDE DEF c
    <3>4. Times(F, GfW4SingleTableDivide(F, T, a, b), b) = a
      BY <3>1, <3>2, <3>3
    <3> QED BY <3>4 DEF T
  <2> QED BY <2>1, <2>2
<1>5. ASSUME F.w = 8 PROVE Times(F, GfW8TableDivide(F, a, b), b) = a
  <2>1. CASE a = Zero
    BY <1>2, <2>1 DEF GfW8TableDivide
  <2>2. CASE a # Zero
    <3> DEFINE c == CHOOSE x \in Words(F) \ {Zero} : GfW8ShiftMultiply(F, x, b) = a
    <3>1. \A x \in Words(F) \ {Zero} : GfW8ShiftMultiply(F, x, b) = Times(F, x, b)
      BY <1>5, ShiftIsTimes
    <3>2. c \in Words(F) \ {Zero} /\ GfW8ShiftMultiply(F, c, b) = a
      BY <1>1, <2>2, <3>1
    <3>3. GfW8TableDivide(F, a, b) = c
      BY <2>2 DEF GfW8TableDivide
    <3> HIDE DEF c
    <3> QED BY <3>1, <3>2, <3>3
  <2> QED BY <2>1, <2>2
<1>6. Times(F, GfWgenTableDivide(F, GfWgenTable(F), a, b), b) = a
  <2>1. CASE a = Zero
    BY <1>2, <2>1 DEF GfWgenTableDivide
  <2>2. CASE a # Zero
    <3> DEFINE T == GfWgenTable(F)
               c == CHOOSE x \in Words(F) : T[<<b, x>>] = a
    <3>1. \A x \in Words(F) : T[<<b, x>>] = Times(F, x, b)
      BY <1>3
    <3> HIDE DEF T
    <3>2. c \in Words(F) /\ T[<<b, c>>] = a
      BY <1>1, <3>1
    <3>3. GfWgenTableDivide(F, T, a, b) = c
      BY <2>2 DEF GfWgenTableDivide
    <3> HIDE DEF c
    <3>4. Times(F, GfWgenTableDivide(F, T, a, b), b) = a
      BY <3>1, <3>2, <3>3
    <3> QED BY <3>4 DEF T
  <2> QED BY <2>1, <2>2
<1> QED BY <1>4, <1>5, <1>6

\* What holds of 0, of every power of x and of sums holds of every polynomial of
\* some degree.
LEMMA AllPolynomials ==
    ASSUME NEW G, Zero \in G, \A i \in Nat : {i} \in G, \A p, q \in Polynomial : p \in G /\ q \in G => Xor(p, q) \in G
    PROVE  \A m \in Nat : \A p \in SUBSET (0..m) : p \in G
<1> DEFINE I == {k \in Nat : \A p \in SUBSET (0..(k - 1)) : p \in G}
<1>1. 0 \in I
  <2>1. \A p \in SUBSET (0..(0 - 1)) : p = {}
    OBVIOUS
  <2> QED BY <2>1 DEF Zero
<1>2. ASSUME NEW k \in Nat, k >= 0 /\ k \in I PROVE k + 1 \in I
  <2> SUFFICES ASSUME NEW p \in SUBSET (0..((k + 1) - 1)) PROVE p \in G
    OBVIOUS
  <2> DEFINE c == p \ {k}
  <2>1. c \in SUBSET (0..(k - 1)) /\ {k} \in SUBSET (0..k)
    OBVIOUS
  <2>2. c \in G /\ {k} \in G
    BY <1>2, <2>1
  <2>4. p = c \/ p = Xor(c, {k})
    BY DEF Xor
  <2> HIDE DEF c
  <2>3. c \in Polynomial /\ {k} \in Polynomial
    <3>1. k \in Int /\ k - 1 \in Int
      OBVIOUS
    <3> QED BY <2>1, <3>1, WordPolynomial
  <2> QED BY <2>2, <2>3, <2>4
<1> HIDE DEF I
<1>3. \A k \in Nat : k >= 0 => k \in I
  BY <1>1, <1>2, Upwards
<1> SUFFICES ASSUME NEW m \in Nat, NEW p \in SUBSET (0..m) PROVE p \in G
  OBVIOUS
<1>4. m + 1 \in I /\ (m + 1) - 1 = m
  BY <1>3
<1> QED BY <1>4 DEF I

\* Multiplication of polynomials associates.
LEMMA ProductAssociates ==
    ASSUME NEW m \in Nat, NEW a \in SUBSET (0..m), NEW b \in Polynomial, NEW c \in Polynomial
    PROVE  Product(Product(a, b), c) = Product(a, Product(b, c))
<1> DEFINE G == {p \in Polynomial : Product(Product(p, b), c) = Product(p, Product(b, c))}
<1>0. Product(b, c) \in Polynomial /\ Zero \in Polynomial
  BY ProductPolynomial, ProductOfZero DEF Zero
<1>1. Zero \in G
  <2>1. Product({}, b) = {} /\ Product({}, c) = {} /\ Product({}, Product(b, c)) = {}
    BY <1>0, ProductOfZero
  <2> QED BY <1>0, <2>1 DEF Zero
<1>2. ASSUME NEW i \in Nat PROVE {i} \in G
  <2>1. {i} \in Polynomial /\ Product({i}, b) = Shl(b, i) /\ Product({i}, Product(b, c)) = Shl(Product(b, c), i)
    BY <1>0, ProductOfPower
  <2>2. Product(Shl(b, i), c) = Shl(Product(b, c), i)
    BY ProductOfShifted
  <2> QED BY <2>1, <2>2
<1>3. ASSUME NEW p \in Polynomial, NEW q \in Polynomial, p \in G, q \in G PROVE Xor(p, q) \in G
  <2>1. Xor(p, q) \in Polynomial /\ Product(p, b) \in Polynomial /\ Product(q, b) \in Polynomial
    BY XorPolynomial, ProductPolynomial
  <2>2. Product(Xor(p, q), b) = Xor(Product(p, b), Product(q, b))
    BY ProductOfSum
  <2>3. Product(Xor(Product(p, b), Product(q, b)), c) = Xor(Product(Product(p, b), c), Product(Product(q, b), c))
    BY <2>1, ProductOfSum
  <2>4. Product(Xor(p, q), Product(b, c)) = Xor(Product(p, Product(b, c)), Product(q, Product(b, c)))
    BY <1>0, ProductOfSum
  <2> QED BY <1>3, <2>1, <2>2, <2>3, <2>4
<1> HIDE DEF G
<1>4. a \in G
  BY <1>1, <1>2, <1>3, AllPolynomials
<1> QED BY <1>4 DEF G

\* The highest place of a polynomial that is not 0.
LEMMA DegIs ==
    ASSUME NEW n \in Nat, NEW p \in SUBSET (0..n), p # Zero
    PROVE  /\ Deg(p) \in p /\ Deg(p) \in 0..n /\ \A j \in p : j \in Nat /\ j <= Deg(p)
           /\ p \in SUBSET (0..Deg(p))
<1>1. \E m \in p : \A j \in p : j <= m
  BY HighestBit DEF Zero
<1>2. Deg(p) \in p /\ \A j \in p : j <= Deg(p)
  BY <1>1 DEF Deg
<1>3. \A j \in p : j \in 0..n
  OBVIOUS
<1>4. Deg(p) \in 0..n /\ \A j \in p : j \in 0..Deg(p)
  <2> DEFINE g == Deg(p)
  <2>1. g \in 0..n /\ \A j \in p : j <= g
    BY <1>2, <1>3
  <2> HIDE DEF g
  <2>2. \A j \in p : j \in 0..g
    BY ONLY <1>3, <2>1, n \in Nat
  <2> QED BY <2>1, <2>2 DEF g
<1> QED BY <1>2, <1>3, <1>4

\* A turn of the division, which takes the highest place of the rest away if
\* that is not below the divisor's.
DivisionTurn(d, s) ==
    IF s.e = Zero \/ Deg(s.e) < Deg(d) THEN s
    ELSE [c |-> Xor(s.c, {Deg(s.e) - Deg(d)}),
          e |-> Xor(s.e, Shl(d, Deg(s.e) - Deg(d)))]

\* A quotient so far and a rest.
QuotientsOf(p, d, m) ==
    {s \in [c : SUBSET (0..(m - Deg(d))), e : SUBSET (0..m)] : p = Xor(Product(s.c, d), s.e)}

\* A turn of the long division keeps that sum, and lowers the remainder.
LEMMA DivisionTurnIs ==
    ASSUME NEW m \in Nat, NEW p, NEW n \in Nat, NEW d \in SUBSET (0..n), d # Zero,
           NEW s \in QuotientsOf(p, d, m)
    PROVE  /\ DivisionTurn(d, s) \in QuotientsOf(p, d, m)
           /\ \A k \in Int : s.e \in SUBSET (0..k) =>
                 \/ DivisionTurn(d, s).e \in SUBSET (0..(k - 1))
                 \/ DivisionTurn(d, s).e \in SUBSET (0..(Deg(d) - 1))
           /\ s.e \in SUBSET (0..(Deg(d) - 1)) => DivisionTurn(d, s).e \in SUBSET (0..(Deg(d) - 1))
<1>1. /\ s \in [c : SUBSET (0..(m - Deg(d))), e : SUBSET (0..m)] /\ p = Xor(Product(s.c, d), s.e)
      /\ s.c \in SUBSET (0..(m - Deg(d))) /\ s.e \in SUBSET (0..m)
  BY DEF QuotientsOf
<1>2. Deg(d) \in d /\ Deg(d) \in Nat /\ \A j \in d : j \in Nat /\ j <= Deg(d)
  BY DegIs
<1>3. CASE s.e = Zero \/ Deg(s.e) < Deg(d)
  <2>1. DivisionTurn(d, s) = s
    BY <1>3 DEF DivisionTurn
  <2>2. s.e \in SUBSET (0..(Deg(d) - 1))
    <3>1. CASE s.e = Zero
      BY <3>1 DEF Zero
    <3>2. CASE s.e # Zero
      <4>1. Deg(s.e) \in Nat /\ \A j \in s.e : j \in Nat /\ j <= Deg(s.e)
        BY <1>1, <3>2, DegIs
      <4> QED BY <1>2, <1>3, <3>2, <4>1
    <3> QED BY <3>1, <3>2
  <2> QED BY <2>1, <2>2
<1>4. CASE s.e # Zero /\ ~(Deg(s.e) < Deg(d))
  <2> DEFINE g == Deg(s.e) - Deg(d)
             c == Xor(s.c, {g})
             e == Xor(s.e, Shl(d, g))
  <2>1. Deg(s.e) \in s.e /\ Deg(s.e) \in 0..m /\ \A j \in s.e : j \in Nat /\ j <= Deg(s.e)
    BY <1>1, <1>4, DegIs
  <2>2. g \in Nat /\ g \in 0..(m - Deg(d)) /\ Deg(d) + g = Deg(s.e)
    BY <1>2, <1>4, <2>1
  <2> HIDE DEF g
  <2>3. DivisionTurn(d, s) = [c |-> c, e |-> e]
    BY <1>4 DEF DivisionTurn, g
  <2>4. Deg(s.e) \in Shl(d, g) /\ \A j \in Shl(d, g) : j \in Nat /\ j <= Deg(s.e)
    BY <1>2, <2>2 DEF Shl
  <2>5. \A j \in e : j \in Nat /\ j <= Deg(s.e) /\ j # Deg(s.e)
    BY <2>1, <2>4 DEF Xor
  <2>6. \A j \in e : j \in 0..(Deg(s.e) - 1)
    BY <2>1, <2>5
  <2>7. c \in SUBSET (0..(m - Deg(d))) /\ e \in SUBSET (0..m)
    <3>1. c \in SUBSET (0..(m - Deg(d)))
      BY <1>1, <2>2 DEF Xor
    <3> HIDE DEF c, e
    <3>2. \A j \in e : j \in 0..m
      BY <2>1, <2>6
    <3> QED BY <3>1, <3>2
  <2>8. p = Xor(Product(c, d), e)
    <3>1. d \in Polynomial /\ s.c \in Polynomial /\ s.e \in Polynomial /\ {g} \in Polynomial /\ d \in SUBSET Nat
      <4>1. m - Deg(d) \in Int /\ m \in Int /\ n \in Int
        BY <1>2
      <4>2. d \in Polynomial /\ s.c \in Polynomial /\ s.e \in Polynomial
        BY <1>1, <4>1, WordPolynomial
      <4> QED BY <2>2, <4>2, ProductOfPower DEF Polynomial
    <3>2. Product(c, d) = Xor(Product(s.c, d), Product({g}, d)) /\ Product({g}, d) = Shl(d, g)
      BY <2>2, <3>1, ProductOfSum, ProductOfPower
    <3>3. \A x, y, z : Xor(Xor(x, z), Xor(y, z)) = Xor(x, y)
      BY DEF Xor
    <3> QED BY <1>1, <3>2, <3>3
  <2> HIDE DEF c, e
  <2>9. [c |-> c, e |-> e] \in QuotientsOf(p, d, m)
    BY <2>7, <2>8 DEF QuotientsOf
  <2>10. ASSUME NEW k \in Int, s.e \in SUBSET (0..k) PROVE e \in SUBSET (0..(k - 1))
    <3>1. Deg(s.e) <= k
      BY <2>1, <2>10
    <3> QED BY <2>1, <2>6, <3>1
  <2>11. ~(s.e \in SUBSET (0..(Deg(d) - 1)))
    BY <1>2, <1>4, <2>1
  <2> QED BY <2>3, <2>9, <2>10, <2>11
<1> QED BY <1>3, <1>4

\* A quotient and a rest below the divisor.
Divided(p, d, m, r) ==
    /\ r.c \in SUBSET (0..(m - Deg(d))) /\ r.e \in SUBSET (0..(Deg(d) - 1))
    /\ p = Xor(Product(r.c, d), r.e)

\* The division ends with that.
LEMMA LongDivisionIs ==
    ASSUME NEW m \in Nat, NEW p \in SUBSET (0..m), p # Zero, NEW n \in Nat, NEW d \in SUBSET (0..n), d # Zero
    PROVE  Divided(p, d, m, LongDivision(p, d))
<1> DEFINE S == QuotientsOf(p, d, m)
           first == [c |-> Zero, e |-> p]
           t == [si \in S \X Nat |-> DivisionTurn(d, si[1])]
           N == Deg(p) + 1
           Value(g, i) == IF i = 0 THEN first ELSE DivisionTurn(d, g[i - 1])
           after == CHOOSE g : g = [i \in 0..N |-> Value(g, i)]
<1>1. N \in Nat /\ Deg(p) \in 0..m /\ p \in SUBSET (0..Deg(p))
  BY DegIs
<1>2. Deg(d) \in Nat /\ d \in Polynomial
  <2>1. Deg(d) \in Nat
    BY DegIs
  <2>2. n \in Int
    OBVIOUS
  <2> QED BY <2>1, <2>2, WordPolynomial
<1>3. first \in S
  <2>1. Product({}, d) = {}
    BY <1>2, ProductOfZero
  <2> QED BY <2>1, XorAlgebra DEF QuotientsOf, Zero
<1>4. t \in [S \X Nat -> S]
  <2> HIDE DEF S
  <2>1. \A s \in S : DivisionTurn(d, s) \in S
    BY DivisionTurnIs DEF S
  <2> QED BY <2>1
<1>5. LongDivision(p, d) = after[N]
  BY DEF LongDivision, Repeat, DivisionTurn
<1>6. \E g : IsLoop(g, N, S, first, t)
  <2> HIDE DEF S, first, t, N
  <2> QED BY <1>1, <1>3, <1>4, LoopExists
<1>7. PICK h : IsLoop(h, N, S, first, t)
  BY <1>6
<1> HIDE DEF S, first
<1>8. h = [i \in 0..N |-> Value(h, i)]
  <2>1. h \in [0..N -> S] /\ h[0] = first /\ \A i \in 0..N : i # 0 => h[i] = t[<<h[i - 1], i - 1>>]
    BY <1>7 DEF IsLoop
  <2>2. \A i \in 0..N : i # 0 => i - 1 \in 0..N /\ i - 1 \in Nat
    BY <1>1
  <2>3. \A i \in 0..N : i # 0 => h[i - 1] \in S
    BY <2>1, <2>2
  <2>4. \A i \in 0..N : i # 0 => h[i] = DivisionTurn(d, h[i - 1])
    BY <2>1, <2>2, <2>3
  <2>5. \A i \in 0..N : h[i] = Value(h, i)
    BY <2>1, <2>4
  <2> HIDE DEF Value
  <2> QED BY <2>1, <2>5
<1>9. after = [i \in 0..N |-> Value(after, i)]
  <2> HIDE DEF Value, N
  <2> QED BY <1>8
<1> HIDE DEF after, t, N
<1> DEFINE G == {i \in 0..N : /\ after[i] \in S
                              /\ \/ after[i].e \in SUBSET (0..(Deg(p) - i))
                                 \/ after[i].e \in SUBSET (0..(Deg(d) - 1))}
<1>10. 0 \in G
  <2>1. after[0] = first /\ Deg(p) - 0 = Deg(p) /\ 0 \in 0..N
    BY <1>1, <1>9
  <2>2. first.e = p
    BY DEF first
  <2> QED BY <1>1, <1>3, <2>1, <2>2
<1>11. ASSUME NEW i \in 0..(N - 1), i \in G PROVE i + 1 \in G
  <2> HIDE DEF G
  <2>1. i + 1 \in 0..N /\ i + 1 # 0 /\ (i + 1) - 1 = i /\ Deg(p) - i \in Int /\ (Deg(p) - i) - 1 = Deg(p) - (i + 1)
    BY <1>1
  <2>2. after[i + 1] = DivisionTurn(d, after[i])
    BY <1>9, <2>1
  <2>3. after[i] \in QuotientsOf(p, d, m)
    BY <1>11 DEF S, G
  <2>4. after[i + 1] \in S
    <3>1. \A s \in QuotientsOf(p, d, m) : DivisionTurn(d, s) \in QuotientsOf(p, d, m)
      BY DivisionTurnIs
    <3> QED BY <2>2, <2>3, <3>1 DEF S
  <2>5. \/ after[i + 1].e \in SUBSET (0..(Deg(p) - (i + 1)))
        \/ after[i + 1].e \in SUBSET (0..(Deg(d) - 1))
    <3>1. \A k \in Int : after[i].e \in SUBSET (0..k) =>
             \/ DivisionTurn(d, after[i]).e \in SUBSET (0..(k - 1))
             \/ DivisionTurn(d, after[i]).e \in SUBSET (0..(Deg(d) - 1))
      BY <2>3, DivisionTurnIs
    <3>2. after[i].e \in SUBSET (0..(Deg(d) - 1)) => DivisionTurn(d, after[i]).e \in SUBSET (0..(Deg(d) - 1))
      BY <2>3, DivisionTurnIs
    <3>3. after[i].e \in SUBSET (0..(Deg(p) - i)) \/ after[i].e \in SUBSET (0..(Deg(d) - 1))
      BY <1>11 DEF G
    <3> QED BY <2>1, <2>2, <3>1, <3>2, <3>3
  <2> QED BY <2>1, <2>4, <2>5 DEF G
<1> HIDE DEF G
<1>12. N \in G
  BY <1>1, <1>10, <1>11, LoopKeeps
<1>13. Deg(p) - N = 0 - 1
  BY <1>1 DEF N
<1>14. after[N] \in S /\ after[N].e \in SUBSET (0..(Deg(d) - 1))
  <2>1. \A x \in SUBSET (0..(0 - 1)) : x = {}
    OBVIOUS
  <2> QED BY <1>12, <1>13, <2>1 DEF G
<1> QED BY <1>5, <1>14 DEF S, QuotientsOf, Divided

\* The polynomial with x^w has no factor but 1 and itself.
Irreducible(F) == \A p \in Words(F), q \in Polynomial : Product(p, q) = Whole(F) => p = One

Factor(p, q) == \E r \in Polynomial : Product(p, r) = q

\* A turn of Euclid's algorithm, and what the turns keep: the cofactors times b
\* are the remainders, and what divides both remainders divides the polynomial.
EuclidTurn(mult, s) ==
    IF s.e \in {One, Zero} THEN s
    ELSE LET d == LongDivision(s.before, s.e)
         IN  [before |-> s.e, e |-> d.e,
              yBefore |-> s.y,
              y |-> IF d.e = Zero THEN Zero
                    ELSE Xor(s.yBefore, mult[<<d.c, s.y>>])]

EuclidStates(F, b) ==
    {s \in [before : SUBSET (0..F.w), e : Words(F), yBefore : Words(F), y : Words(F)] :
        /\ s.before # Zero /\ s.e # Zero
        /\ Times(F, s.y, b) = s.e /\ Times(F, s.yBefore, b) = Reduced(F, s.before)
        /\ \A p \in Words(F) : Factor(p, s.before) /\ Factor(p, s.e) => Factor(p, Whole(F))}

\* What divides the divisor and the rest divides the dividend.
LEMMA FactorOfSum ==
    ASSUME NEW F, IsGF(F), NEW p \in Words(F), NEW c \in Words(F), NEW d \in Polynomial, NEW e,
           Factor(p, d), Factor(p, e)
    PROVE  Factor(p, Xor(Product(c, d), e))
<1>1. PICK q \in Polynomial : Product(p, q) = d
  BY DEF Factor
<1>2. PICK r \in Polynomial : Product(p, r) = e
  BY DEF Factor
<1>3. F.w - 1 \in Nat /\ p \in SUBSET (0..(F.w - 1)) /\ c \in SUBSET (0..(F.w - 1)) /\ p \in Polynomial /\ c \in Polynomial
  BY WordsAre
<1>4. Product(c, Product(p, q)) = Product(Product(c, p), q) /\ Product(Product(p, c), q) = Product(p, Product(c, q))
  BY <1>3, ProductAssociates
<1>5. Product(c, p) = Product(p, c) /\ Product(c, q) \in Polynomial
  BY <1>3, ProductCommutes, ProductPolynomial
<1>6. Product(p, Xor(Product(c, q), r)) = Xor(Product(p, Product(c, q)), Product(p, r))
  BY <1>3, <1>5, ProductOfSum
<1>7. Xor(Product(c, q), r) \in Polynomial
  BY <1>5, XorPolynomial
<1> QED BY <1>1, <1>2, <1>4, <1>5, <1>6, <1>7 DEF Factor

\* A turn keeps that, and lowers the remainder, if there are no factors to find.
LEMMA EuclidTurnIs ==
    ASSUME NEW F, IsGF(F), Irreducible(F), NEW b \in Words(F), NEW mult,
           \A s, t \in Words(F) : Called(mult, s, t) = Times(F, s, t),
           NEW s \in EuclidStates(F, b)
    PROVE  /\ EuclidTurn(mult, s) \in EuclidStates(F, b)
           /\ s.e = One => EuclidTurn(mult, s).e = One
           /\ s.e # One => \A k \in Int : s.e \in SUBSET (0..k) => EuclidTurn(mult, s).e \in SUBSET (0..(k - 1))
<1>1. /\ s \in [before : SUBSET (0..F.w), e : Words(F), yBefore : Words(F), y : Words(F)]
      /\ s.before # Zero /\ s.e # Zero
      /\ Times(F, s.y, b) = s.e /\ Times(F, s.yBefore, b) = Reduced(F, s.before)
      /\ \A p \in Words(F) : Factor(p, s.before) /\ Factor(p, s.e) => Factor(p, Whole(F))
  BY DEF EuclidStates
<1>2. CASE s.e = One
  BY <1>2 DEF EuclidTurn
<1>3. CASE s.e # One
  <2> DEFINE d == LongDivision(s.before, s.e)
             y == IF d.e = Zero THEN Zero ELSE Xor(s.yBefore, mult[<<d.c, s.y>>])
             n == [before |-> s.e, e |-> d.e, yBefore |-> s.y, y |-> y]
  <2>1. EuclidTurn(mult, s) = n
    BY <1>1, <1>3 DEF EuclidTurn
  <2>2. F.w \in Nat /\ F.w - 1 \in Nat /\ F.w >= 1 /\ s.e \in SUBSET (0..(F.w - 1)) /\ s.before \in SUBSET (0..F.w)
        /\ s.e \in Words(F) /\ s.y \in Words(F) /\ s.yBefore \in Words(F) /\ s.e \in Polynomial /\ s.before \in Polynomial
    <3>1. s.e \in Words(F) /\ s.y \in Words(F) /\ s.yBefore \in Words(F) /\ s.before \in SUBSET (0..F.w)
      BY <1>1
    <3>2. F.w \in Nat /\ F.w - 1 \in Nat /\ F.w >= 1 /\ s.e \in SUBSET (0..(F.w - 1)) /\ s.e \in Polynomial
      BY <3>1, WordsAre
    <3>3. F.w \in Int
      BY <3>2
    <3> QED BY <3>1, <3>2, <3>3, WordPolynomial
  <2>3. /\ d.c \in SUBSET (0..(F.w - Deg(s.e))) /\ d.e \in SUBSET (0..(Deg(s.e) - 1))
        /\ s.before = Xor(Product(d.c, s.e), d.e)
    <3> DEFINE p == s.before
               e == s.e
               m == F.w
               k == F.w - 1
    <3>1. m \in Nat /\ k \in Nat /\ p \in SUBSET (0..m) /\ e \in SUBSET (0..k) /\ p # Zero /\ e # Zero
      BY <1>1, <2>2
    <3> HIDE DEF p, e, m, k
    <3>2. Divided(p, e, m, LongDivision(p, e))
      BY <3>1, LongDivisionIs
    <3>3. Divided(s.before, s.e, F.w, d)
      BY <3>2 DEF p, e, m
    <3> QED BY <3>3 DEF Divided
  <2>4. Deg(s.e) \in s.e /\ Deg(s.e) \in 0..(F.w - 1) /\ \A j \in s.e : j \in Nat /\ j <= Deg(s.e)
    BY <1>1, <2>2, DegIs
  <2>5. Deg(s.e) >= 1
    <3> SUFFICES ASSUME Deg(s.e) = 0 PROVE FALSE
      BY <2>4
    <3>1. \A j \in s.e : j = 0
      BY <2>4
    <3> QED BY <1>3, <2>4, <3>1 DEF One
  <2> HIDE DEF d
  <2>6. d.c \in Words(F) /\ d.e \in Words(F)
    <3> DEFINE g == Deg(s.e)
    <3>1. g \in 1..(F.w - 1)
      BY <2>4, <2>5
    <3> HIDE DEF g
    <3>2. 0..(F.w - g) \subseteq 0..(F.w - 1) /\ 0..(g - 1) \subseteq 0..(F.w - 1)
      BY <2>2, <3>1
    <3>3. d.c \in SUBSET (0..(F.w - g)) /\ d.e \in SUBSET (0..(g - 1))
      BY <2>3 DEF g
    <3> QED BY <3>2, <3>3 DEF Words
  <2>7. ASSUME NEW p \in Words(F), Factor(p, s.e), Factor(p, d.e) PROVE Factor(p, Whole(F))
    <3>1. Factor(p, s.before)
      BY <2>2, <2>3, <2>6, <2>7, FactorOfSum
    <3> QED BY <1>1, <2>7, <3>1
  <2>8. d.e # Zero
    <3> SUFFICES ASSUME d.e = Zero PROVE FALSE
      OBVIOUS
    <3>1. Product(s.e, {0}) = s.e /\ {0} \in Polynomial
      <4>1. Product(s.e, {0}) = Shl(s.e, 0) /\ {0} \in Polynomial
        BY <2>2, ProductOfPower
      <4>2. Shl(s.e, 0) = s.e
        BY <2>2 DEF Shl
      <4> QED BY <4>1, <4>2
    <3>2. Product(s.e, {}) = {} /\ {} \in Polynomial
      BY <2>2, ProductOfZero
    <3>3. Factor(s.e, s.e) /\ Factor(s.e, Zero)
      BY <3>1, <3>2 DEF Factor, Zero
    <3>4. Factor(s.e, Whole(F))
      BY <2>2, <2>7, <3>3
    <3>5. s.e = One
      BY <2>2, <3>4 DEF Irreducible, Factor
    <3> QED BY <1>3, <3>5
  <2>9. y = Xor(s.yBefore, Times(F, d.c, s.y)) /\ y \in Words(F)
    <3>1. mult[<<d.c, s.y>>] = Times(F, d.c, s.y)
      BY <2>2, <2>6 DEF Called
    <3>2. y = Xor(s.yBefore, Times(F, d.c, s.y))
      BY <2>8, <3>1
    <3> QED BY <2>2, <2>6, <3>2, WordSums
  <2>10. Times(F, y, b) = d.e
    <3> DEFINE t == Times(F, d.c, s.y)
    <3>1. t \in Words(F) /\ Times(F, t, b) = Times(F, d.c, s.e)
      <4>1. Times(F, d.c, s.y) \in Words(F)
        BY <2>2, <2>6, WordSums
      <4>2. Times(F, Times(F, d.c, s.y), b) = Times(F, d.c, Times(F, s.y, b))
        BY <2>2, <2>6, TimesIsRing
      <4> QED BY <1>1, <4>1, <4>2
    <3> HIDE DEF t
    <3>2. Times(F, Xor(s.yBefore, t), b) = Xor(Reduced(F, s.before), Times(F, d.c, s.e))
      BY <1>1, <2>2, <3>1, TimesOfSum
    <3>3. Reduced(F, s.before) = Xor(Times(F, d.c, s.e), d.e)
      <4>1. Product(d.c, s.e) \in SUBSET (0..(2 * F.w)) /\ d.e \in SUBSET (0..(2 * F.w))
        <5>1. d.c \in SUBSET (0..(F.w - 1)) /\ s.e \in SUBSET (0..(F.w - 1)) /\ F.w - 1 \in Int /\ d.e \in SUBSET (0..(2 * F.w))
          BY <2>2, <2>6, WordsAre
        <5>2. Product(d.c, s.e) \in SUBSET (0..((F.w - 1) + (F.w - 1)))
          BY <5>1, ProductBound
        <5>3. 0..((F.w - 1) + (F.w - 1)) \subseteq 0..(2 * F.w)
          BY <2>2
        <5> QED BY <5>1, <5>2, <5>3
      <4>2. Reduced(F, Xor(Product(d.c, s.e), d.e)) = Xor(Reduced(F, Product(d.c, s.e)), Reduced(F, d.e))
        BY <4>1, ReducedSum
      <4>3. Reduced(F, d.e) = d.e
        BY <2>6, WordsAre
      <4> QED BY <2>3, <4>2, <4>3 DEF Times
    <3>4. \A u, v : Xor(Xor(u, v), u) = v
      BY DEF Xor
    <3> QED BY <2>9, <3>2, <3>3, <3>4 DEF t
  <2>11. Reduced(F, s.e) = s.e /\ s.e \in SUBSET (0..F.w)
    <3>1. Reduced(F, s.e) = s.e
      BY <2>2, WordsAre
    <3>2. 0..(F.w - 1) \subseteq 0..F.w
      BY <2>2
    <3> QED BY <2>2, <3>1, <3>2
  <2> HIDE DEF y
  <2>12. n \in EuclidStates(F, b)
    <3>1. n \in [before : SUBSET (0..F.w), e : Words(F), yBefore : Words(F), y : Words(F)]
      BY <2>2, <2>6, <2>9, <2>11
    <3>2. n.before = s.e /\ n.e = d.e /\ n.yBefore = s.y /\ n.y = y
      OBVIOUS
    <3> HIDE DEF n
    <3>3. Times(F, n.y, b) = n.e /\ Times(F, n.yBefore, b) = Reduced(F, n.before) /\ n.before # Zero /\ n.e # Zero
      BY <1>1, <2>8, <2>10, <2>11, <3>2
    <3>4. \A p \in Words(F) : Factor(p, n.before) /\ Factor(p, n.e) => Factor(p, Whole(F))
      BY <2>7, <3>2
    <3> QED BY <3>1, <3>3, <3>4 DEF EuclidStates
  <2>13. ASSUME NEW k \in Int, s.e \in SUBSET (0..k) PROVE d.e \in SUBSET (0..(k - 1))
    <3> DEFINE g == Deg(s.e)
    <3>1. g \in Nat /\ g <= k /\ d.e \in SUBSET (0..(g - 1))
      BY <2>3, <2>4, <2>13
    <3> HIDE DEF g
    <3>2. 0..(g - 1) \subseteq 0..(k - 1)
      BY <3>1
    <3> QED BY <3>1, <3>2
  <2>14. n.e = d.e
    OBVIOUS
  <2> HIDE DEF n
  <2> QED BY <1>3, <2>1, <2>12, <2>13, <2>14
<1> QED BY <1>2, <1>3

\* Euclid's algorithm finds the inverse of every word that is not 0, where the
\* polynomial has no factors: gf_w4_euclid, gf_w8_euclid, gf_w16_euclid and
\* gf_wgen_euclid.
THEOREM EuclidIsInverse ==
    ASSUME NEW F, IsGF(F), Irreducible(F), NEW b \in Words(F), b # Zero, NEW mult,
           \A s, t \in Words(F) : Called(mult, s, t) = Times(F, s, t)
    PROVE  /\ EuclidInverse(F, b, mult) \in Words(F)
           /\ Times(F, EuclidInverse(F, b, mult), b) = One
<1> DEFINE S == EuclidStates(F, b)
           first == [before |-> Whole(F), e |-> b, yBefore |-> Zero, y |-> One]
           t == [si \in S \X Nat |-> EuclidTurn(mult, si[1])]
           N == 2 * F.w
           Value(g, i) == IF i = 0 THEN first ELSE EuclidTurn(mult, g[i - 1])
           after == CHOOSE g : g = [i \in 0..N |-> Value(g, i)]
<1>1. N \in Nat /\ F.w \in Nat /\ F.w >= 1 /\ b \in SUBSET (0..(F.w - 1))
  BY WordsAre
<1>2. first \in S
  <2>1. 0 \in 0..F.w /\ Shl(Whole(F), 0) \in SUBSET (0..(F.w + 0)) /\ Reduced(F, Shl(Whole(F), 0)) = Zero
    BY <1>1, WholeIsZero
  <2>2. F.poly \subseteq Nat
    BY DEF IsGF
  <2>3. Shl(Whole(F), 0) = Whole(F)
    BY <1>1, <2>2 DEF Shl, Whole
  <2>4. Whole(F) \in SUBSET (0..F.w) /\ Reduced(F, Whole(F)) = Zero /\ Whole(F) # Zero
    <3>1. F.w + 0 = F.w
      BY <1>1
    <3>2. F.w \in Whole(F)
      BY DEF Whole
    <3> QED BY <2>1, <2>3, <3>1, <3>2 DEF Zero
  <2>5. Times(F, One, b) = b /\ Times(F, Zero, b) = Zero /\ Zero \in Words(F) /\ One \in Words(F)
    BY TimesIsRing, TimesZero, ZeroOneWords
  <2>6. first \in [before : SUBSET (0..F.w), e : Words(F), yBefore : Words(F), y : Words(F)]
    BY <2>4, <2>5
  <2>7. first.before = Whole(F) /\ first.e = b /\ first.yBefore = Zero /\ first.y = One
    OBVIOUS
  <2> HIDE DEF first
  <2> QED BY <2>4, <2>5, <2>6, <2>7 DEF EuclidStates
<1>3. \A s \in S : EuclidTurn(mult, s) \in S
  BY EuclidTurnIs
<1>4. t \in [S \X Nat -> S]
  <2> HIDE DEF S
  <2> QED BY <1>3
<1>5. EuclidInverse(F, b, mult) = after[N].y
  BY DEF EuclidInverse, Repeat, EuclidTurn
<1>6. \E g : IsLoop(g, N, S, first, t)
  <2> HIDE DEF S, first, t, N
  <2> QED BY <1>1, <1>2, <1>4, LoopExists
<1>7. PICK h : IsLoop(h, N, S, first, t)
  BY <1>6
<1>8. first.e = b
  OBVIOUS
<1> HIDE DEF S, first
<1>9. h = [i \in 0..N |-> Value(h, i)]
  <2>1. h \in [0..N -> S] /\ h[0] = first /\ \A i \in 0..N : i # 0 => h[i] = t[<<h[i - 1], i - 1>>]
    BY <1>7 DEF IsLoop
  <2>2. \A i \in 0..N : i # 0 => i - 1 \in 0..N /\ i - 1 \in Nat
    BY <1>1
  <2>3. \A i \in 0..N : i # 0 => h[i - 1] \in S
    BY <2>1, <2>2
  <2>4. \A i \in 0..N : i # 0 => h[i] = EuclidTurn(mult, h[i - 1])
    BY <2>1, <2>2, <2>3
  <2>5. \A i \in 0..N : h[i] = Value(h, i)
    BY <2>1, <2>4
  <2> HIDE DEF Value
  <2> QED BY <2>1, <2>5
<1>10. after = [i \in 0..N |-> Value(after, i)]
  <2> HIDE DEF Value, N
  <2> QED BY <1>9
<1> HIDE DEF after, t, N
<1> DEFINE G == {i \in 0..N : after[i] \in S /\ (after[i].e = One \/ after[i].e \in SUBSET (0..(F.w - 1 - i)))}
<1>11. 0 \in G
  <2>1. after[0] = first /\ F.w - 1 - 0 = F.w - 1 /\ 0 \in 0..N
    BY <1>1, <1>10
  <2> QED BY <1>1, <1>2, <1>8, <2>1
<1>12. ASSUME NEW i \in 0..(N - 1), i \in G PROVE i + 1 \in G
  <2> HIDE DEF G
  <2>1. i + 1 \in 0..N /\ i + 1 # 0 /\ (i + 1) - 1 = i /\ F.w - 1 - i \in Int /\ (F.w - 1 - i) - 1 = F.w - 1 - (i + 1)
    BY <1>1
  <2>2. after[i + 1] = EuclidTurn(mult, after[i])
    BY <1>10, <2>1
  <2>3. after[i] \in EuclidStates(F, b) /\ (after[i].e = One \/ after[i].e \in SUBSET (0..(F.w - 1 - i)))
    BY <1>12 DEF S, G
  <2>4. /\ after[i].e = One => EuclidTurn(mult, after[i]).e = One
        /\ after[i].e # One => \A k \in Int : after[i].e \in SUBSET (0..k) => EuclidTurn(mult, after[i]).e \in SUBSET (0..(k - 1))
    <3> DEFINE s == after[i]
    <3>1. s \in EuclidStates(F, b)
      BY <2>3
    <3> HIDE DEF s
    <3>2. /\ s.e = One => EuclidTurn(mult, s).e = One
          /\ s.e # One => \A k \in Int : s.e \in SUBSET (0..k) => EuclidTurn(mult, s).e \in SUBSET (0..(k - 1))
      BY <3>1, EuclidTurnIs
    <3> QED BY <3>2 DEF s
  <2>5. after[i + 1] \in S
    BY <1>3, <2>2, <2>3 DEF S
  <2> QED BY <2>1, <2>2, <2>3, <2>4, <2>5 DEF G
<1> HIDE DEF G
<1>13. N \in G
  BY <1>1, <1>11, <1>12, LoopKeeps
<1>14. after[N] \in S /\ after[N].e = One
  <2>1. after[N] \in S /\ (after[N].e = One \/ after[N].e \in SUBSET (0..(F.w - 1 - N)))
    BY <1>13 DEF G
  <2>2. \A x \in SUBSET (0..(F.w - 1 - N)) : x = Zero
    BY <1>1 DEF N, Zero
  <2>3. after[N].e # Zero
    BY <2>1 DEF S, EuclidStates
  <2> QED BY <2>1, <2>2, <2>3
<1> QED BY <1>5, <1>14 DEF S, EuclidStates

=============================================================================
