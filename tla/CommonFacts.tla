---------------------------- MODULE CommonFacts ----------------------------
(* Lemmas that several components' proofs need: lists without repetition,   *)
(* least numbers, powers of two, loops, and counting.                       *)
EXTENDS Integers, SequencesExt, SequenceTheorems, FiniteSetTheorems, WellFoundedInduction, TLAPS

-----------------------------------------------------------------------------
(* Lists: what is in one after an operation on it. *)

LEMMA EmptyList == ToSet(<<>>) = {} /\ IsInjective(<<>>) /\ \A S : <<>> \in Seq(S)
BY DEF ToSet, IsInjective

LEMMA ElementsOfSeq ==
    ASSUME NEW S, NEW s \in Seq(S)
    PROVE  /\ ToSet(s) = {s[i] : i \in 1 .. Len(s)}
           /\ ToSet(s) \subseteq S
           /\ IsInjective(s) <=> \A i, j \in 1 .. Len(s) : s[i] = s[j] => i = j
<1>1. DOMAIN s = 1 .. Len(s) /\ \A i \in 1 .. Len(s) : s[i] \in S
  BY LenProperties, ElementOfSeq
<1> QED BY <1>1 DEF ToSet, IsInjective

\* One element taken out.
LEMMA RemoveOne ==
    ASSUME NEW S, NEW s \in Seq(S), IsInjective(s), NEW c \in ToSet(s)
    PROVE  LET r == RemoveFirst(s, c)
           IN r \in Seq(S) /\ IsInjective(r) /\ ToSet(r) = ToSet(s) \ {c}
<1> DEFINE n == Len(s)
<1>0. n \in Nat /\ \A i, j \in 1 .. n : s[i] = s[j] => i = j
  BY ElementsOfSeq, LenProperties
<1>1. PICK k \in 1 .. n : s[k] = c
  BY ElementsOfSeq
<1>2. {i \in 1 .. n : s[i] = c} = {k}
  BY <1>0, <1>1
<1>3. SelectInSeq(s, LAMBDA v : v = c) = k
  BY <1>0, <1>1, <1>2 DEF SelectInSeq, Min
<1> DEFINE a == SubSeq(s, 1, k - 1)
           b == SubSeq(s, k + 1, n)
<1>4. RemoveFirst(s, c) = a \o b
  BY <1>1, <1>3 DEF RemoveFirst, RemoveAt
<1>5. /\ a \in Seq(S) /\ Len(a) = k - 1
      /\ \A i \in 1 .. k - 1 : a[i] = s[i]
  BY <1>0, <1>1, SubSeqProperties, ElementOfSeq
<1>6. /\ b \in Seq(S) /\ Len(b) = n - k
      /\ \A i \in 1 .. n - k : b[i] = s[i + k]
  BY <1>0, <1>1, SubSeqProperties, ElementOfSeq
<1> HIDE DEF a, b, n
<1> DEFINE w == a \o b
<1>7. /\ w \in Seq(S) /\ Len(w) = n - 1
      /\ \A i \in 1 .. n - 1 : w[i] = IF i < k THEN s[i] ELSE s[i + 1]
  <2>1. w \in Seq(S) /\ Len(w) = Len(a) + Len(b)
        /\ \A i \in 1 .. Len(a) + Len(b) : w[i] = IF i <= Len(a) THEN a[i] ELSE b[i - Len(a)]
    BY <1>5, <1>6, ConcatProperties
  <2> QED BY <2>1, <1>0, <1>1, <1>5, <1>6
<1> HIDE DEF w
<1>8. \A i, j \in 1 .. n - 1 : w[i] = w[j] => i = j
  BY <1>0, <1>1, <1>7
<1>9. {w[i] : i \in 1 .. n - 1} = {s[i] : i \in 1 .. n} \ {c}
  <2>1. ASSUME NEW i \in 1 .. n - 1
        PROVE  w[i] \in {s[j] : j \in 1 .. n} /\ w[i] # c
    BY <1>0, <1>1, <1>7
  <2>2. ASSUME NEW j \in 1 .. n, j # k
        PROVE  \E i \in 1 .. n - 1 : w[i] = s[j]
    <3>1. CASE j < k
      BY <3>1, <1>0, <1>1, <1>7
    <3>2. CASE j > k
      <4>1. j - 1 \in 1 .. n - 1 /\ w[j - 1] = s[j]
        BY <3>2, <1>0, <1>1, <1>7
      <4> QED BY <4>1
    <3> QED BY <3>1, <3>2, <2>2, <1>0, <1>1
  <2> QED BY <2>1, <2>2, <1>1
<1>10. ToSet(s) = {s[i] : i \in 1 .. n}
  BY ElementsOfSeq DEF n
<1>11. ToSet(w) = {w[i] : i \in 1 .. n - 1} /\ IsInjective(w)
  BY ElementsOfSeq, <1>7, <1>8
<1> QED BY <1>4, <1>7, <1>9, <1>10, <1>11 DEF w

\* The first element taken off.
LEMMA TailOne ==
    ASSUME NEW S, NEW s \in Seq(S), s # <<>>, IsInjective(s)
    PROVE  /\ Tail(s) \in Seq(S) /\ IsInjective(Tail(s))
           /\ Head(s) \in ToSet(s)
           /\ ToSet(Tail(s)) = ToSet(s) \ {Head(s)}
<1> DEFINE n == Len(s)
           t == Tail(s)
<1>1. n \in Nat \ {0}
  BY EmptySeq, LenProperties
<1>2. /\ t \in Seq(S) /\ Len(t) = n - 1
      /\ \A i \in 1 .. n - 1 : t[i] = s[i + 1]
  BY HeadTailProperties
<1>3. Head(s) = s[1]
  OBVIOUS
<1>4. \A i, j \in 1 .. n : s[i] = s[j] => i = j
  BY ElementsOfSeq
<1>5. ToSet(s) = {s[i] : i \in 1 .. n}
  BY ElementsOfSeq
<1>6. ToSet(t) = {t[i] : i \in 1 .. n - 1}
  BY <1>2, ElementsOfSeq
<1> HIDE DEF n, t
<1>7. \A i, j \in 1 .. n - 1 : t[i] = t[j] => i = j
  BY <1>1, <1>2, <1>4
<1>8. IsInjective(t)
  BY <1>2, <1>7, ElementsOfSeq
<1>9. {t[i] : i \in 1 .. n - 1} = {s[i] : i \in 1 .. n} \ {s[1]}
  <2>1. ASSUME NEW i \in 1 .. n - 1
        PROVE  t[i] \in {s[j] : j \in 1 .. n} /\ t[i] # s[1]
    BY <1>1, <1>2, <1>4
  <2>2. ASSUME NEW j \in 1 .. n, j # 1
        PROVE  \E i \in 1 .. n - 1 : t[i] = s[j]
    <3>1. j - 1 \in 1 .. n - 1 /\ t[j - 1] = s[j]
      BY <1>1, <1>2, <2>2
    <3> QED BY <3>1
  <2> QED BY <2>1, <2>2
<1>10. s[1] \in {s[i] : i \in 1 .. n}
  BY <1>1
<1>11. t \in Seq(S) /\ IsInjective(t) /\ Head(s) \in ToSet(s)
       /\ ToSet(t) = ToSet(s) \ {Head(s)}
  BY <1>2, <1>3, <1>5, <1>6, <1>8, <1>9, <1>10
<1> QED BY <1>11 DEF t

\* One list before another.
LEMMA InFront ==
    ASSUME NEW S, NEW s \in Seq(S), NEW t \in Seq(S),
           IsInjective(s), IsInjective(t), ToSet(s) \cap ToSet(t) = {}
    PROVE  /\ s \o t \in Seq(S) /\ IsInjective(s \o t)
           /\ ToSet(s \o t) = ToSet(s) \cup ToSet(t)
<1> DEFINE m == Len(s)
           n == Len(t)
           w == s \o t
<1>1. m \in Nat /\ n \in Nat
  BY LenProperties
<1>2. /\ w \in Seq(S) /\ Len(w) = m + n
      /\ \A i \in 1 .. m + n : w[i] = IF i <= m THEN s[i] ELSE t[i - m]
  BY ConcatProperties
<1>3. /\ ToSet(s) = {s[i] : i \in 1 .. m} /\ \A i, j \in 1 .. m : s[i] = s[j] => i = j
      /\ ToSet(t) = {t[i] : i \in 1 .. n} /\ \A i, j \in 1 .. n : t[i] = t[j] => i = j
  BY ElementsOfSeq
<1>4. /\ ToSet(w) = {w[i] : i \in 1 .. m + n}
      /\ IsInjective(w) <=> \A i, j \in 1 .. m + n : w[i] = w[j] => i = j
  BY <1>2, ElementsOfSeq
<1> HIDE DEF m, n, w
<1>5. ASSUME NEW i \in 1 .. m + n, NEW j \in 1 .. m + n, w[i] = w[j]
      PROVE  i = j
  <2>1. CASE i <= m /\ j <= m
    <3>1. i \in 1 .. m /\ j \in 1 .. m /\ s[i] = s[j]
      BY <2>1, <1>1, <1>2, <1>5
    <3> QED BY <3>1, <1>3
  <2>2. CASE i > m /\ j > m
    <3>1. i - m \in 1 .. n /\ j - m \in 1 .. n /\ t[i - m] = t[j - m]
      BY <2>2, <1>1, <1>2, <1>5
    <3>2. i - m = j - m
      BY <3>1, <1>3
    <3> QED BY <3>2, <1>1
  <2>3. CASE i <= m /\ j > m
    <3>1. i \in 1 .. m /\ j - m \in 1 .. n /\ s[i] = t[j - m]
      BY <2>3, <1>1, <1>2, <1>5
    <3> QED BY <3>1, <1>3
  <2>4. CASE i > m /\ j <= m
    <3>1. j \in 1 .. m /\ i - m \in 1 .. n /\ s[j] = t[i - m]
      BY <2>4, <1>1, <1>2, <1>5
    <3> QED BY <3>1, <1>3
  <2> QED BY <2>1, <2>2, <2>3, <2>4, <1>1
<1>6. {w[i] : i \in 1 .. m + n} = {s[i] : i \in 1 .. m} \cup {t[i] : i \in 1 .. n}
  <2>1. ASSUME NEW i \in 1 .. m + n
        PROVE  w[i] \in {s[j] : j \in 1 .. m} \cup {t[j] : j \in 1 .. n}
    <3>1. CASE i <= m
      BY <3>1, <1>1, <1>2
    <3>2. CASE i > m
      <4>1. i - m \in 1 .. n /\ w[i] = t[i - m]
        BY <3>2, <1>1, <1>2
      <4> QED BY <4>1
    <3> QED BY <3>1, <3>2, <1>1
  <2>2. ASSUME NEW i \in 1 .. m
        PROVE  i \in 1 .. m + n /\ w[i] = s[i]
    BY <1>1, <1>2
  <2>3. ASSUME NEW i \in 1 .. n
        PROVE  i + m \in 1 .. m + n /\ w[i + m] = t[i]
    BY <1>1, <1>2
  <2> QED BY <2>1, <2>2, <2>3
<1> QED BY <1>2, <1>3, <1>4, <1>5, <1>6 DEF w

\* A finite set in some order.
LEMMA InSomeOrder ==
    ASSUME NEW S, IsFiniteSet(S), NEW order \in SetToSeqs(S)
    PROVE  order \in Seq(S) /\ IsInjective(order) /\ ToSet(order) = S
<1> DEFINE n == Cardinality(S)
<1>1. n \in Nat
  BY FS_CardinalityType
<1>2. order \in [1 .. n -> S] /\ \A i, j \in 1 .. n : i # j => order[i] # order[j]
  BY DEF SetToSeqs
<1>3. order \in Seq(S) /\ Len(order) = n
  BY <1>1, <1>2
<1>4. IsFiniteSet(1 .. n) /\ Cardinality(1 .. n) = n
  BY <1>1, FS_Interval
<1>5. order \in Injection(1 .. n, S)
  BY <1>2 DEF Injection, IsInjective
<1>6. order \in Surjection(1 .. n, S)
  BY <1>4, <1>5, FS_Injection
<1>7. \A x \in S : \E i \in 1 .. n : order[i] = x
  BY <1>6 DEF Surjection
<1> HIDE DEF n
<1>8. ToSet(order) = S
  BY <1>2, <1>7 DEF ToSet
<1> QED BY <1>2, <1>3, <1>8 DEF IsInjective

\* One element more at the end.
LEMMA AppendOne ==
    ASSUME NEW S, NEW s \in Seq(S), IsInjective(s), NEW e \in S, e \notin ToSet(s)
    PROVE  /\ Append(s, e) \in Seq(S) /\ IsInjective(Append(s, e))
           /\ ToSet(Append(s, e)) = ToSet(s) \cup {e}
<1> DEFINE n == Len(s)
           w == Append(s, e)
<1>1. n \in Nat
  BY LenProperties
<1>2. /\ w \in Seq(S) /\ Len(w) = n + 1
      /\ \A i \in 1 .. n : w[i] = s[i]
      /\ w[n + 1] = e
  BY AppendProperties
<1>3. /\ ToSet(s) = {s[i] : i \in 1 .. n} /\ \A i, j \in 1 .. n : s[i] = s[j] => i = j
  BY ElementsOfSeq
<1> HIDE DEF w
<1>4. /\ ToSet(w) = {w[i] : i \in 1 .. n + 1}
      /\ IsInjective(w) <=> \A i, j \in 1 .. n + 1 : w[i] = w[j] => i = j
  BY <1>2, ElementsOfSeq
<1> HIDE DEF n
<1>5. \A i \in 1 .. n + 1 : i \in 1 .. n \/ i = n + 1
  BY <1>1
<1>6. \A i \in 1 .. n : w[i] # e
  BY <1>2, <1>3
<1>7. \A i, j \in 1 .. n + 1 : w[i] = w[j] => i = j
  BY <1>2, <1>3, <1>5, <1>6
<1>8. {w[i] : i \in 1 .. n + 1} = {s[i] : i \in 1 .. n} \cup {e}
  <2>1. n + 1 \in 1 .. n + 1 /\ \A i \in 1 .. n : i \in 1 .. n + 1
    BY <1>1
  <2> QED BY <2>1, <1>2, <1>5
<1> QED BY <1>2, <1>3, <1>4, <1>7, <1>8 DEF w, n

-----------------------------------------------------------------------------
(* Numbers. *)

\* Where induction over numbers is needed, it is by a least counterexample.
LEMMA LeastNat ==
    ASSUME NEW T \in SUBSET Nat, T # {}
    PROVE  \E x \in T : \A y \in T : x <= y
<1> DEFINE R == {ss \in Nat \X Nat : ss[1] < ss[2]}
<1>1. R = OpToRel(<, Nat)
  BY DEF OpToRel
<1>2. IsWellFoundedOn(R, Nat)
  BY <1>1, NatLessThanWellFounded
<1> HIDE DEF R
<1>3. PICK x \in T : \A y \in T : ~(<<y, x>> \in R)
  BY <1>2, WFMin
<1>4. \A y \in T : y < x => <<y, x>> \in R
  BY DEF R
<1>5. x \in Nat /\ \A y \in T : y \in Nat
  OBVIOUS
<1>6. \A y \in T : ~(y < x)
  BY <1>3, <1>4
<1> QED BY <1>5, <1>6

-----------------------------------------------------------------------------
(* Powers of two. *)

\* The sets of numbers up to n + 1 are those up to n, with and without n + 1.
LEMMA PowNext ==
    ASSUME NEW n \in Nat
    PROVE  2^n \in Nat /\ 2^(n + 1) = 2 * 2^n
<1> DEFINE I == 1 .. n
           A == SUBSET I
           B == {X \cup {n + 1} : X \in A}
           C == SUBSET (1 .. n + 1)
<1>1. IsFiniteSet(I) /\ Cardinality(I) = n
  BY FS_Interval
<1>2. IsFiniteSet(1 .. n + 1) /\ Cardinality(1 .. n + 1) = n + 1
  BY FS_Interval
<1>3. IsFiniteSet(A) /\ Cardinality(A) = 2^n
  BY <1>1, FS_SUBSET
<1>4. IsFiniteSet(C) /\ Cardinality(C) = 2^(n + 1)
  BY <1>2, FS_SUBSET
<1>5. n + 1 \notin I /\ 1 .. n + 1 = I \cup {n + 1}
  OBVIOUS
<1>6. C = A \cup B /\ A \cap B = {}
  <2>1. ASSUME NEW X \in C PROVE X \in A \/ X \in B
    <3>1. CASE n + 1 \in X
      <4>1. X \ {n + 1} \in A /\ X = (X \ {n + 1}) \cup {n + 1}
        BY <1>5, <3>1
      <4> QED BY <4>1
    <3>2. CASE n + 1 \notin X
      BY <1>5, <3>2
    <3> QED BY <3>1, <3>2
  <2>2. A \subseteq C /\ B \subseteq C
    BY <1>5
  <2>3. A \cap B = {}
    BY <1>5
  <2> QED BY <2>1, <2>2, <2>3
<1>7. Cardinality(B) = Cardinality(A) /\ IsFiniteSet(B)
  <2> DEFINE f == [X \in A |-> X \cup {n + 1}]
  <2>1. f \in Bijection(A, B)
    <3>1. f \in [A -> B]
      OBVIOUS
    <3>2. \A X, Y \in A : f[X] = f[Y] => X = Y
      BY <1>5
    <3>3. \A Z \in B : \E X \in A : f[X] = Z
      OBVIOUS
    <3> HIDE DEF f, A, B
    <3> QED BY <3>1, <3>2, <3>3 DEF Bijection, Injection, Surjection, IsInjective
  <2> HIDE DEF f
  <2> QED BY <2>1, <1>3, FS_Bijection DEF ExistsBijection
<1> HIDE DEF A, B, C
<1>8. Cardinality(A \cup B) = Cardinality(A) + Cardinality(B) - Cardinality(A \cap B)
  BY <1>3, <1>7, FS_Union
<1>9. Cardinality(A \cap B) = 0 /\ Cardinality(A) \in Nat
  BY <1>3, <1>6, FS_EmptySet, FS_CardinalityType
<1> QED BY <1>3, <1>4, <1>6, <1>7, <1>8, <1>9

\* A larger power is a multiple of a smaller one.
LEMMA PowDivides ==
    ASSUME NEW i \in Nat, NEW j \in Nat, i <= j
    PROVE  2^i \in Nat \ {0} /\ \E c \in Nat \ {0} : 2^j = c * 2^i /\ (i < j => c % 2 = 0)
<1> DEFINE P(k) == 2^k > 0
           Q(k) == \E c \in Nat \ {0} : 2^(i + k) = c * 2^i /\ (k > 0 => c % 2 = 0)
           T == {k \in Nat : ~P(k)}
           U == {k \in Nat : ~Q(k)}
<1>1. \A k \in Nat : P(k)
  <2>1. P(0)
    OBVIOUS
  <2>2. ASSUME T # {} PROVE FALSE
    <3>1. PICK k \in T : \A l \in T : k <= l
      BY <2>2, LeastNat
    <3>2. k \in Nat /\ k # 0 /\ ~P(k)
      BY <2>1, <3>1
    <3>3. k - 1 \in Nat /\ k - 1 \notin T
      BY <3>1, <3>2
    <3>4. 2^(k - 1) > 0 /\ 2^((k - 1) + 1) = 2 * 2^(k - 1) /\ 2^(k - 1) \in Nat
      BY <3>3, PowNext
    <3>5. (k - 1) + 1 = k
      BY <3>2
    <3>6. 2^k = 2 * 2^(k - 1)
      BY <3>4, <3>5
    <3> QED BY <3>2, <3>4, <3>6
  <2> QED BY <2>2
<1>2. 2^i \in Nat \ {0}
  BY <1>1, PowNext
<1>3. \A k \in Nat : Q(k)
  <2>1. Q(0)
    BY <1>2
  <2>2. ASSUME U # {} PROVE FALSE
    <3>1. PICK k \in U : \A l \in U : k <= l
      BY <2>2, LeastNat
    <3>2. k \in Nat /\ k # 0 /\ ~Q(k)
      BY <2>1, <3>1
    <3>3. k - 1 \in Nat /\ k - 1 \notin U
      BY <3>1, <3>2
    <3>4. PICK c \in Nat \ {0} : 2^(i + (k - 1)) = c * 2^i
      BY <3>3
    <3>5. i + (k - 1) \in Nat /\ (i + (k - 1)) + 1 = i + k
      BY <3>2
    <3>6. 2^((i + (k - 1)) + 1) = 2 * 2^(i + (k - 1))
      BY <3>5, PowNext
    <3>7. 2^(i + k) = 2 * (c * 2^i)
      BY <3>4, <3>5, <3>6
    <3>8. 2 * (c * 2^i) = (2 * c) * 2^i /\ 2 * c \in Nat \ {0} /\ (2 * c) % 2 = 0
      BY <1>2
    <3> QED BY <3>2, <3>7, <3>8
  <2> QED BY <2>2
<1>4. j - i \in Nat /\ i + (j - i) = j /\ (i < j <=> j - i > 0)
  OBVIOUS
<1>5. Q(j - i)
  BY <1>3, <1>4
<1> HIDE DEF P, Q
<1>6. \E c \in Nat \ {0} : 2^(i + (j - i)) = c * 2^i /\ (j - i > 0 => c % 2 = 0)
  BY <1>5 DEF Q
<1> QED BY <1>2, <1>4, <1>6

\* The induction as a fact about sets: what has one number and with each the
\* next has all from there on.
LEMMA Upwards ==
    ASSUME NEW a \in Nat, NEW G, a \in G, \A k \in Nat : k >= a /\ k \in G => k + 1 \in G
    PROVE  \A k \in Nat : k >= a => k \in G
<1> DEFINE T == {k \in Nat : k >= a /\ k \notin G}
<1> SUFFICES ASSUME T # {} PROVE FALSE
  OBVIOUS
<1>0. T \in SUBSET Nat
  OBVIOUS
<1>1. PICK k \in T : \A l \in T : k <= l
  <2> HIDE DEF T
  <2> QED BY <1>0, LeastNat
<1>2. k \in Nat /\ k >= a /\ k # a
  BY <1>1
<1>3. k - 1 \in Nat /\ k - 1 >= a /\ ~(k <= k - 1) /\ (k - 1) + 1 = k
  BY <1>2
<1>4. k - 1 \notin T
  <2> HIDE DEF T
  <2> QED BY <1>1, <1>3
<1> QED BY <1>1, <1>3, <1>4

-----------------------------------------------------------------------------
(* Loops: the value after each turn. *)

\* A loop of n turns, as the recursive function it is written as.
IsLoop(g, n, S, first, t) ==
    g \in [0..n -> S] /\ g[0] = first /\ \A i \in 0..n : i # 0 => g[i] = t[<<g[i - 1], i - 1>>]

\* There is such a loop.
LEMMA LoopExists ==
    ASSUME NEW n \in Nat, NEW S, NEW first \in S, NEW t \in [S \X Nat -> S]
    PROVE  \E g : IsLoop(g, n, S, first, t)
<1> DEFINE Value(g, i) == IF i = 0 THEN first ELSE t[<<g[i - 1], i - 1>>]
           Upto(k) == \E g \in [0..k -> S] : g = [i \in 0..k |-> Value(g, i)]
           G == {k \in Nat : Upto(k)}
<1>1. 0 \in G
  <2> DEFINE g == [i \in 0..0 |-> first]
  <2>1. g \in [0..0 -> S] /\ \A i \in 0..0 : Value(g, i) = first
    OBVIOUS
  <2>2. g = [i \in 0..0 |-> Value(g, i)]
    BY <2>1
  <2>3. Upto(0)
    BY <2>1, <2>2
  <2> QED BY <2>3
<1>2. ASSUME NEW k \in Nat, k >= 0, k \in G PROVE k + 1 \in G
  <2>1. PICK g \in [0..k -> S] : g = [i \in 0..k |-> Value(g, i)]
    BY <1>2
  <2> DEFINE h == [i \in 0..(k + 1) |-> Value(g, i)]
  <2>2. ASSUME NEW i \in 0..(k + 1), i # 0 PROVE i - 1 \in 0..k /\ i - 1 \in Nat /\ g[i - 1] \in S
    <3>1. i - 1 \in 0..k /\ i - 1 \in Nat
      BY <2>2
    <3>2. g \in [0..k -> S]
      BY <2>1
    <3> QED BY <3>1, <3>2
  <2>3. h \in [0..(k + 1) -> S]
    <3>1. \A i \in 0..(k + 1) : Value(g, i) \in S
      BY <2>2
    <3> HIDE DEF Value
    <3> QED BY <3>1
  <2>4. \A i \in 0..k : h[i] = g[i]
    <3>1. \A i \in 0..k : i \in 0..(k + 1)
      OBVIOUS
    <3> HIDE DEF Value
    <3> QED BY <2>1, <3>1
  <2>5. \A i \in 0..(k + 1) : Value(h, i) = Value(g, i)
    <3> HIDE DEF h
    <3> QED BY <2>2, <2>4
  <2>6. h = [i \in 0..(k + 1) |-> Value(h, i)]
    <3>1. h = [i \in 0..(k + 1) |-> Value(g, i)]
      OBVIOUS
    <3> HIDE DEF h, Value
    <3> QED BY <2>5, <3>1
  <2> HIDE DEF h, Value
  <2>7. Upto(k + 1)
    BY <2>3, <2>6
  <2> QED BY <2>7
<1> HIDE DEF G
<1>3. n \in G
  BY <1>1, <1>2, Upwards
<1>4. PICK g \in [0..n -> S] : g = [i \in 0..n |-> Value(g, i)]
  BY <1>3 DEF G
<1>5. \A i \in 0..n : g[i] = Value(g, i)
  <2> HIDE DEF Value
  <2> QED BY <1>4
<1>6. 0 \in 0..n
  OBVIOUS
<1>7. IsLoop(g, n, S, first, t)
  BY <1>4, <1>5, <1>6 DEF IsLoop
<1> QED BY <1>7

\* What every turn keeps a loop ends with.
LEMMA LoopKeeps ==
    ASSUME NEW n \in Nat, NEW G, 0 \in G, \A i \in 0..(n - 1) : i \in G => i + 1 \in G
    PROVE  n \in G
<1> DEFINE H == {k \in Nat : k <= n => k \in G}
<1>1. 0 \in H
  OBVIOUS
<1>2. ASSUME NEW k \in Nat, k >= 0, k \in H PROVE k + 1 \in H
  <2> SUFFICES ASSUME k + 1 <= n PROVE k + 1 \in G
    OBVIOUS
  <2>1. k \in 0..(n - 1) /\ k <= n
    OBVIOUS
  <2> QED BY <1>2, <2>1
<1> HIDE DEF H
<1>3. n \in H
  BY <1>1, <1>2, Upwards
<1> QED BY <1>3 DEF H

\* Two loops, or a loop and what it is to compute, that agree turn by turn.
LEMMA LoopsAgree ==
    ASSUME NEW n \in Nat, NEW f, NEW g, f[0] = g[0],
           \A i \in 0..(n - 1) : f[i] = g[i] => f[i + 1] = g[i + 1]
    PROVE  f[n] = g[n]
<1> DEFINE G == {k \in 0..n : f[k] = g[k]}
<1>1. 0 \in G /\ \A i \in 0..(n - 1) : i \in G => i + 1 \in G
  OBVIOUS
<1> HIDE DEF G
<1>2. n \in G
  BY <1>1, LoopKeeps
<1> QED BY <1>2 DEF G

\* A step repeated without end.
LEMMA EndlessLoop ==
    ASSUME NEW S, NEW first \in S, NEW t \in [S -> S]
    PROVE  \E h \in [Nat -> S] : h[0] = first /\ \A i \in Nat : h[i + 1] = t[h[i]]
<1> DEFINE step == [si \in S \X Nat |-> t[si[1]]]
           g(n) == CHOOSE f : IsLoop(f, n, S, first, step)
           h == [n \in Nat |-> g(n)[n]]
<1>1. step \in [S \X Nat -> S] /\ \A s \in S, i \in Nat : step[<<s, i>>] = t[s]
  OBVIOUS
<1>2. ASSUME NEW n \in Nat
      PROVE  /\ g(n) \in [0..n -> S] /\ g(n)[0] = first
             /\ \A i \in 0..(n - 1) : g(n)[i + 1] = t[g(n)[i]]
  <2> HIDE DEF step
  <2>1. \E f : IsLoop(f, n, S, first, step)
    BY <1>1, LoopExists
  <2>2. IsLoop(g(n), n, S, first, step)
    BY <2>1
  <2>3. /\ g(n) \in [0..n -> S] /\ g(n)[0] = first
        /\ \A i \in 0..n : i # 0 => g(n)[i] = step[<<g(n)[i - 1], i - 1>>]
    BY <2>2 DEF IsLoop
  <2> HIDE DEF g
  <2>4. ASSUME NEW i \in 0..(n - 1) PROVE g(n)[i + 1] = t[g(n)[i]]
    <3>1. i + 1 \in 0..n /\ i + 1 # 0 /\ (i + 1) - 1 = i /\ i \in Nat /\ i \in 0..n
      OBVIOUS
    <3>2. g(n)[i + 1] = step[<<g(n)[i], i>>] /\ g(n)[i] \in S
      BY <2>3, <3>1
    <3> QED BY <1>1, <3>1, <3>2
  <2> QED BY <2>3, <2>4
<1> HIDE DEF g, step
<1>3. ASSUME NEW n \in Nat PROVE g(n)[n] \in S /\ g(n + 1)[n] = g(n)[n]
  <2>1. n \in 0..n /\ n + 1 \in Nat /\ (n + 1) - 1 = n
    OBVIOUS
  <2>2. \A i \in 0..(n - 1) : i \in 0..((n + 1) - 1)
    OBVIOUS
  <2>3. g(n + 1)[0] = g(n)[0]
    BY <1>2, <2>1
  <2>4. \A i \in 0..(n - 1) : g(n + 1)[i] = g(n)[i] => g(n + 1)[i + 1] = g(n)[i + 1]
    BY <1>2, <2>1, <2>2
  <2>5. g(n + 1)[n] = g(n)[n]
    BY <2>3, <2>4, LoopsAgree
  <2> QED BY <1>2, <2>1, <2>5
<1>4. h \in [Nat -> S]
  BY <1>3
<1>5. h[0] = first
  BY <1>2
<1>6. ASSUME NEW i \in Nat PROVE h[i + 1] = t[h[i]]
  <2>1. i + 1 \in Nat /\ i \in 0..((i + 1) - 1)
    OBVIOUS
  <2>2. g(i + 1)[i + 1] = t[g(i + 1)[i]]
    BY <1>2, <2>1
  <2> QED BY <1>3, <2>1, <2>2
<1> HIDE DEF h
<1> QED BY <1>4, <1>5, <1>6

-----------------------------------------------------------------------------
(* Counting. *)

\* A part of a finite set and what is left of it have its members between them.
LEMMA PartsCount ==
    ASSUME NEW S, IsFiniteSet(S), NEW A \in SUBSET S
    PROVE  /\ IsFiniteSet(A) /\ IsFiniteSet(S \ A)
           /\ Cardinality(A) \in Nat /\ Cardinality(S \ A) \in Nat
           /\ Cardinality(S) = Cardinality(A) + Cardinality(S \ A)
<1>1. S \cap A = A
  OBVIOUS
<1>2. IsFiniteSet(S \ A) /\ Cardinality(S \ A) = Cardinality(S) - Cardinality(S \cap A)
  BY FS_Difference
<1>3. IsFiniteSet(A)
  BY FS_Subset
<1>4. Cardinality(S) \in Nat
  BY FS_CardinalityType
<1>5. Cardinality(A) \in Nat
  BY <1>3, FS_CardinalityType
<1>6. Cardinality(S \ A) \in Nat
  <2> DEFINE B == S \ A
  <2>1. IsFiniteSet(B)
    BY <1>2
  <2> HIDE DEF B
  <2>2. Cardinality(B) \in Nat
    BY <2>1, FS_CardinalityType
  <2> QED BY <2>2 DEF B
<1>7. Cardinality(S \ A) = Cardinality(S) - Cardinality(A)
  BY <1>1, <1>2
<1>8. Cardinality(S) = Cardinality(A) + Cardinality(S \ A)
  BY <1>4, <1>5, <1>7
<1> QED BY <1>2, <1>3, <1>5, <1>6, <1>8

\* Sets without a common member: the counts add up.
LEMMA DisjointCount ==
    ASSUME NEW S, NEW T, IsFiniteSet(S), IsFiniteSet(T), S \cap T = {}
    PROVE  /\ IsFiniteSet(S \cup T) /\ Cardinality(S) \in Nat /\ Cardinality(T) \in Nat
           /\ Cardinality(S \cup T) = Cardinality(S) + Cardinality(T)
<1>1. /\ IsFiniteSet(S \cup T)
      /\ Cardinality(S \cup T) = Cardinality(S) + Cardinality(T) - Cardinality(S \cap T)
  BY FS_Union
<1>2. Cardinality(S \cap T) = 0 /\ Cardinality(S) \in Nat /\ Cardinality(T) \in Nat
  BY FS_EmptySet, FS_CardinalityType
<1> QED BY <1>1, <1>2

=============================================================================
