------------------------- MODULE KnownNodes_proofs -------------------------
(* Theorems about the nodes a daemon knows: those of the routing table, for   *)
(* any length of the ids, any nodes and any capacities, lives and delays, and *)
(* those in the file that a daemon starts from, with the id and the rate      *)
(* control it starts with, for any number of daemons, any ids and limits.     *)
EXTENDS NodeOffers, Daemon, CommonFacts

-----------------------------------------------------------------------------
(* The lowest bit of an id, and the middle of a bucket. *)

\* Every number but 0 is an odd multiple of a power of two.
LEMMA OddPart ==
    ASSUME NEW B \in Nat, NEW id \in Nat \ {0}, id < 2^B
    PROVE  \E j \in 0 .. B - 1 : (id \div 2^j) % 2 = 1 /\ id % 2^j = 0
<1> DEFINE T == {j \in Nat : id % 2^j # 0}
<1>1. \A j \in Nat : 2^j \in Nat \ {0}
  BY PowDivides
<1>2. B \in T
  <2>1. id % 2^B = id
    BY <1>1
  <2> QED BY <2>1
<1>3. PICK k \in T : \A l \in T : k <= l
  BY <1>2, LeastNat
<1>4. k \in Nat /\ k <= B /\ id % 2^k # 0
  BY <1>2, <1>3
<1>5. k # 0
  <2>1. 2^0 = 1 /\ id % 1 = 0
    OBVIOUS
  <2> QED BY <1>4, <2>1
<1>6. k - 1 \in 0 .. B - 1 /\ k - 1 \in Nat /\ k - 1 \notin T /\ (k - 1) + 1 = k
  BY <1>3, <1>4, <1>5
<1>7. id % 2^(k - 1) = 0 /\ 2^k = 2 * 2^(k - 1)
  <2>1. 2^((k - 1) + 1) = 2 * 2^(k - 1)
    BY <1>6, PowNext
  <2> QED BY <1>6, <2>1
<1> DEFINE p == 2^(k - 1)
           d == id \div p
<1>8. p \in Nat \ {0} /\ id % (2 * p) # 0 /\ id % p = 0
  BY <1>1, <1>4, <1>6, <1>7
<1> HIDE DEF p
<1>9. d \in Nat /\ id = d * p
  BY <1>8
<1>10. d % 2 = 1
  <2>1. d % 2 = 0 \/ d % 2 = 1
    BY <1>9
  <2>2. ASSUME d % 2 = 0 PROVE FALSE
    <3>1. PICK e \in Nat : d = 2 * e
      BY <1>9, <2>2
    <3>2. id = e * (2 * p)
      BY <1>8, <1>9, <3>1
    <3>3. id % (2 * p) = 0
      BY <1>8, <3>1, <3>2
    <3> QED BY <1>8, <3>3
  <2> QED BY <2>1, <2>2
<1> QED BY <1>6, <1>7, <1>10 DEF p

\* No higher power divides it.
LEMMA OddHighest ==
    ASSUME NEW id \in Nat, NEW j \in Nat, NEW k \in Nat,
           id % 2^j = 0, (id \div 2^j) % 2 = 1, id % 2^k = 0
    PROVE  k <= j
<1> SUFFICES ASSUME k > j PROVE FALSE
  OBVIOUS
<1>1. PICK c \in Nat \ {0} : 2^k = c * 2^j /\ c % 2 = 0
  BY PowDivides
<1>2. 2^j \in Nat \ {0} /\ 2^k \in Nat \ {0}
  BY PowDivides
<1> DEFINE p == 2^j
           r == 2^k
<1>3. p \in Nat \ {0} /\ r \in Nat \ {0} /\ r = c * p /\ id % p = 0 /\ id % r = 0
      /\ (id \div p) % 2 = 1
  BY <1>1, <1>2
<1> HIDE DEF p, r
<1>4. PICK d \in Nat : id = d * r
  <2>1. id \div r \in Nat /\ id = (id \div r) * r
    BY <1>3
  <2> QED BY <2>1
<1>5. PICK e \in Nat : c = 2 * e
  BY <1>1
<1>6. id = (2 * (d * e)) * p
  BY <1>3, <1>4, <1>5
<1>7. id \div p = 2 * (d * e)
  BY <1>3, <1>4, <1>5, <1>6
<1>8. d * e \in Nat
  BY <1>4, <1>5
<1> QED BY <1>3, <1>7, <1>8

LEMMA LowBitBound ==
    ASSUME NEW id \in Ids, NEW k \in 0 .. BITS, id % 2^k = 0
    PROVE  /\ LowBit(id) \in -1 .. BITS - 1 /\ LowBit(id) <= BITS - 1 - k
           /\ (id \div 2^k) % 2 = 1 => LowBit(id) = BITS - 1 - k
<1>0. /\ BITS \in Nat \ {0} /\ id \in Nat /\ 2^k \in Nat \ {0} /\ k \in Nat
      /\ 2^BITS \in Nat \ {0} /\ id < 2^BITS
  BY ConstantsAssumption, PowDivides DEF Ids
<1>1. CASE id = 0
  <2>1. 0 \div 2^k = 0
    BY <1>0
  <2> QED BY <1>0, <1>1, <2>1 DEF LowBit
<1>2. CASE id # 0
  <2> DEFINE P(i) == (id \div 2^(BITS - 1 - i)) % 2 = 1 /\ id % 2^(BITS - 1 - i) = 0
             l == LowBit(id)
  <2>1. PICK j \in 0 .. BITS - 1 : (id \div 2^j) % 2 = 1 /\ id % 2^j = 0
    BY <1>0, <1>2, OddPart
  <2>2. BITS - 1 - j \in 0 .. BITS - 1 /\ BITS - 1 - (BITS - 1 - j) = j
    BY <1>0
  <2>3. P(BITS - 1 - j)
    BY <2>1, <2>2
  <2>4. l = CHOOSE i \in 0 .. BITS - 1 : P(i)
    BY <1>2 DEF LowBit
  <2>5. l \in 0 .. BITS - 1 /\ P(l)
    BY <2>2, <2>3, <2>4
  <2> HIDE DEF l
  <2>6. BITS - 1 - l \in Nat
    BY <1>0, <2>5
  <2>7. k <= BITS - 1 - l
    BY <1>0, <2>5, <2>6, OddHighest
  <2>8. (id \div 2^k) % 2 = 1 => BITS - 1 - l <= k
    BY <1>0, <2>5, <2>6, OddHighest
  <2>9. l \in -1 .. BITS - 1 /\ l <= BITS - 1 - k
        /\ ((id \div 2^k) % 2 = 1 => l = BITS - 1 - k)
    BY <1>0, <2>5, <2>7, <2>8
  <2> QED BY <2>9 DEF l
<1> QED BY <1>1, <1>2

\* The middle of a block of 2^k ids: the block is halved, unless it is one id.
LEMMA BlockMiddle ==
    ASSUME NEW f \in Ids, NEW k \in 0 .. BITS, f % 2^k = 0,
           HasNext(f) => NextFirst(f) = f + 2^k /\ NextFirst(f) \in Ids,
           ~HasNext(f) => f + 2^k = 2^BITS
    PROVE  /\ MiddleBit(f) = BITS - k
           /\ HasMiddle(f) <=> k > 0
           /\ HasMiddle(f) => Middle(f) = f + 2^(k - 1)
<1> DEFINE p == 2^k
           m == f \div p
<1>0. /\ BITS \in Nat \ {0} /\ f \in Nat /\ p \in Nat \ {0} /\ k \in Nat /\ k <= BITS
  BY ConstantsAssumption, PowDivides DEF Ids
<1>1. m \in Nat /\ f = m * p
  <2>1. f % p = 0
    OBVIOUS
  <2> HIDE DEF p
  <2> QED BY <1>0, <2>1
<1>2. LowBit(f) \in -1 .. BITS - 1 /\ LowBit(f) <= BITS - 1 - k
      /\ (m % 2 = 1 => LowBit(f) = BITS - 1 - k)
  BY LowBitBound
<1>3. MiddleBit(f) = BITS - k
  <2>1. CASE HasNext(f)
    <3> DEFINE g == NextFirst(f)
    <3>1. g \in Ids /\ g = f + p
      BY <2>1
    <3>2. g % p = 0 /\ g \div p = m + 1
      <4> HIDE DEF p, m, g
      <4>1. g = (m + 1) * p + 0
        BY <1>0, <1>1, <3>1
      <4> QED BY <1>0, <1>1, <4>1
    <3>3. LowBit(g) \in -1 .. BITS - 1 /\ LowBit(g) <= BITS - 1 - k
          /\ ((m + 1) % 2 = 1 => LowBit(g) = BITS - 1 - k)
      BY <3>1, <3>2, LowBitBound
    <3>4. m % 2 = 1 \/ (m + 1) % 2 = 1
      BY <1>1
    <3>5. MiddleBit(f) = Maximum(LowBit(f), LowBit(g)) + 1
      BY <2>1 DEF MiddleBit
    <3> HIDE DEF g, m, p
    <3> QED BY <1>0, <1>2, <3>3, <3>4, <3>5 DEF Maximum
  <2>2. CASE ~HasNext(f)
    <3>1. MiddleBit(f) = Maximum(LowBit(f), -1) + 1
      BY <2>2 DEF MiddleBit
    <3>2. CASE k = BITS
      BY <1>0, <1>2, <3>1, <3>2 DEF Maximum
    <3>3. CASE k < BITS
      <4>1. PICK c \in Nat \ {0} : 2^BITS = c * p /\ c % 2 = 0
        BY <1>0, <3>3, PowDivides
      <4>2. m = c - 1
        <5>1. m * p + p = c * p
          BY <1>1, <2>2, <4>1
        <5> HIDE DEF m, p
        <5>2. (m + 1) * p = c * p
          BY <1>0, <1>1, <5>1
        <5>3. m + 1 = c
          BY <1>0, <1>1, <5>2
        <5> QED BY <1>1, <5>3
      <4>3. m % 2 = 1
        BY <4>1, <4>2
      <4> HIDE DEF m, p
      <4> QED BY <1>0, <1>2, <3>1, <4>3 DEF Maximum
    <3> QED BY <1>0, <3>2, <3>3
  <2> QED BY <2>1, <2>2
<1>4. HasMiddle(f) <=> k > 0
  BY <1>0, <1>3 DEF HasMiddle
<1>5. ASSUME HasMiddle(f) PROVE Middle(f) = f + 2^(k - 1)
  <2>1. BITS - 1 - MiddleBit(f) = k - 1
    BY <1>0, <1>3
  <2> QED BY <2>1 DEF Middle
<1> QED BY <1>3, <1>4, <1>5

-----------------------------------------------------------------------------
(* The buckets as the set F of their first ids. *)

\* The bucket of an id: the last one that begins at or before it.
Home(F, id) == CHOOSE f \in F : f <= id /\ \A g \in F : g <= id => g <= f

\* Where the bucket of f ends, and how many ids it has.
End(F, f) ==
    IF \E g \in F : g > f THEN CHOOSE g \in F : g > f /\ \A h \in F : h > f => g <= h
                          ELSE 2^BITS
Extent(F, f) == End(F, f) - f

Begins(F) == F \subseteq Ids /\ 0 \in F

LEMMA HomeIs ==
    ASSUME NEW F, Begins(F), NEW id \in Ids
    PROVE  /\ Home(F, id) \in F /\ Home(F, id) <= id
           /\ \A g \in F : g <= id => g <= Home(F, id)
<1> DEFINE T == {id - g : g \in {h \in F : h <= id}}
<1>1. F \subseteq Nat /\ id \in Nat /\ 0 \in F
  BY DEF Begins, Ids
<1>2. T \in SUBSET Nat /\ id \in T
  BY <1>1
<1>3. PICK d \in T : \A e \in T : d <= e
  BY <1>2, LeastNat
<1>4. PICK f \in F : f <= id /\ d = id - f
  BY <1>3
<1>5. \A g \in F : g <= id => g <= f
  <2>1. ASSUME NEW g \in F, g <= id PROVE g <= f
    <3>1. id - g \in T
      BY <2>1
    <3>2. d <= id - g
      BY <1>3, <3>1
    <3> QED BY <1>1, <1>4, <2>1, <3>2
  <2> QED BY <2>1
<1>6. \E h \in F : h <= id /\ \A g \in F : g <= id => g <= h
  BY <1>4, <1>5
<1> HIDE DEF T
<1> QED BY <1>6 DEF Home

LEMMA HomeOne ==
    ASSUME NEW F, Begins(F), NEW id \in Ids, NEW f \in F, f <= id,
           \A g \in F : g <= id => g <= f
    PROVE  f = Home(F, id)
<1>1. Home(F, id) \in F /\ Home(F, id) <= id /\ \A g \in F : g <= id => g <= Home(F, id)
  BY HomeIs
<1> DEFINE y == Home(F, id)
<1>2. f \in Nat /\ y \in Nat
  <2>1. F \subseteq Nat
    BY DEF Begins, Ids
  <2>2. y \in F
    BY <1>1
  <2> HIDE DEF y
  <2> QED BY <2>1, <2>2
<1>3. f <= y /\ y <= f
  BY <1>1
<1> HIDE DEF y
<1>4. f = y
  BY <1>2, <1>3
<1> QED BY <1>4 DEF y

LEMMA EndIs ==
    ASSUME NEW F, Begins(F), NEW f \in F
    PROVE  /\ f \in Nat /\ End(F, f) \in Nat /\ End(F, f) > f /\ End(F, f) <= 2^BITS
           /\ \A g \in F : g > f => End(F, f) \in F /\ End(F, f) <= g
<1> DEFINE later == {g \in F : g > f}
<1>1. F \subseteq Nat /\ f \in Nat /\ \A g \in F : g < 2^BITS /\ 2^BITS \in Nat
  BY ConstantsAssumption, PowDivides DEF Begins, Ids
<1>2. CASE later = {}
  <2>1. End(F, f) = 2^BITS
    BY <1>2 DEF End
  <2> QED BY <1>1, <1>2, <2>1
<1>3. CASE later # {}
  <2>1. later \in SUBSET Nat
    BY <1>1
  <2>2. PICK n \in later : \A g \in later : n <= g
    BY <1>3, <2>1, LeastNat
  <2>3. n \in F /\ n > f /\ \A h \in F : h > f => n <= h
    BY <2>2
  <2>4. End(F, f) = CHOOSE g \in F : g > f /\ \A h \in F : h > f => g <= h
    BY <2>3 DEF End
  <2>5. End(F, f) \in F /\ End(F, f) > f /\ \A h \in F : h > f => End(F, f) <= h
    BY <2>3, <2>4
  <2>6. End(F, f) \in Nat /\ End(F, f) <= 2^BITS
    <3> DEFINE e == End(F, f)
    <3>1. e \in F
      BY <2>5
    <3> HIDE DEF e
    <3>2. e \in Nat /\ e < 2^BITS /\ 2^BITS \in Nat
      BY <1>1, <3>1
    <3>3. e \in Nat /\ e <= 2^BITS
      BY <3>2
    <3> QED BY <3>3 DEF e
  <2> QED BY <1>1, <2>5, <2>6
<1> QED BY <1>2, <1>3

\* An id is in the bucket that covers it, and in no other.
LEMMA HomeCovers ==
    ASSUME NEW F, Begins(F), NEW id \in Ids, NEW f \in F
    PROVE  f = Home(F, id) <=> f <= id /\ id < End(F, f)
<1>1. F \subseteq Nat /\ id \in Nat /\ id < 2^BITS
  BY ConstantsAssumption, PowDivides DEF Begins, Ids
<1>2. Home(F, id) \in F /\ Home(F, id) <= id /\ \A g \in F : g <= id => g <= Home(F, id)
  BY HomeIs
<1>3. /\ End(F, f) \in Nat /\ End(F, f) > f
      /\ \A g \in F : g > f => End(F, f) \in F /\ End(F, f) <= g
  BY EndIs
<1>4. ASSUME f = Home(F, id) PROVE f <= id /\ id < End(F, f)
  <2>1. CASE \E g \in F : g > f
    BY <1>1, <1>2, <1>3, <1>4, <2>1
  <2>2. CASE ~\E g \in F : g > f
    BY <1>1, <1>2, <1>4, <2>2 DEF End
  <2> QED BY <2>1, <2>2
<1>5. ASSUME f <= id, id < End(F, f) PROVE f = Home(F, id)
  <2>1. \A g \in F : g <= id => g <= f
    BY <1>1, <1>3, <1>5
  <2> QED BY <1>5, <2>1, HomeOne
<1> QED BY <1>4, <1>5

\* OnlyOursIsSplit, of the set of first ids.
Block(F, f) == \E k \in 0 .. BITS : Extent(F, f) = 2^k /\ f % 2^k = 0
Beside(F, f) == Prefix(MyId, 2 * Extent(F, f)) = Prefix(f, 2 * Extent(F, f))
Layout(F) ==
    /\ Begins(F)
    /\ \A f \in F : Block(F, f) /\ (f # Home(F, MyId) => Beside(F, f))

\* Our own bucket with its second half a bucket of its own.
LEMMA HalvedLayout ==
    ASSUME NEW F, Layout(F), NEW f \in F, f = Home(F, MyId),
           NEW k \in 1 .. BITS, Extent(F, f) = 2^k, f % 2^k = 0
    PROVE  LET M == f + 2^(k - 1)
           IN  /\ M \in Ids \ F /\ Layout(F \cup {M})
               /\ \A id \in Ids : Home(F \cup {M}, id) =
                     IF Home(F, id) = f /\ M <= id THEN M ELSE Home(F, id)
<1> DEFINE h == 2^(k - 1)
           M == f + h
           G == F \cup {M}
<1>1. h \in Nat \ {0} /\ 2^k = 2 * h
  <2>1. k - 1 \in Nat /\ (k - 1) + 1 = k
    OBVIOUS
  <2>2. 2^((k - 1) + 1) = 2 * 2^(k - 1) /\ 2^(k - 1) \in Nat \ {0}
    BY <2>1, PowNext, PowDivides
  <2> QED BY <2>1, <2>2
<1>2. k - 1 \in 0 .. BITS /\ BITS \in Nat
  BY ConstantsAssumption
<1>3. Begins(F) /\ F \subseteq Nat /\ MyId \in Ids /\ Ids \subseteq Nat
  BY ConstantsAssumption DEF Layout, Begins, Ids
<1>4. /\ f \in Nat /\ End(F, f) = f + 2 * h /\ End(F, f) <= 2^BITS /\ 2^BITS \in Nat
      /\ \A g \in F : g > f => f + 2 * h <= g
  BY <1>1, <1>3, EndIs, ConstantsAssumption, PowDivides DEF Extent
<1> HIDE DEF h
<1>5. M \in Nat /\ f < M /\ M < f + 2 * h /\ M \in Ids /\ M \notin F /\ Begins(G)
  <2>1. M \in Nat /\ f < M /\ M < f + 2 * h /\ M \in Ids
    BY <1>1, <1>4 DEF Ids
  <2> HIDE DEF M
  <2>2. M \notin F
    BY <1>1, <1>3, <1>4, <2>1
  <2> QED BY <1>3, <2>1, <2>2 DEF Begins
<1> HIDE DEF M
<1>6. End(G, f) = M
  <2>1. M \in G /\ M > f /\ f \in G
    BY <1>5
  <2>2. End(G, f) \in G /\ End(G, f) <= M /\ End(G, f) > f /\ End(G, f) \in Nat
    BY <1>5, <2>1, EndIs
  <2>3. \A g \in G : g > f /\ g <= M => g = M
    <3> SUFFICES ASSUME NEW g \in F, g > f, g <= M PROVE FALSE
      OBVIOUS
    <3>1. g \in Nat /\ f + 2 * h <= g
      BY <1>3, <1>4
    <3> QED BY <1>1, <1>4, <1>5, <3>1
  <2> QED BY <2>2, <2>3
<1>7. End(G, M) = f + 2 * h
  <2>1. M \in G
    OBVIOUS
  <2>2. /\ End(G, M) \in Nat /\ End(G, M) > M /\ End(G, M) <= 2^BITS
        /\ \A g \in G : g > M => End(G, M) \in G /\ End(G, M) <= g
    BY <1>5, <2>1, EndIs
  <2>3. CASE \E g \in F : g > f
    <3>1. f + 2 * h \in F
      BY <1>3, <1>4, <2>3, EndIs
    <3>2. End(G, M) \in G /\ End(G, M) <= f + 2 * h
      BY <1>4, <1>5, <2>2, <3>1
    <3>3. \A g \in G : g > M => g >= f + 2 * h
      BY <1>3, <1>4, <1>5
    <3> QED BY <1>1, <1>4, <2>2, <3>2, <3>3
  <2>4. CASE ~\E g \in F : g > f
    <3>1. f + 2 * h = 2^BITS
      BY <1>4, <2>4 DEF End
    <3>2. ~\E g \in G : g > M
      BY <1>3, <1>5, <2>4
    <3>3. End(G, M) = 2^BITS
      BY <3>2 DEF End
    <3> QED BY <3>1, <3>3
  <2> QED BY <2>3, <2>4
<1>8. ASSUME NEW g \in F, g # f PROVE End(G, g) = End(F, g)
  <2>1. /\ g \in Nat /\ End(F, g) \in Nat /\ End(F, g) > g /\ End(F, g) <= 2^BITS
        /\ \A x \in F : x > g => End(F, g) \in F /\ End(F, g) <= x
    BY <1>3, EndIs
  <2>2. /\ End(G, g) \in Nat /\ End(G, g) > g /\ End(G, g) <= 2^BITS
        /\ \A x \in G : x > g => End(G, g) \in G /\ End(G, g) <= x
    BY <1>5, <1>8, EndIs
  <2>3. CASE g < f
    <3>1. End(F, g) \in F /\ End(F, g) <= f /\ End(G, g) \in G /\ End(G, g) <= f
      BY <1>4, <2>1, <2>2, <2>3
    <3>2. End(G, g) \in F
      BY <1>4, <1>5, <3>1
    <3> QED BY <2>1, <2>2, <3>1, <3>2
  <2>4. CASE g > f
    <3>1. g > M
      BY <1>1, <1>4, <1>5, <2>1, <2>4
    <3>2. \A x \in G : x > g => x \in F
      BY <1>5, <2>1, <3>1
    <3>3. CASE \E x \in F : x > g
      <4>1. PICK x \in F : x > g
        BY <3>3
      <4>2. x \in G /\ End(F, g) \in F /\ End(G, g) \in G
        BY <2>1, <2>2, <4>1
      <4>3. End(G, g) \in F
        BY <2>2, <3>2, <4>2
      <4>4. End(F, g) <= End(G, g) /\ End(G, g) <= End(F, g)
        BY <2>1, <2>2, <4>2, <4>3
      <4> QED BY <2>1, <2>2, <4>4
    <3>4. CASE ~\E x \in F : x > g
      <4>1. ~\E x \in G : x > g
        BY <3>2, <3>4
      <4> QED BY <3>4, <4>1 DEF End
    <3> QED BY <3>3, <3>4
  <2> QED BY <1>4, <1>8, <2>1, <2>3, <2>4
<1>9. ASSUME NEW id \in Ids
      PROVE  Home(G, id) = IF Home(F, id) = f /\ M <= id THEN M ELSE Home(F, id)
  <2> DEFINE x == Home(F, id)
  <2>1. id \in Nat /\ x \in F /\ x <= id /\ id < End(F, x) /\ x \in Nat
    BY <1>3, HomeIs, HomeCovers
  <2>2. \A y \in G : y = Home(G, id) <=> y <= id /\ id < End(G, y)
    BY <1>5, HomeCovers
  <2> HIDE DEF x
  <2>3. CASE x # f
    <3>1. x \in G /\ End(G, x) = End(F, x)
      BY <1>8, <2>1, <2>3
    <3>2. x = Home(G, id)
      BY <2>1, <2>2, <3>1
    <3> QED BY <2>3, <3>2 DEF x
  <2>4. CASE x = f /\ M <= id
    <3>1. M \in G /\ id < End(G, M)
      BY <1>4, <1>7, <2>1, <2>4
    <3>2. M = Home(G, id)
      BY <2>2, <2>4, <3>1
    <3> QED BY <2>4, <3>2 DEF x
  <2>5. CASE x = f /\ ~(M <= id)
    <3>1. f \in G /\ id < End(G, f)
      BY <1>5, <1>6, <2>1, <2>5
    <3>2. f = Home(G, id)
      BY <2>1, <2>2, <2>5, <3>1
    <3> QED BY <2>5, <3>2 DEF x
  <2> QED BY <2>3, <2>4, <2>5
<1>10. Extent(G, f) = h /\ Extent(G, M) = h
  BY <1>1, <1>4, <1>5, <1>6, <1>7 DEF Extent, M
<1>11. f % h = 0 /\ M % h = 0
  <2>1. PICK d \in Nat : f = d * (2 * h)
    <3>1. f % (2 * h) = 0 /\ 2 * h \in Nat \ {0}
      BY <1>1
    <3>2. f \div (2 * h) \in Nat /\ f = (f \div (2 * h)) * (2 * h)
      BY <1>4, <3>1
    <3> QED BY <3>2
  <2>2. f = (2 * d) * h + 0 /\ M = (2 * d + 1) * h + 0
    BY <1>1, <2>1 DEF M
  <2> QED BY <1>1, <2>1, <2>2
<1>12. Prefix(MyId, 2 * h) = Prefix(f, 2 * h) /\ Prefix(M, 2 * h) = Prefix(f, 2 * h)
  <2>1. f <= MyId /\ MyId < f + 2 * h /\ MyId \in Nat
    BY <1>3, <1>4, HomeCovers
  <2>2. PICK d \in Nat : f = d * (2 * h)
    <3>1. f % (2 * h) = 0 /\ 2 * h \in Nat \ {0}
      BY <1>1
    <3>2. f \div (2 * h) \in Nat /\ f = (f \div (2 * h)) * (2 * h)
      BY <1>4, <3>1
    <3> QED BY <3>2
  <2> DEFINE s == 2 * h
  <2>3. s \in Nat \ {0} /\ f = d * s /\ f <= MyId /\ MyId < f + s /\ f < M /\ M < f + s
    BY <1>1, <1>5, <2>1, <2>2
  <2> HIDE DEF s
  <2>4. \A x \in Nat : f <= x /\ x < f + s => x \div s = d
    <3> SUFFICES ASSUME NEW x \in Nat, f <= x, x < f + s PROVE x \div s = d
      OBVIOUS
    <3>1. x = d * s + (x - f) /\ x - f \in Nat /\ x - f < s
      BY <1>4, <2>3
    <3> QED BY <2>3, <3>1
  <2>5. MyId \div s = d /\ M \div s = d /\ f \div s = d
    BY <1>4, <1>5, <2>1, <2>3, <2>4
  <2> QED BY <2>5 DEF Prefix, s
<1>13. Block(G, f) /\ Block(G, M) /\ Beside(G, f) /\ Beside(G, M)
  <2>1. h = 2^(k - 1)
    BY DEF h
  <2> QED BY <1>2, <1>10, <1>11, <1>12, <2>1 DEF Block, Beside
<1>14. \A g \in F : g # f => Block(G, g) /\ Beside(G, g)
  BY <1>8 DEF Layout, Block, Beside, Extent
<1>15. Layout(G)
  BY <1>5, <1>13, <1>14 DEF Layout
<1> QED BY <1>5, <1>9, <1>15 DEF M, h

-----------------------------------------------------------------------------
(* What the operations on a bucket keep. *)

\* A bucket in itself: a finite number of nodes, counted and with room, no two
\* of one id.
Whole(b) ==
    /\ b \in Bucket
    /\ IsFiniteSet(b.nodes) /\ b.count = Cardinality(b.nodes) /\ b.count <= b.max
    /\ \A n, m \in b.nodes : SameNode(n, m)

\* The good nodes of S are in T as well, if not with the same record.
Kept(S, T) == \A n \in S : Good(n) => \E m \in T : m.id = n.id

\* No node in T of another id than those in S.
NoneNew(S, T) == \A m \in T : \E n \in S : m.id = n.id

LEMMA FieldsAlone ==
    ASSUME NEW b \in Bucket, NEW S \in SUBSET NodeRecord, NEW id \in Addresses
    PROVE  /\ With(b, S) \in Bucket /\ With(b, S).nodes = S /\ With(b, S).max = b.max
           /\ With(b, S).count = b.count
           /\ [b EXCEPT !.cached = id] \in Bucket /\ [b EXCEPT !.cached = id].nodes = b.nodes
           /\ [b EXCEPT !.cached = id].max = b.max /\ [b EXCEPT !.cached = id].count = b.count
           /\ [b EXCEPT !.time = 0] \in Bucket /\ [b EXCEPT !.time = 0].nodes = b.nodes
           /\ [b EXCEPT !.time = 0].max = b.max /\ [b EXCEPT !.time = 0].count = b.count
BY ConstantsAssumption DEF With, Bucket

\* As good as the same bucket: only its time and its cached candidate differ.
Alike(b, c) == c \in Bucket /\ c.nodes = b.nodes /\ c.max = b.max /\ c.count = b.count

LEMMA AlikeWhole ==
    ASSUME NEW b, NEW c, Whole(b), Alike(b, c)
    PROVE  Whole(c) /\ Full(c) = Full(b)
BY DEF Whole, Alike, Full

LEMMA AlikeOnes ==
    ASSUME NEW b \in Bucket, NEW id \in Peers, NEW confirm \in 0 .. 2
    PROVE  Alike(b, Confirmed(b, confirm)) /\ Alike(b, Uncached(b))
           /\ Alike(b, Candidate(b, id, confirm))
<1>1. /\ Alike(b, b) /\ Alike(b, [b EXCEPT !.time = 0])
      /\ \A a \in Addresses : Alike(b, [b EXCEPT !.cached = a])
  BY FieldsAlone DEF Alike, Bucket
<1>2. NoNode \in Addresses /\ id \in Addresses
  BY DEF Addresses
<1>3. Alike(b, Confirmed(b, confirm))
  BY <1>1 DEF Confirmed
<1>4. Alike(b, Uncached(b))
  BY <1>1, <1>2 DEF Uncached
<1>5. Alike(b, Candidate(b, id, confirm))
  BY <1>1, <1>2 DEF Candidate
<1> QED BY <1>3, <1>4, <1>5

LEMMA ExchangedWhole ==
    ASSUME NEW b, Whole(b), NEW n \in b.nodes, NEW m \in NodeRecord,
           \A x \in b.nodes : x # n => x.id # m.id
    PROVE  /\ Whole(Exchanged(b, n, m)) /\ Exchanged(b, n, m).nodes = (b.nodes \ {n}) \cup {m}
           /\ Exchanged(b, n, m).max = b.max /\ Exchanged(b, n, m).count = b.count
<1> DEFINE S == b.nodes \ {n}
           T == S \cup {m}
           c == Exchanged(b, n, m)
<1>1. /\ b \in Bucket /\ b.nodes \subseteq NodeRecord
      /\ IsFiniteSet(b.nodes) /\ b.count = Cardinality(b.nodes) /\ b.count <= b.max
      /\ \A x, y \in b.nodes : x.id = y.id => x = y
  BY DEF Whole, Bucket, SameNode
<1>2. m \notin S
  OBVIOUS
<1>3. IsFiniteSet(S) /\ Cardinality(S) = Cardinality(b.nodes) - 1
  BY <1>1, FS_RemoveElement
<1>4. IsFiniteSet(T) /\ Cardinality(T) = Cardinality(S) + 1
  BY <1>2, <1>3, FS_AddElement
<1>5. Cardinality(T) = Cardinality(b.nodes)
  BY <1>1, <1>3, <1>4, FS_CardinalityType
<1>6. T \in SUBSET NodeRecord /\ \A x, y \in T : x.id = y.id => x = y
  BY <1>1
<1>7. c = With(b, T)
  BY DEF Exchanged
<1> HIDE DEF T, c
<1>8. NoNode \in Addresses
  BY DEF Addresses
<1>9. c \in Bucket /\ c.nodes = T /\ c.max = b.max /\ c.count = b.count
  BY <1>1, <1>6, <1>7, <1>8, FieldsAlone
<1>10. Whole(c)
  BY <1>1, <1>4, <1>5, <1>6, <1>9 DEF Whole, SameNode
<1> QED BY <1>9, <1>10 DEF c, T

LEMMA AddedWhole ==
    ASSUME NEW b, Whole(b), ~Full(b), NEW n \in NodeRecord, \A x \in b.nodes : x.id # n.id
    PROVE  Whole(Added(b, n)) /\ Added(b, n).nodes = b.nodes \cup {n}
<1> DEFINE T == b.nodes \cup {n}
           a == [b EXCEPT !.nodes = T]
           c == [a EXCEPT !.count = a.count + 1]
<1>1. /\ b \in Bucket /\ b.nodes \subseteq NodeRecord
      /\ IsFiniteSet(b.nodes) /\ b.count = Cardinality(b.nodes) /\ b.count <= b.max
      /\ \A x, y \in b.nodes : x.id = y.id => x = y
      /\ b.count \in 0 .. MAX_COUNT /\ b.max \in MIN_COUNT .. MAX_COUNT
  BY DEF Whole, Bucket, SameNode
<1>2. n \notin b.nodes
  OBVIOUS
<1>3. IsFiniteSet(T) /\ Cardinality(T) = b.count + 1
  BY <1>1, <1>2, FS_AddElement
<1>4. T \in SUBSET NodeRecord /\ \A x, y \in T : x.id = y.id => x = y
  BY <1>1
<1>5. Added(b, n) = c
  BY DEF Added
<1> HIDE DEF T
<1>6. a \in Bucket /\ a.nodes = T /\ a.max = b.max /\ a.count = b.count
  BY <1>1, <1>4 DEF Bucket
<1> HIDE DEF a
<1>7. b.count + 1 \in 0 .. MAX_COUNT /\ b.count + 1 <= b.max
  BY <1>1, ConstantsAssumption DEF Full
<1>8. c \in Bucket /\ c.nodes = T /\ c.max = b.max /\ c.count = b.count + 1
  BY <1>6, <1>7 DEF Bucket
<1> HIDE DEF c
<1>9. Whole(c)
  BY <1>3, <1>4, <1>7, <1>8 DEF Whole, SameNode
<1> QED BY <1>5, <1>8, <1>9 DEF T

LEMMA PurgedWhole ==
    ASSUME NEW b, Whole(b)
    PROVE  Whole(Purged(b)) /\ NoneNew(b.nodes, Purged(b).nodes) /\ Kept(b.nodes, Purged(b).nodes)
<1> DEFINE dead == {n \in b.nodes : Dead(n)}
           T == b.nodes \ dead
           c == [max |-> b.max, count |-> b.count - Cardinality(dead),
                 nodes |-> T, time |-> b.time, cached |-> NoNode]
<1>1. /\ b \in Bucket /\ b.nodes \subseteq NodeRecord
      /\ IsFiniteSet(b.nodes) /\ b.count = Cardinality(b.nodes) /\ b.count <= b.max
      /\ \A x, y \in b.nodes : x.id = y.id => x = y
      /\ b.count \in 0 .. MAX_COUNT /\ b.max \in MIN_COUNT .. MAX_COUNT
      /\ b.time \in 0 .. BUCKET_LIFE + 1 /\ b.cached \in Addresses
  BY DEF Whole, Bucket, SameNode
<1>2. CASE dead = {}
  <2>1. Purged(b) = b
    BY <1>2 DEF Purged
  <2> QED BY <2>1 DEF NoneNew, Kept
<1>3. CASE dead # {}
  <2>1. Purged(b) = c
    BY <1>3 DEF Purged
  <2>2. dead \subseteq b.nodes /\ T \subseteq b.nodes
    OBVIOUS
  <2>3. \A n \in b.nodes : Good(n) => n \in T
    BY <1>1 DEF Dead, Good, NodeRecord
  <2> HIDE DEF dead
  <2>4. IsFiniteSet(dead) /\ Cardinality(dead) \in Nat /\ Cardinality(dead) <= b.count
    BY <1>1, <2>2, FS_Subset, FS_CardinalityType
  <2>5. IsFiniteSet(T) /\ Cardinality(T) = b.count - Cardinality(dead)
    <3>1. b.nodes \cap dead = dead
      BY <2>2
    <3>2. /\ IsFiniteSet(b.nodes \ dead)
          /\ Cardinality(b.nodes \ dead) = Cardinality(b.nodes) - Cardinality(b.nodes \cap dead)
      BY <1>1, FS_Difference
    <3> QED BY <1>1, <3>1, <3>2
  <2> HIDE DEF T
  <2>6. c \in Bucket /\ c.nodes = T /\ c.max = b.max /\ c.count = b.count - Cardinality(dead)
    <3>1. NoNode \in Addresses /\ T \in SUBSET NodeRecord
      BY <1>1, <2>2 DEF Addresses
    <3> QED BY <1>1, <2>4, <3>1, ConstantsAssumption DEF Bucket
  <2> HIDE DEF c
  <2>7. Whole(c)
    <3>1. c.count <= c.max
      BY <1>1, <2>4, <2>6
    <3> QED BY <1>1, <2>2, <2>5, <2>6, <3>1 DEF Whole, SameNode
  <2> QED BY <2>1, <2>2, <2>3, <2>6, <2>7 DEF NoneNew, Kept
<1> QED BY <1>2, <1>3

LEMMA NodeTypes ==
    /\ \A n \in NodeRecord : /\ PingedNode(n) \in NodeRecord /\ PingedNode(n).id = n.id
                             /\ OlderNode(n) \in NodeRecord /\ OlderNode(n).id = n.id
                             /\ BlacklistedNode(n) \in NodeRecord /\ BlacklistedNode(n).id = n.id
                             /\ \A confirm \in 0 .. 2 :
                                  /\ UpdatedNode(n, confirm) \in NodeRecord
                                  /\ UpdatedNode(n, confirm).id = n.id
    /\ \A id \in Peers, confirm \in 0 .. 2 :
         FreshNode(id, confirm) \in NodeRecord /\ FreshNode(id, confirm).id = id
<1>1. \A n \in NodeRecord : PingedNode(n) \in NodeRecord /\ PingedNode(n).id = n.id
  BY ConstantsAssumption DEF NodeRecord, PingedNode
<1>2. \A n \in NodeRecord : OlderNode(n) \in NodeRecord /\ OlderNode(n).id = n.id
  BY ConstantsAssumption DEF NodeRecord, OlderNode, Older
<1>3. \A n \in NodeRecord : [n EXCEPT !.pinged = 3] \in NodeRecord
                            /\ [n EXCEPT !.pinged = 3].id = n.id
  BY DEF NodeRecord
<1>4. \A n \in NodeRecord : BlacklistedNode(n) \in NodeRecord /\ BlacklistedNode(n).id = n.id
  BY <1>1, <1>3 DEF BlacklistedNode
<1>5. \A id \in Peers, confirm \in 0 .. 2 :
         FreshNode(id, confirm) \in NodeRecord /\ FreshNode(id, confirm).id = id
  BY ConstantsAssumption DEF NodeRecord, FreshNode
<1>6. ASSUME NEW n \in NodeRecord, NEW confirm \in 0 .. 2
      PROVE  UpdatedNode(n, confirm) \in NodeRecord /\ UpdatedNode(n, confirm).id = n.id
  <2>1. [n EXCEPT !.heard = 0] \in NodeRecord /\ [n EXCEPT !.heard = 0].id = n.id
        /\ n.id \in Peers
    BY ConstantsAssumption DEF NodeRecord
  <2> QED BY <1>5, <2>1 DEF UpdatedNode
<1> QED BY <1>1, <1>2, <1>4, <1>5, <1>6

\* The node m in the place of n, with the same id.
LEMMA ExchangedSame ==
    ASSUME NEW b, Whole(b), NEW n \in b.nodes, NEW m \in NodeRecord, m.id = n.id
    PROVE  LET c == Exchanged(b, n, m)
           IN  Whole(c) /\ NoneNew(b.nodes, c.nodes) /\ Kept(b.nodes, c.nodes) /\ Full(c) = Full(b)
<1>1. \A x \in b.nodes : x # n => x.id # m.id
  BY DEF Whole, SameNode
<1>2. /\ Whole(Exchanged(b, n, m)) /\ Exchanged(b, n, m).nodes = (b.nodes \ {n}) \cup {m}
      /\ Exchanged(b, n, m).max = b.max /\ Exchanged(b, n, m).count = b.count
  BY <1>1, ExchangedWhole
<1> QED BY <1>2 DEF NoneNew, Kept, Full

LEMMA PingedWhole ==
    ASSUME NEW b, Whole(b), NEW n \in b.nodes
    PROVE  LET c == Pinged(b, n)
           IN  Whole(c) /\ NoneNew(b.nodes, c.nodes) /\ Kept(b.nodes, c.nodes)
<1> DEFINE m == PingedNode(n)
           c == Exchanged(b, n, m)
<1>1. m \in NodeRecord /\ m.id = n.id
  BY NodeTypes DEF Whole, Bucket
<1>2. Whole(c) /\ NoneNew(b.nodes, c.nodes) /\ Kept(b.nodes, c.nodes)
  BY <1>1, ExchangedSame
<1>3. Pinged(b, n) = c \/ Pinged(b, n) = Uncached(c)
  BY DEF Pinged
<1> HIDE DEF c
<1>4. Alike(c, Uncached(c))
  <2>1. [c EXCEPT !.cached = NoNode] \in Bucket
    BY <1>2 DEF Whole, Bucket, Addresses
  <2> QED BY <1>2, <2>1 DEF Alike, Uncached, Whole, Bucket
<1>5. Whole(Uncached(c)) /\ Uncached(c).nodes = c.nodes
  BY <1>2, <1>4, AlikeWhole DEF Alike
<1> QED BY <1>2, <1>3, <1>5

LEMMA OlderWhole ==
    ASSUME NEW b, Whole(b)
    PROVE  LET c == OlderBucket(b)
           IN  Whole(c) /\ NoneNew(b.nodes, c.nodes) /\ Kept(b.nodes, c.nodes)
<1> DEFINE T == {OlderNode(n) : n \in b.nodes}
           c == OlderBucket(b)
<1>1. /\ b \in Bucket /\ b.nodes \subseteq NodeRecord
      /\ IsFiniteSet(b.nodes) /\ b.count = Cardinality(b.nodes) /\ b.count <= b.max
      /\ \A x, y \in b.nodes : x.id = y.id => x = y
      /\ b.count \in 0 .. MAX_COUNT /\ b.max \in MIN_COUNT .. MAX_COUNT
      /\ b.time \in 0 .. BUCKET_LIFE + 1 /\ b.cached \in Addresses
  BY DEF Whole, Bucket, SameNode
<1>2. \A n \in b.nodes : OlderNode(n) \in NodeRecord /\ OlderNode(n).id = n.id
  BY <1>1, NodeTypes
<1>3. IsFiniteSet(T) /\ Cardinality(T) = Cardinality(b.nodes)
  <2> DEFINE g == [n \in b.nodes |-> OlderNode(n)]
             N == b.nodes
  <2>1. g \in [N -> T] /\ \A x, y \in N : g[x] = g[y] => x = y
    BY <1>1, <1>2
  <2>2. \A z \in T : \E x \in N : g[x] = z
    OBVIOUS
  <2> HIDE DEF g, T, N
  <2>3. g \in Bijection(N, T)
    BY <2>1, <2>2 DEF Bijection, Injection, Surjection, IsInjective
  <2>4. IsFiniteSet(N)
    BY <1>1 DEF N
  <2>5. IsFiniteSet(T) /\ Cardinality(T) = Cardinality(N)
    BY <2>3, <2>4, FS_Bijection DEF ExistsBijection
  <2> QED BY <2>5 DEF N
<1>4. T \in SUBSET NodeRecord /\ \A x, y \in T : x.id = y.id => x = y
  BY <1>1, <1>2
<1>5. Older(b.time, BUCKET_LIFE) \in 0 .. BUCKET_LIFE + 1
  BY <1>1, ConstantsAssumption DEF Older
<1>6. NoneNew(b.nodes, T) /\ Kept(b.nodes, T)
  BY <1>2 DEF NoneNew, Kept
<1> DEFINE t == Older(b.time, BUCKET_LIFE)
<1>7. c = [max |-> b.max, count |-> b.count, nodes |-> T, time |-> t, cached |-> b.cached]
  BY DEF OlderBucket
<1> HIDE DEF T, t
<1>8. c \in Bucket /\ c.nodes = T /\ c.max = b.max /\ c.count = b.count
  BY <1>1, <1>4, <1>5, <1>7 DEF Bucket, t
<1> HIDE DEF c
<1>9. Whole(c)
  BY <1>1, <1>3, <1>4, <1>8 DEF Whole, SameNode
<1> QED BY <1>6, <1>8, <1>9 DEF c

LEMMA EmptiedWhole ==
    ASSUME NEW b \in Bucket
    PROVE  /\ Whole(Emptied(b, b.max)) /\ Whole(Emptied(b, Halved(b.max)))
           /\ \A max : Emptied(b, max).nodes = {}
<1>1. Halved(b.max) \in MIN_COUNT .. MAX_COUNT /\ b.max \in MIN_COUNT .. MAX_COUNT
  BY ConstantsAssumption DEF Bucket, Halved, Maximum
<1>2. IsFiniteSet({}) /\ Cardinality({}) = 0
  BY FS_EmptySet
<1>3. ASSUME NEW max \in MIN_COUNT .. MAX_COUNT PROVE Whole(Emptied(b, max))
  <2>1. NoNode \in Addresses /\ 0 <= max /\ 0 \in 0 .. MAX_COUNT /\ {} \in SUBSET NodeRecord
    BY ConstantsAssumption DEF Addresses
  <2>2. Emptied(b, max) \in Bucket /\ Emptied(b, max).nodes = {}
        /\ Emptied(b, max).count = 0 /\ Emptied(b, max).max = max
    BY <2>1 DEF Emptied, Bucket
  <2> QED BY <1>2, <2>1, <2>2 DEF Whole
<1>4. \A max : Emptied(b, max).nodes = {}
  BY DEF Emptied
<1> QED BY <1>1, <1>3, <1>4

-----------------------------------------------------------------------------
(* The table as a value: the buckets bk, and the nodes L a split has loose. *)

\* b is whole, its nodes belong where f begins, and none of them is loose.
Fits(F, L, f, b) ==
    /\ Whole(b)
    /\ \A n \in b.nodes : Home(F, n.id) = f /\ \A m \in L : m.id # n.id

Table(bk, L) ==
    /\ Layout(DOMAIN bk) /\ bk \in [DOMAIN bk -> Bucket]
    /\ \A f \in DOMAIN bk : Fits(DOMAIN bk, L, f, bk[f])
    /\ L \subseteq NodeRecord /\ \A n, m \in L : SameNode(n, m)

AllNodes(bk, L) == (UNION {bk[f].nodes : f \in DOMAIN bk}) \cup L

LEMMA InAllNodes ==
    ASSUME NEW bk, NEW L, NEW n
    PROVE  n \in AllNodes(bk, L) <=> n \in L \/ \E f \in DOMAIN bk : n \in bk[f].nodes
<1> DEFINE S == {bk[f].nodes : f \in DOMAIN bk}
<1>1. \A X : X \in S <=> \E f \in DOMAIN bk : X = bk[f].nodes
  OBVIOUS
<1>2. n \in UNION S <=> \E X \in S : n \in X
  OBVIOUS
<1>3. n \in AllNodes(bk, L) <=> n \in UNION S \/ n \in L
  BY DEF AllNodes
<1> HIDE DEF S
<1> QED BY <1>1, <1>2, <1>3

LEMMA FitsSame ==
    ASSUME NEW F, NEW L, NEW f, NEW b, NEW c, Fits(F, L, f, b), Whole(c), NoneNew(b.nodes, c.nodes)
    PROVE  Fits(F, L, f, c)
BY DEF Fits, NoneNew

LEMMA TableStep ==
    ASSUME NEW bk, NEW ck, NEW L, Table(bk, L), ck = [f \in DOMAIN bk |-> ck[f]],
           \A f \in DOMAIN bk : /\ Fits(DOMAIN bk, L, f, ck[f])
                                /\ Kept(bk[f].nodes, ck[f].nodes)
    PROVE  Table(ck, L) /\ Kept(AllNodes(bk, L), AllNodes(ck, L))
<1>1. DOMAIN ck = DOMAIN bk
  OBVIOUS
<1>2. ck \in [DOMAIN bk -> Bucket]
  BY DEF Fits, Whole
<1>3. Table(ck, L)
  BY <1>1, <1>2 DEF Table
<1>4. ASSUME NEW n \in AllNodes(bk, L), Good(n)
      PROVE  \E m \in AllNodes(ck, L) : m.id = n.id
  <2>1. CASE n \in L
    BY <2>1, InAllNodes
  <2>2. ASSUME NEW f \in DOMAIN bk, n \in bk[f].nodes PROVE \E m \in AllNodes(ck, L) : m.id = n.id
    <3>1. PICK m \in ck[f].nodes : m.id = n.id
      BY <1>4, <2>2 DEF Kept
    <3> QED BY <1>1, <3>1, InAllNodes
  <2> QED BY <1>4, <2>1, <2>2, InAllNodes
<1> QED BY <1>3, <1>4 DEF Kept

LEMMA TableOne ==
    ASSUME NEW bk, NEW L, Table(bk, L), NEW f \in DOMAIN bk, NEW c,
           Fits(DOMAIN bk, L, f, c), Kept(bk[f].nodes, c.nodes)
    PROVE  /\ Table([bk EXCEPT ![f] = c], L)
           /\ Kept(AllNodes(bk, L), AllNodes([bk EXCEPT ![f] = c], L))
<1> DEFINE ck == [bk EXCEPT ![f] = c]
<1>1. ck = [g \in DOMAIN bk |-> ck[g]] /\ ck[f] = c /\ \A g \in DOMAIN bk : g # f => ck[g] = bk[g]
  BY DEF Table
<1>2. \A g \in DOMAIN bk : Fits(DOMAIN bk, L, g, bk[g]) /\ Kept(bk[g].nodes, bk[g].nodes)
  BY DEF Table, Kept
<1> HIDE DEF ck
<1>3. \A g \in DOMAIN bk : Fits(DOMAIN bk, L, g, ck[g]) /\ Kept(bk[g].nodes, ck[g].nodes)
  BY <1>1, <1>2
<1>4. Table(ck, L) /\ Kept(AllNodes(bk, L), AllNodes(ck, L))
  BY <1>1, <1>3, TableStep
<1> QED BY <1>4 DEF ck

\* The bucket of f halved, and its nodes loose.
LEMMA TableHalved ==
    ASSUME NEW bk, NEW L, Table(bk, L), NEW f \in DOMAIN bk, NEW M, M \notin DOMAIN bk,
           Layout(DOMAIN bk \cup {M}),
           \A id \in Ids : Home(DOMAIN bk \cup {M}, id) =
                 IF Home(DOMAIN bk, id) = f /\ M <= id THEN M ELSE Home(DOMAIN bk, id),
           NEW ck, ck = [g \in DOMAIN bk \cup {M} |-> ck[g]],
           \A g \in DOMAIN bk : g # f => ck[g] = bk[g],
           Whole(ck[f]), Whole(ck[M]), ck[f].nodes = {}, ck[M].nodes = {}
    PROVE  LET K == L \cup bk[f].nodes
           IN  Table(ck, K) /\ Kept(AllNodes(bk, L), AllNodes(ck, K))
<1> DEFINE F == DOMAIN bk
           G == F \cup {M}
           K == L \cup bk[f].nodes
<1>1. DOMAIN ck = G
  OBVIOUS
<1>2. /\ \A g \in F : Fits(F, L, g, bk[g])
      /\ L \subseteq NodeRecord /\ \A n, m \in L : SameNode(n, m)
  BY DEF Table
<1>3. \A g \in F : bk[g].nodes \subseteq NodeRecord /\ Whole(bk[g])
  BY <1>2 DEF Fits, Whole, Bucket
<1>4. \A n \in NodeRecord : n.id \in Ids
  BY ConstantsAssumption DEF NodeRecord, Ids
<1> HIDE DEF F
<1>5. ASSUME NEW g \in G PROVE Fits(G, K, g, ck[g])
  <2>1. CASE g = f \/ g = M
    BY <2>1 DEF Fits
  <2>2. CASE g \in F /\ g # f
    <3>1. ck[g] = bk[g] /\ Whole(bk[g])
      BY <1>3, <2>2 DEF F
    <3>2. ASSUME NEW n \in bk[g].nodes
          PROVE  Home(G, n.id) = g /\ \A m \in K : m.id # n.id
      <4>1. Home(F, n.id) = g /\ (\A m \in L : m.id # n.id) /\ n.id \in Ids
        BY <1>2, <1>3, <1>4, <2>2 DEF Fits
      <4>2. Home(G, n.id) = g
        BY <2>2, <4>1 DEF F
      <4>3. \A m \in bk[f].nodes : m.id # n.id
        BY <1>2, <2>2, <4>1 DEF Fits, F
      <4> QED BY <4>1, <4>2, <4>3
    <3> HIDE DEF G, K
    <3> QED BY <3>1, <3>2 DEF Fits
  <2> QED BY <1>5, <2>1, <2>2
<1>6. K \subseteq NodeRecord /\ \A n, m \in K : SameNode(n, m)
  <2>1. f \in F
    BY DEF F
  <2> QED BY <1>2, <1>3, <2>1 DEF Fits, Whole, SameNode
<1>7. ck \in [G -> Bucket]
  BY <1>5 DEF Fits, Whole, F
<1> HIDE DEF K
<1>8. Table(ck, K)
  BY <1>1, <1>5, <1>6, <1>7 DEF Table, F
<1>9. AllNodes(bk, L) \subseteq AllNodes(ck, K)
  <2>1. ASSUME NEW n \in AllNodes(bk, L), n \notin K PROVE n \in AllNodes(ck, K)
    <3>1. PICK g \in F : n \in bk[g].nodes /\ g # f
      BY <2>1, InAllNodes DEF K, F
    <3>2. g \in DOMAIN ck /\ n \in ck[g].nodes
      BY <1>1, <3>1 DEF F
    <3> QED BY <3>2, InAllNodes
  <2>2. \A n \in K : n \in AllNodes(ck, K)
    BY InAllNodes
  <2> QED BY <2>1, <2>2
<1> QED BY <1>8, <1>9 DEF Kept, K

-----------------------------------------------------------------------------
(* The operators of the module in these terms. *)

LEMMA InTheseTerms ==
    ASSUME Begins(Firsts)
    PROVE  /\ \A id : FindBucket(id) = Home(Firsts, id)
           /\ \A id \in Ids : FindBucket(id) \in Firsts
           /\ \A f \in Firsts : /\ InBucket(MyId, f) <=> f = Home(Firsts, MyId)
                                /\ Size(f) = Extent(Firsts, f)
                                /\ End(Firsts, f) =
                                     IF HasNext(f) THEN NextFirst(f) ELSE 2^BITS
<1>1. \A id : FindBucket(id) = Home(Firsts, id)
  BY DEF FindBucket, Home
<1>2. ASSUME NEW id \in Ids PROVE FindBucket(id) \in Firsts
  BY <1>1, HomeIs
<1>3. ASSUME NEW f \in Firsts
      PROVE  End(Firsts, f) = IF HasNext(f) THEN NextFirst(f) ELSE 2^BITS
  BY DEF End, HasNext, NextFirst
<1>4. MyId \in Ids /\ MyId \in Nat /\ MyId < 2^BITS
  BY ConstantsAssumption, PowDivides DEF Ids
<1>5. ASSUME NEW f \in Firsts PROVE InBucket(MyId, f) <=> f = Home(Firsts, MyId)
  <2>1. f = Home(Firsts, MyId) <=> f <= MyId /\ MyId < End(Firsts, f)
    BY <1>4, HomeCovers
  <2> QED BY <1>3, <1>4, <2>1 DEF InBucket
<1>6. ASSUME NEW f \in Firsts PROVE Size(f) = Extent(Firsts, f)
  BY <1>3 DEF Size, Extent
<1> QED BY <1>1, <1>2, <1>3, <1>5, <1>6

LEMMA TableParts ==
    Table(bucket, loose) => Filed /\ Counted /\ OnlyOursIsSplit
<1> SUFFICES ASSUME Table(bucket, loose) PROVE Filed /\ Counted /\ OnlyOursIsSplit
  OBVIOUS
<1>1. Begins(Firsts) /\ Layout(Firsts) /\ \A f \in Firsts : Fits(Firsts, loose, f, bucket[f])
  BY DEF Table, Layout, Firsts
<1>2. Filed
  BY <1>1, InTheseTerms DEF Filed, Fits, Whole, Nodes, Table, SameNode
<1>3. Counted
  BY <1>1 DEF Counted, Fits, Whole, Nodes
<1>4. ASSUME NEW f \in Firsts
      PROVE  /\ \E k \in 0 .. BITS : Size(f) = 2^k /\ f % 2^k = 0
             /\ ~InBucket(MyId, f) => Prefix(MyId, 2 * Size(f)) = Prefix(f, 2 * Size(f))
  <2>1. Block(Firsts, f) /\ (f # Home(Firsts, MyId) => Beside(Firsts, f))
    BY <1>1 DEF Layout
  <2>2. Size(f) = Extent(Firsts, f) /\ (InBucket(MyId, f) <=> f = Home(Firsts, MyId))
    BY <1>1, InTheseTerms
  <2> QED BY <2>1, <2>2 DEF Block, Beside
<1> QED BY <1>2, <1>3, <1>4 DEF OnlyOursIsSplit

\* Splitting our own bucket, if it has a middle.
LEMMA SplitHalves ==
    ASSUME Table(bucket, loose), NEW f \in Firsts, InBucket(MyId, f), HasMiddle(f)
    PROVE  /\ Middle(f) \in Ids \ Firsts /\ Layout(Firsts \cup {Middle(f)})
           /\ \A id \in Ids : Home(Firsts \cup {Middle(f)}, id) =
                 IF Home(Firsts, id) = f /\ Middle(f) <= id THEN Middle(f) ELSE Home(Firsts, id)
<1>1. Layout(Firsts) /\ Begins(Firsts) /\ Firsts \subseteq Ids
  BY DEF Table, Layout, Begins, Firsts
<1>2. f = Home(Firsts, MyId) /\ Block(Firsts, f)
      /\ End(Firsts, f) = IF HasNext(f) THEN NextFirst(f) ELSE 2^BITS
  BY <1>1, InTheseTerms DEF Layout
<1>3. PICK k \in 0 .. BITS : Extent(Firsts, f) = 2^k /\ f % 2^k = 0
  BY <1>2 DEF Block
<1>4. f \in Ids /\ End(Firsts, f) = f + 2^k
  <2>1. End(Firsts, f) \in Nat /\ f \in Nat
    BY <1>1, EndIs
  <2>2. 2^k \in Nat
    BY PowDivides
  <2> QED BY <1>1, <1>3, <2>1, <2>2 DEF Extent
<1>5. HasNext(f) => NextFirst(f) = f + 2^k /\ NextFirst(f) \in Ids
  <2> SUFFICES ASSUME HasNext(f) PROVE NextFirst(f) = f + 2^k /\ NextFirst(f) \in Ids
    OBVIOUS
  <2>1. End(Firsts, f) \in Firsts
    BY <1>1, EndIs DEF HasNext
  <2> QED BY <1>1, <1>2, <1>4, <2>1
<1>6. ~HasNext(f) => f + 2^k = 2^BITS
  BY <1>2, <1>4
<1>7. k > 0 /\ Middle(f) = f + 2^(k - 1)
  BY <1>3, <1>4, <1>5, <1>6, BlockMiddle
<1>8. k \in 1 .. BITS
  BY <1>7
<1> DEFINE M == f + 2^(k - 1)
<1>9. /\ M \in Ids \ Firsts /\ Layout(Firsts \cup {M})
      /\ \A id \in Ids : Home(Firsts \cup {M}, id) =
            IF Home(Firsts, id) = f /\ M <= id THEN M ELSE Home(Firsts, id)
  BY <1>1, <1>2, <1>3, <1>8, HalvedLayout
<1> QED BY <1>7, <1>9

-----------------------------------------------------------------------------
(* The inductive invariant. *)

Others ==
    /\ blacklist \in [0 .. MAX_BLACKLISTED - 1 -> Addresses]
    /\ nextBlacklisted \in 0 .. MAX_BLACKLISTED - 1
    /\ grown \in 0 .. GROW_LIFE + 1
    /\ expireIn \in Nat /\ confirmIn \in Nat
    /\ phase \in {"idle", "calls", "split", "confirm"}
    /\ calls \in Seq([id : Peers, confirm : 0 .. 2])
    /\ messages \in 0 .. MAX_MESSAGES

\* Nodes are loose in a split alone; they are good, and so are those in the
\* buckets they belong to: only a bucket of good nodes is split.
OnlyGoodLoose ==
    /\ phase # "split" => loose = {}
    /\ \A n \in loose : Good(n) /\ \A m \in Nodes(FindBucket(n.id)) : Good(m)

IInv == Table(bucket, loose) /\ Others /\ OnlyGoodLoose

LEMMA InvFacts ==
    ASSUME IInv
    PROVE  /\ Begins(Firsts) /\ Layout(Firsts) /\ bucket \in [Firsts -> Bucket]
           /\ \A f \in Firsts : Fits(Firsts, loose, f, bucket[f]) /\ Whole(bucket[f])
           /\ \A id : FindBucket(id) = Home(Firsts, id)
           /\ \A id \in Peers : id \in Ids /\ FindBucket(id) \in Firsts
           /\ Others /\ OnlyGoodLoose
<1>1. /\ Begins(Firsts) /\ Layout(Firsts) /\ bucket \in [Firsts -> Bucket]
      /\ \A f \in Firsts : Fits(Firsts, loose, f, bucket[f])
  BY DEF IInv, Table, Layout, Firsts
<1>2. \A f \in Firsts : Whole(bucket[f])
  BY <1>1 DEF Fits
<1>3. \A id \in Peers : id \in Ids
  BY ConstantsAssumption DEF Ids
<1>4. /\ \A id : FindBucket(id) = Home(Firsts, id)
      /\ \A id \in Ids : FindBucket(id) \in Firsts
  BY <1>1, InTheseTerms
<1> QED BY <1>1, <1>2, <1>3, <1>4 DEF IInv

LEMMA InvTypes ==
    IInv => WellFormed
<1> SUFFICES ASSUME IInv PROVE WellFormed
  OBVIOUS
<1>1. TypeOK
  BY InvFacts DEF IInv, Table, Others, TypeOK, Begins, Firsts
<1>2. Filed /\ Counted /\ OnlyOursIsSplit
  BY TableParts DEF IInv
<1> QED BY <1>1, <1>2 DEF WellFormed

\* What a step makes of the table: it stays one, and no good node is lost.
Advance == Table(bucket', loose') /\ Kept(Known, Known')

LEMMA AdvanceSame ==
    ASSUME IInv, UNCHANGED <<bucket, loose>>
    PROVE  Advance
BY DEF IInv, Advance, Kept, Known, Nodes, Firsts

LEMMA AdvanceOne ==
    ASSUME IInv, NEW f \in Firsts, NEW c, bucket' = [bucket EXCEPT ![f] = c], loose' = loose,
           Fits(Firsts, loose, f, c), Kept(Nodes(f), c.nodes)
    PROVE  Advance
<1>1. Known = AllNodes(bucket, loose) /\ Known' = AllNodes(bucket', loose')
  BY DEF Known, AllNodes, Firsts, Nodes
<1>2. f \in DOMAIN bucket /\ Fits(DOMAIN bucket, loose, f, c) /\ Kept(bucket[f].nodes, c.nodes)
      /\ Table(bucket, loose)
  BY DEF Firsts, Nodes, IInv
<1>3. /\ Table([bucket EXCEPT ![f] = c], loose)
      /\ Kept(AllNodes(bucket, loose), AllNodes([bucket EXCEPT ![f] = c], loose))
  BY <1>2, TableOne
<1> QED BY <1>1, <1>3 DEF Advance

\* The same nodes, or fewer of those that are not good, with records changed.
LEMMA AdvanceSameIds ==
    ASSUME IInv, NEW f \in Firsts, NEW c, bucket' = [bucket EXCEPT ![f] = c], loose' = loose,
           Whole(c), NoneNew(Nodes(f), c.nodes), Kept(Nodes(f), c.nodes)
    PROVE  Advance
<1>1. Fits(Firsts, loose, f, bucket[f]) /\ NoneNew(bucket[f].nodes, c.nodes)
  BY InvFacts DEF Nodes
<1>2. Fits(Firsts, loose, f, c)
  BY <1>1, FitsSame
<1> QED BY <1>2, AdvanceOne

LEMMA AdvanceAll ==
    ASSUME IInv, bucket' = [f \in Firsts |-> bucket'[f]], loose' = loose,
           \A f \in Firsts : /\ Whole(bucket'[f]) /\ NoneNew(Nodes(f), bucket'[f].nodes)
                             /\ Kept(Nodes(f), bucket'[f].nodes)
    PROVE  Advance
<1>1. Known = AllNodes(bucket, loose) /\ Known' = AllNodes(bucket', loose')
  BY DEF Known, AllNodes, Firsts, Nodes
<1>2. \A f \in Firsts : Fits(Firsts, loose, f, bucket'[f])
  BY InvFacts, FitsSame DEF Nodes
<1>3. Table(bucket', loose) /\ Kept(AllNodes(bucket, loose), AllNodes(bucket', loose))
  BY <1>2, TableStep DEF IInv, Firsts, Nodes
<1> QED BY <1>1, <1>3 DEF Advance

LEMMA AsksAdvance ==
    ASSUME IInv, NEW q, Ask(q), loose' = loose
    PROVE  Advance
<1>1. PICK n \in Nodes(q) : bucket' = [bucket EXCEPT ![q] = Pinged(bucket[q], n)]
  BY DEF Ask
<1>2. CASE q \in Firsts
  <2> DEFINE c == Pinged(bucket[q], n)
  <2>1. Whole(c) /\ NoneNew(Nodes(q), c.nodes) /\ Kept(Nodes(q), c.nodes)
    BY <1>1, <1>2, InvFacts, PingedWhole DEF Nodes
  <2> HIDE DEF c
  <2>2. bucket' = [bucket EXCEPT ![q] = c]
    BY <1>1 DEF c
  <2> QED BY <1>2, <2>1, <2>2, AdvanceSameIds
<1>3. CASE q \notin Firsts
  <2>1. bucket' = bucket
    BY <1>1, <1>3, InvFacts DEF Firsts
  <2> QED BY <2>1, AdvanceSame
<1> QED BY <1>2, <1>3

-----------------------------------------------------------------------------
(* new_node *)

LEMMA CallFacts ==
    ASSUME IInv, NEW id \in Peers, NEW confirm \in 0 .. 2, NEW f \in Firsts,
           Calls(id, confirm, f)
    PROVE  /\ loose = {} /\ Home(Firsts, id) = f
           /\ Tail(calls) \in Seq([id : Peers, confirm : 0 .. 2])
           /\ LET b == Confirmed(bucket[f], confirm)
              IN  /\ Whole(b) /\ b.nodes = Nodes(f) /\ Full(b) = Full(bucket[f])
                  /\ Alike(bucket[f], b)
<1>1. loose = {} /\ Home(Firsts, id) = f
  BY InvFacts DEF Calls, OnlyGoodLoose
<1>2. Tail(calls) \in Seq([id : Peers, confirm : 0 .. 2])
  BY InvFacts DEF Calls, Others
<1>3. Whole(bucket[f]) /\ bucket[f] \in Bucket
  BY InvFacts
<1>4. Alike(bucket[f], Confirmed(bucket[f], confirm))
  BY <1>3, AlikeOnes
<1>5. Whole(Confirmed(bucket[f], confirm))
      /\ Full(Confirmed(bucket[f], confirm)) = Full(bucket[f])
  BY <1>3, <1>4, AlikeWhole
<1> QED BY <1>1, <1>2, <1>4, <1>5 DEF Alike, Nodes

LEMMA UpdateKnownAdvances ==
    ASSUME IInv, NEW id \in Peers, NEW confirm \in 0 .. 2, NEW f \in Firsts,
           Calls(id, confirm, f), UpdateKnown(id, confirm, f)
    PROVE  Advance
<1> DEFINE b == Confirmed(bucket[f], confirm)
<1>1. PICK n \in Nodes(f) : /\ loose' = loose
                            /\ bucket' = [bucket EXCEPT ![f] = Exchanged(b, n, UpdatedNode(n, confirm))]
  BY DEF UpdateKnown, Returns
<1>2. Whole(b) /\ b.nodes = Nodes(f)
  BY CallFacts
<1> HIDE DEF b
<1> DEFINE m == UpdatedNode(n, confirm)
           c == Exchanged(b, n, m)
<1>3. m \in NodeRecord /\ m.id = n.id
  BY <1>1, <1>2, NodeTypes DEF Whole, Bucket
<1> HIDE DEF m
<1>4. Whole(c) /\ NoneNew(b.nodes, c.nodes) /\ Kept(b.nodes, c.nodes)
  BY <1>1, <1>2, <1>3, ExchangedSame
<1>5. bucket' = [bucket EXCEPT ![f] = c]
  BY <1>1 DEF m
<1> HIDE DEF c
<1> QED BY <1>1, <1>2, <1>4, <1>5, AdvanceSameIds

LEMMA ReplaceBadAdvances ==
    ASSUME IInv, NEW id \in Peers, NEW confirm \in 0 .. 2, NEW f \in Firsts,
           Calls(id, confirm, f), ReplaceBad(id, confirm, f)
    PROVE  Advance
<1> DEFINE b == Confirmed(bucket[f], confirm)
           m == FreshNode(id, confirm)
<1>1. PICK n \in Nodes(f) : /\ KnownBad(n) /\ loose' = loose
                            /\ bucket' = [bucket EXCEPT ![f] = Exchanged(b, n, m)]
  BY DEF ReplaceBad, Returns
<1>2. Whole(b) /\ b.nodes = Nodes(f) /\ loose = {} /\ Home(Firsts, id) = f
  BY CallFacts
<1>3. \A x \in Nodes(f) : x.id # id
  BY DEF ReplaceBad, Unknown
<1>4. m \in NodeRecord /\ m.id = id
  BY NodeTypes
<1> HIDE DEF b, m
<1> DEFINE c == Exchanged(b, n, m)
<1>5. Whole(c) /\ c.nodes = (b.nodes \ {n}) \cup {m}
  BY <1>1, <1>2, <1>3, <1>4, ExchangedWhole
<1>6. bucket' = [bucket EXCEPT ![f] = c]
  BY <1>1
<1> HIDE DEF c
<1>7. ~Good(n)
  <2>1. n \in NodeRecord
    BY <1>1, <1>2 DEF Whole, Bucket
  <2> QED BY <1>1, <2>1 DEF KnownBad, Good, NodeRecord
<1>8. Kept(Nodes(f), c.nodes)
  BY <1>2, <1>5, <1>7 DEF Kept
<1>9. Fits(Firsts, loose, f, c)
  <2>1. \A x \in Nodes(f) : Home(Firsts, x.id) = f
    BY InvFacts DEF Fits, Nodes
  <2> QED BY <1>2, <1>4, <1>5, <2>1 DEF Fits
<1> QED BY <1>1, <1>6, <1>8, <1>9, AdvanceOne

LEMMA KeepCandidateAdvances ==
    ASSUME IInv, NEW id \in Peers, NEW confirm \in 0 .. 2, NEW f \in Firsts,
           Calls(id, confirm, f), KeepCandidate(id, confirm, f)
    PROVE  Advance
<1>1. PICK b \in AfterPing(f) :
        bucket' = [bucket EXCEPT ![f] = Candidate(Confirmed(b, confirm), id, confirm)]
        /\ loose' = loose
  BY DEF KeepCandidate, Returns
<1>2. Whole(bucket[f])
  BY InvFacts
<1>3. Whole(b) /\ NoneNew(Nodes(f), b.nodes) /\ Kept(Nodes(f), b.nodes)
  <2>1. CASE b = bucket[f]
    BY <1>2, <2>1 DEF NoneNew, Kept, Nodes
  <2>2. ASSUME NEW n \in Nodes(f), b = Exchanged(bucket[f], n, PingedNode(n))
        PROVE  Whole(b) /\ NoneNew(Nodes(f), b.nodes) /\ Kept(Nodes(f), b.nodes)
    <3>1. PingedNode(n) \in NodeRecord /\ PingedNode(n).id = n.id /\ n \in bucket[f].nodes
      BY <1>2, NodeTypes DEF Whole, Bucket, Nodes
    <3> QED BY <1>2, <2>2, <3>1, ExchangedSame DEF Nodes
  <2> QED BY <1>1, <2>1, <2>2 DEF AfterPing, Dubious
<1> DEFINE a == Confirmed(b, confirm)
           c == Candidate(a, id, confirm)
<1>4. Alike(b, a)
  BY <1>3, AlikeOnes DEF Whole
<1>5. Whole(a)
  BY <1>3, <1>4, AlikeWhole
<1> HIDE DEF a
<1>6. Alike(a, c)
  BY <1>5, AlikeOnes DEF Whole
<1>7. Whole(c) /\ c.nodes = b.nodes
  BY <1>4, <1>5, <1>6, AlikeWhole DEF Alike
<1> HIDE DEF c
<1>8. bucket' = [bucket EXCEPT ![f] = c]
  BY <1>1 DEF a, c
<1> QED BY <1>1, <1>3, <1>7, <1>8, AdvanceSameIds

LEMMA CreateNodeAdvances ==
    ASSUME IInv, NEW id \in Peers, NEW confirm \in 0 .. 2, NEW f \in Firsts,
           Calls(id, confirm, f), CreateNode(id, confirm, f)
    PROVE  Advance
<1> DEFINE b == Confirmed(bucket[f], confirm)
           m == FreshNode(id, confirm)
           c == Added(b, m)
<1>1. bucket' = [bucket EXCEPT ![f] = c] /\ loose' = loose
  BY DEF CreateNode, Returns
<1>2. Whole(b) /\ b.nodes = Nodes(f) /\ loose = {} /\ Home(Firsts, id) = f /\ ~Full(b)
  BY CallFacts DEF CreateNode
<1>3. \A x \in Nodes(f) : x.id # id
  BY DEF CreateNode, Unknown
<1>4. m \in NodeRecord /\ m.id = id
  BY NodeTypes
<1> HIDE DEF b, m
<1>5. Whole(c) /\ c.nodes = b.nodes \cup {m}
  BY <1>2, <1>3, <1>4, AddedWhole
<1> HIDE DEF c
<1>6. Fits(Firsts, loose, f, c) /\ Kept(Nodes(f), c.nodes)
  <2>1. \A x \in Nodes(f) : Home(Firsts, x.id) = f
    BY InvFacts DEF Fits, Nodes
  <2> QED BY <1>2, <1>4, <1>5, <2>1 DEF Fits, Kept
<1> QED BY <1>1, <1>6, AdvanceOne

-----------------------------------------------------------------------------
(* split_bucket *)

LEMMA HalvesEmpty ==
    ASSUME IInv, NEW f \in Firsts, Middle(f) \notin Firsts
    PROVE  /\ Whole(Split(f)[f]) /\ Split(f)[f].nodes = {}
           /\ Whole(Split(f)[Middle(f)]) /\ Split(f)[Middle(f)].nodes = {}
           /\ \A g \in Firsts : g # f => Split(f)[g] = bucket[g]
           /\ DOMAIN Split(f) = Firsts \cup {Middle(f)}
<1> DEFINE M == Middle(f)
           b == bucket[f]
<1>1. b \in Bucket
  BY InvFacts
<1>2. /\ Whole(Emptied(b, b.max)) /\ Whole(Emptied(b, Halved(b.max)))
      /\ \A max : Emptied(b, max).nodes = {}
  BY <1>1, EmptiedWhole
<1> HIDE DEF M
<1>3. /\ Split(f)[f] \in {Emptied(b, b.max), Emptied(b, Halved(b.max))}
      /\ Split(f)[M] \in {Emptied(b, b.max), Emptied(b, Halved(b.max))}
      /\ \A g \in Firsts : g # f => Split(f)[g] = bucket[g]
      /\ DOMAIN Split(f) = Firsts \cup {M}
  BY DEF Split, M
<1> HIDE DEF b
<1>4. /\ Whole(Split(f)[f]) /\ Split(f)[f].nodes = {}
      /\ Whole(Split(f)[M]) /\ Split(f)[M].nodes = {}
  BY <1>2, <1>3
<1> QED BY <1>3, <1>4 DEF M

LEMMA SplitAdvances ==
    ASSUME IInv, NEW f \in Firsts, InBucket(MyId, f), HasMiddle(f),
           bucket' = [g \in Firsts \cup {Middle(f)} |-> bucket'[g]],
           \A g \in Firsts : g # f => bucket'[g] = bucket[g],
           Alike(Split(f)[f], bucket'[f]), Alike(Split(f)[Middle(f)], bucket'[Middle(f)]),
           loose' = loose \cup Nodes(f),
           \A n \in Nodes(f) \cup loose : Good(n)
    PROVE  /\ Advance
           /\ \A n \in loose' : Good(n) /\ \A m \in Nodes(FindBucket(n.id))' : Good(m)
<1> DEFINE M == Middle(f)
<1>1. /\ M \in Ids \ Firsts /\ Layout(Firsts \cup {M})
      /\ \A id \in Ids : Home(Firsts \cup {M}, id) =
            IF Home(Firsts, id) = f /\ M <= id THEN M ELSE Home(Firsts, id)
  BY SplitHalves DEF IInv
<1>2. /\ Whole(Split(f)[f]) /\ Split(f)[f].nodes = {}
      /\ Whole(Split(f)[M]) /\ Split(f)[M].nodes = {}
  BY <1>1, HalvesEmpty
<1> HIDE DEF M
<1>3. Alike(Split(f)[f], bucket'[f]) /\ Alike(Split(f)[M], bucket'[M])
      /\ bucket' = [g \in Firsts \cup {M} |-> bucket'[g]]
  BY DEF M
<1>4. /\ Whole(bucket'[f]) /\ bucket'[f].nodes = {}
      /\ Whole(bucket'[M]) /\ bucket'[M].nodes = {}
  <2>1. Whole(bucket'[f])
    BY <1>2, <1>3, AlikeWhole
  <2>2. Whole(bucket'[M])
    BY <1>2, <1>3, AlikeWhole
  <2> QED BY <1>2, <1>3, <2>1, <2>2 DEF Alike
<1>5. Table(bucket', loose \cup bucket[f].nodes)
      /\ Kept(AllNodes(bucket, loose), AllNodes(bucket', loose \cup bucket[f].nodes))
  BY <1>1, <1>3, <1>4, TableHalved DEF IInv, Firsts
<1>6. Known = AllNodes(bucket, loose) /\ Known' = AllNodes(bucket', loose')
  BY DEF Known, AllNodes, Firsts, Nodes
<1>7. Advance
  BY <1>5, <1>6 DEF Advance, Nodes
<1>8. ASSUME NEW n \in loose' PROVE \A m \in Nodes(FindBucket(n.id))' : Good(m)
  <2>1. FindBucket(n.id)' = Home(Firsts \cup {M}, n.id)
    BY <1>3 DEF FindBucket, Home, Firsts
  <2>2. n.id \in Ids
    <3>1. n \in NodeRecord
      BY <1>7 DEF Advance, Table
    <3> QED BY <3>1, ConstantsAssumption DEF NodeRecord, Ids
  <2>3. Nodes(FindBucket(n.id))' = bucket'[Home(Firsts \cup {M}, n.id)].nodes
    BY <2>1 DEF Nodes
  <2>4. CASE Home(Firsts, n.id) = f
    <3>1. Home(Firsts \cup {M}, n.id) \in {f, M}
      BY <1>1, <2>2, <2>4
    <3>2. Nodes(FindBucket(n.id))' = {}
      BY <1>4, <2>3, <3>1
    <3> QED BY <3>2
  <2>5. CASE Home(Firsts, n.id) # f
    <3>1. Home(Firsts \cup {M}, n.id) = Home(Firsts, n.id)
      BY <1>1, <2>2, <2>5
    <3>2. n \in loose
      <4>1. \A x \in Nodes(f) : Home(Firsts, x.id) = f
        BY InvFacts DEF Fits, Nodes
      <4> QED BY <2>5, <4>1
    <3>3. FindBucket(n.id) = Home(Firsts, n.id) /\ \A m \in Nodes(FindBucket(n.id)) : Good(m)
      BY <3>2, InvFacts DEF OnlyGoodLoose
    <3>4. Home(Firsts, n.id) \in Firsts
      BY <1>1, <2>2, HomeIs, InvFacts
    <3>5. Nodes(FindBucket(n.id))' = Nodes(FindBucket(n.id))
      BY <2>3, <2>5, <3>1, <3>3, <3>4 DEF Nodes
    <3> QED BY <3>3, <3>5
  <2> QED BY <2>4, <2>5
<1> QED BY <1>7, <1>8

LEMMA StartSplitAdvances ==
    ASSUME IInv, NEW id \in Peers, NEW confirm \in 0 .. 2, NEW f \in Firsts,
           Calls(id, confirm, f), StartSplit(id, confirm, f)
    PROVE  Advance /\ OnlyGoodLoose'
<1>1. phase = "calls" /\ loose = {}
  BY InvFacts DEF Calls, OnlyGoodLoose
<1>2. InBucket(MyId, f) /\ \A n \in Nodes(f) : Good(n)
  BY DEF StartSplit, Splits, Dubious
<1>3. CASE HasMiddle(f)
  <2> DEFINE M == Middle(f)
             s == Split(f)
  <2>1. /\ bucket' = [g \in DOMAIN s |-> IF g \in {f, M} THEN Confirmed(s[g], confirm)
                                                        ELSE bucket[g]]
        /\ loose' = Nodes(f) /\ phase' = "split"
    BY <1>3 DEF StartSplit
  <2>2. M \notin Firsts
    BY <1>2, <1>3, SplitHalves DEF IInv
  <2>3. Whole(s[f]) /\ Whole(s[M]) /\ DOMAIN s = Firsts \cup {M}
    BY <2>2, HalvesEmpty
  <2> HIDE DEF M, s
  <2>4. /\ bucket' = [g \in Firsts \cup {M} |-> bucket'[g]]
        /\ \A g \in Firsts : g # f => bucket'[g] = bucket[g]
        /\ bucket'[f] = Confirmed(s[f], confirm) /\ bucket'[M] = Confirmed(s[M], confirm)
    <3>1. \A g \in Firsts : g # f => g \notin {f, M}
      BY <2>2
    <3> QED BY <2>1, <2>3, <3>1
  <2>5. Alike(s[f], bucket'[f]) /\ Alike(s[M], bucket'[M])
    BY <2>3, <2>4, AlikeOnes DEF Whole
  <2>6. loose' = loose \cup Nodes(f) /\ \A n \in Nodes(f) \cup loose : Good(n)
    BY <1>1, <1>2, <2>1
  <2>7. /\ Advance
        /\ \A n \in loose' : Good(n) /\ \A m \in Nodes(FindBucket(n.id))' : Good(m)
    BY <1>2, <1>3, <2>4, <2>5, <2>6, SplitAdvances DEF M, s
  <2> QED BY <2>1, <2>7 DEF OnlyGoodLoose
<1>4. CASE ~HasMiddle(f)
  <2> DEFINE c == Confirmed(bucket[f], confirm)
  <2>1. bucket' = [bucket EXCEPT ![f] = c] /\ loose' = loose /\ phase' = phase
    BY <1>4 DEF StartSplit
  <2>2. Whole(c) /\ c.nodes = Nodes(f)
    BY CallFacts
  <2> HIDE DEF c
  <2>3. NoneNew(Nodes(f), c.nodes) /\ Kept(Nodes(f), c.nodes)
    BY <2>2 DEF NoneNew, Kept
  <2>4. Advance
    BY <2>1, <2>2, <2>3, AdvanceSameIds
  <2> QED BY <1>1, <2>1, <2>4 DEF OnlyGoodLoose
<1> QED BY <1>3, <1>4

LEMMA SplitFurtherAdvances ==
    ASSUME IInv, NEW n \in loose, NEW f \in Firsts, Turn(n, f), SplitFurther(n, f)
    PROVE  Advance /\ OnlyGoodLoose'
<1> DEFINE M == Middle(f)
<1>1. InBucket(MyId, f) /\ HasMiddle(f) /\ bucket' = Split(f) /\ loose' = loose \cup Nodes(f)
      /\ phase = "split" /\ phase' = phase /\ f = FindBucket(n.id)
  BY DEF SplitFurther, Turn
<1>2. \A x \in Nodes(f) \cup loose : Good(x)
  BY <1>1, InvFacts DEF OnlyGoodLoose
<1>3. M \notin Firsts
  BY <1>1, SplitHalves DEF IInv
<1>4. /\ Whole(Split(f)[f]) /\ Whole(Split(f)[M]) /\ DOMAIN Split(f) = Firsts \cup {M}
      /\ \A g \in Firsts : g # f => Split(f)[g] = bucket[g]
  BY <1>3, HalvesEmpty
<1>5. Alike(Split(f)[f], bucket'[f]) /\ Alike(Split(f)[M], bucket'[M])
  BY <1>1, <1>4 DEF Alike, Whole
<1>6. bucket' = [g \in Firsts \cup {M} |-> bucket'[g]]
  <2>1. Split(f) = [g \in DOMAIN Split(f) |-> Split(f)[g]]
    BY DEF Split
  <2> QED BY <1>1, <1>4, <2>1
<1>7. /\ Advance
      /\ \A x \in loose' : Good(x) /\ \A m \in Nodes(FindBucket(x.id))' : Good(m)
  BY <1>1, <1>2, <1>4, <1>5, <1>6, SplitAdvances
<1> QED BY <1>1, <1>7 DEF OnlyGoodLoose

LEMMA ReinsertAdvances ==
    ASSUME IInv, NEW n \in loose, NEW f \in Firsts, Turn(n, f), Reinsert(n, f)
    PROVE  Advance /\ OnlyGoodLoose'
<1> DEFINE c == Added(bucket[f], n)
           L == loose \ {n}
<1>1. phase = "split" /\ phase' = phase /\ f = FindBucket(n.id) /\ loose' = L
      /\ ~Full(bucket[f]) /\ bucket' = [bucket EXCEPT ![f] = c]
  BY DEF Reinsert, Turn
<1>2. /\ Table(bucket, loose) /\ bucket \in [Firsts -> Bucket]
      /\ \A g \in Firsts : Fits(Firsts, loose, g, bucket[g])
      /\ loose \subseteq NodeRecord /\ \A x, y \in loose : SameNode(x, y)
  BY InvFacts DEF IInv, Table
<1>3. Whole(bucket[f]) /\ \A x \in bucket[f].nodes : x.id # n.id
  BY <1>2 DEF Fits
<1>4. Whole(c) /\ c.nodes = bucket[f].nodes \cup {n}
  BY <1>1, <1>2, <1>3, AddedWhole
<1> HIDE DEF c
<1>5. Table(bucket, L) /\ f \in DOMAIN bucket
  BY <1>2 DEF Table, Fits, Firsts
<1>6. Fits(DOMAIN bucket, L, f, c)
  <2>1. \A x \in bucket[f].nodes : Home(Firsts, x.id) = f /\ \A m \in loose : m.id # x.id
    BY <1>2 DEF Fits
  <2>2. Home(Firsts, n.id) = f
    BY <1>1, InvFacts
  <2>3. \A m \in L : m.id # n.id
    BY <1>2 DEF SameNode
  <2> QED BY <1>4, <2>1, <2>2, <2>3 DEF Fits, Firsts
<1>7. Kept(bucket[f].nodes, c.nodes)
  BY <1>4 DEF Kept
<1>8. /\ Table(bucket', L)
      /\ Kept(AllNodes(bucket, L), AllNodes(bucket', L))
  BY <1>1, <1>5, <1>6, <1>7, TableOne
<1> HIDE DEF L
<1>9. Kept(AllNodes(bucket, loose), AllNodes(bucket', L))
  <2>1. ASSUME NEW x \in AllNodes(bucket, loose), Good(x)
        PROVE  \E m \in AllNodes(bucket', L) : m.id = x.id
    <3>1. CASE x = n
      <4>1. f \in DOMAIN bucket' /\ n \in bucket'[f].nodes
        BY <1>1, <1>2, <1>4 DEF Firsts
      <4> QED BY <3>1, <4>1, InAllNodes
    <3>2. CASE x # n
      <4>1. x \in AllNodes(bucket, L)
        BY <3>2, <2>1, InAllNodes DEF L
      <4> QED BY <1>8, <2>1, <4>1 DEF Kept
    <3> QED BY <3>1, <3>2
  <2> QED BY <2>1 DEF Kept
<1>10. Advance
  <2>1. Known = AllNodes(bucket, loose) /\ Known' = AllNodes(bucket', loose')
    BY DEF Known, AllNodes, Firsts, Nodes
  <2> QED BY <1>1, <1>8, <1>9, <2>1 DEF Advance
<1>11. ASSUME NEW x \in loose' PROVE Good(x) /\ \A m \in Nodes(FindBucket(x.id))' : Good(m)
  <2>1. Firsts' = Firsts /\ FindBucket(x.id)' = FindBucket(x.id)
    <3>1. DOMAIN bucket' = DOMAIN bucket
      BY <1>1, <1>2
    <3> QED BY <3>1 DEF Firsts, FindBucket
  <2>2. x \in loose /\ Good(x) /\ Good(n) /\ \A m \in Nodes(FindBucket(x.id)) : Good(m)
    BY <1>1, InvFacts DEF OnlyGoodLoose, L
  <2>3. FindBucket(x.id) \in Firsts
    BY <1>2, <2>2, InvFacts DEF NodeRecord
  <2> DEFINE g == FindBucket(x.id)
  <2>4. Nodes(FindBucket(x.id))' = bucket'[g].nodes
    BY <2>1 DEF Nodes
  <2>5. Nodes(g) = bucket[g].nodes
    BY DEF Nodes
  <2> HIDE DEF g
  <2>6. bucket'[g].nodes \subseteq bucket[g].nodes \cup {n}
    BY <1>1, <1>2, <1>4, <2>3 DEF g
  <2> QED BY <2>2, <2>4, <2>5, <2>6 DEF g
<1> QED BY <1>1, <1>10, <1>11 DEF OnlyGoodLoose

-----------------------------------------------------------------------------
(* Each action. *)

\* GoodNodesStay, of one step.
Stays ==
    \A n \in Known : Good(n) /\ Lost(n) =>
        phase = "split" /\ FullOfGood(FindBucket(n.id))'

LEMMA StepDone ==
    ASSUME Advance, Others', OnlyGoodLoose'
    PROVE  IInv' /\ Stays
BY DEF Advance, IInv, Stays, Kept, Lost

LEMMA FreeKeeps ==
    ASSUME IInv, NEW n \in loose, NEW f \in Firsts, Turn(n, f), Free(n, f)
    PROVE  IInv' /\ Stays
<1>1. /\ phase = "split" /\ phase' = phase /\ f = FindBucket(n.id) /\ bucket' = bucket
      /\ loose' = loose \ {n} /\ Full(bucket[f])
      /\ UNCHANGED <<blacklist, nextBlacklisted, grown, expireIn, confirmIn, calls, messages>>
  BY DEF Turn, Free
<1>2. Table(bucket, loose) /\ Others /\ OnlyGoodLoose
  BY DEF IInv
<1>3. Table(bucket', loose')
  BY <1>1, <1>2 DEF Table, Fits
<1>4. \A id : FindBucket(id)' = FindBucket(id)
  BY <1>1 DEF FindBucket, Firsts
<1>5. Others' /\ OnlyGoodLoose'
  BY <1>1, <1>2, <1>4 DEF Others, OnlyGoodLoose, Nodes
<1>6. FullOfGood(FindBucket(n.id))'
  <2>1. Full(bucket'[f]) /\ \A m \in bucket'[f].nodes : Good(m)
    BY <1>1, <1>2 DEF OnlyGoodLoose, Nodes
  <2>2. FindBucket(n.id)' = f
    BY <1>1, <1>4
  <2> QED BY <2>1, <2>2 DEF FullOfGood, Nodes
<1>7. ASSUME NEW x \in Known, Lost(x) PROVE x = n
  <2>1. Known = AllNodes(bucket, loose) /\ Known' = AllNodes(bucket, loose')
    BY <1>1 DEF Known, AllNodes, Firsts, Nodes
  <2>2. x # n => x \in AllNodes(bucket, loose')
    BY <1>1, <1>7, <2>1, InAllNodes
  <2> QED BY <1>7, <2>1, <2>2 DEF Lost
<1>8. Stays
  BY <1>1, <1>6, <1>7 DEF Stays
<1> QED BY <1>3, <1>5, <1>8 DEF IInv

LEMMA SplitTurnKeeps ==
    ASSUME IInv, SplitTurn
    PROVE  IInv' /\ Stays
<1>1. PICK n \in loose, f \in Firsts :
        Turn(n, f) /\ (Reinsert(n, f) \/ Free(n, f) \/ SplitFurther(n, f))
  BY DEF SplitTurn
<1>2. Others'
  BY <1>1 DEF Turn, IInv, Others
<1>3. CASE Reinsert(n, f)
  BY <1>1, <1>2, <1>3, ReinsertAdvances, StepDone
<1>4. CASE Free(n, f)
  BY <1>1, <1>4, FreeKeeps
<1>5. CASE SplitFurther(n, f)
  BY <1>1, <1>2, <1>5, SplitFurtherAdvances, StepDone
<1> QED BY <1>1, <1>3, <1>4, <1>5

LEMMA NewNodeKeeps ==
    ASSUME IInv, NewNode
    PROVE  IInv' /\ Stays
<1>1. PICK id \in Peers, confirm \in 0 .. 2, f \in Firsts :
        /\ Calls(id, confirm, f)
        /\ \/ UpdateKnown(id, confirm, f) \/ ReplaceBad(id, confirm, f)
           \/ KeepCandidate(id, confirm, f) \/ StartSplit(id, confirm, f)
           \/ CreateNode(id, confirm, f)
  BY DEF NewNode
<1>2. Others /\ loose = {} /\ phase = "calls" /\ GROW_LIFE \in Nat
      /\ Tail(calls) \in Seq([id : Peers, confirm : 0 .. 2])
  BY <1>1, CallFacts, InvFacts, ConstantsAssumption DEF Calls
<1>3. Grow(f) => grown' \in 0 .. GROW_LIFE + 1
  BY <1>2 DEF Grow, Others
<1>4. ASSUME NEW b, Returns(f, b), Grow(f) \/ UNCHANGED grown
      PROVE  Others' /\ OnlyGoodLoose'
  BY <1>2, <1>3, <1>4 DEF Returns, Others, OnlyGoodLoose
<1>5. CASE UpdateKnown(id, confirm, f)
  <2>1. Others' /\ OnlyGoodLoose'
    BY <1>4, <1>5 DEF UpdateKnown
  <2> QED BY <1>1, <1>5, <2>1, UpdateKnownAdvances, StepDone
<1>6. CASE ReplaceBad(id, confirm, f)
  <2>1. Others' /\ OnlyGoodLoose'
    BY <1>4, <1>6 DEF ReplaceBad
  <2> QED BY <1>1, <1>6, <2>1, ReplaceBadAdvances, StepDone
<1>7. CASE KeepCandidate(id, confirm, f)
  <2>1. Others' /\ OnlyGoodLoose'
    BY <1>4, <1>7 DEF KeepCandidate
  <2> QED BY <1>1, <1>7, <2>1, KeepCandidateAdvances, StepDone
<1>8. CASE StartSplit(id, confirm, f)
  <2>1. Others'
    BY <1>2, <1>3, <1>8 DEF StartSplit, Others
  <2> QED BY <1>1, <1>8, <2>1, StartSplitAdvances, StepDone
<1>9. CASE CreateNode(id, confirm, f)
  <2>1. Others' /\ OnlyGoodLoose'
    BY <1>4, <1>9 DEF CreateNode
  <2> QED BY <1>1, <1>9, <2>1, CreateNodeAdvances, StepDone
<1> QED BY <1>1, <1>5, <1>6, <1>7, <1>8, <1>9

LEMMA ExpireStuffKeeps ==
    ASSUME IInv, ExpireStuff
    PROVE  IInv' /\ Stays
<1>1. Others /\ loose = {} /\ loose' = loose
  BY InvFacts DEF ExpireStuff, OnlyGoodLoose
<1>2. expireIn' \in Nat
  <2>1. ExpireDelays \subseteq Nat
    BY ConstantsAssumption
  <2> QED BY <1>1, <2>1 DEF ExpireStuff, Others
<1>3. Others' /\ OnlyGoodLoose'
  BY <1>1, <1>2 DEF ExpireStuff, Others, OnlyGoodLoose
<1>4. CASE expireIn = 0
  <2>1. bucket' = [f \in Firsts |-> Purged(bucket[f])]
    BY <1>4 DEF ExpireStuff
  <2>2. \A f \in Firsts : bucket'[f] = Purged(bucket[f]) /\ Whole(bucket[f])
    BY <2>1, InvFacts
  <2>3. \A f \in Firsts : /\ Whole(bucket'[f]) /\ NoneNew(Nodes(f), bucket'[f].nodes)
                          /\ Kept(Nodes(f), bucket'[f].nodes)
    BY <2>2, PurgedWhole DEF Nodes
  <2>4. bucket' = [f \in Firsts |-> bucket'[f]]
    BY <2>1
  <2> QED BY <1>1, <1>3, <2>3, <2>4, AdvanceAll, StepDone
<1>5. CASE expireIn # 0
  <2>1. UNCHANGED <<bucket, loose>>
    BY <1>1, <1>5 DEF ExpireStuff
  <2> QED BY <1>3, <2>1, AdvanceSame, StepDone
<1> QED BY <1>4, <1>5

LEMMA ConfirmNodesKeeps ==
    ASSUME IInv, ConfirmNodes
    PROVE  IInv' /\ Stays
<1>1. Others /\ loose = {} /\ loose' = loose
  BY InvFacts DEF ConfirmNodes, OnlyGoodLoose
<1>2. confirmIn' \in Nat
  <2>1. SoonDelays \subseteq Nat /\ LateDelays \subseteq Nat
    BY ConstantsAssumption
  <2> QED BY <1>1, <2>1 DEF ConfirmNodes, MaintainsBuckets, MaintainsNeighbours,
                            MaintainsNothing, Others
<1>3. Others' /\ OnlyGoodLoose'
  BY <1>1, <1>2 DEF ConfirmNodes, Others, OnlyGoodLoose
<1>4. (\E q : Ask(q)) \/ UNCHANGED bucket
  BY DEF ConfirmNodes, MaintainsBuckets, MaintainsNeighbours, MaintainsNothing
<1>5. Advance
  BY <1>1, <1>4, AsksAdvance, AdvanceSame
<1> QED BY <1>3, <1>5, StepDone

LEMMA MessageKeeps ==
    ASSUME IInv, NEW p \in Peers, Message(p)
    PROVE  IInv' /\ Stays
<1>1. Others /\ loose = {} /\ loose' = loose
  BY InvFacts DEF Message, Receives, OnlyGoodLoose
<1>2. calls' \in Seq([id : Peers, confirm : 0 .. 2])
  <2> DEFINE C == [id : Peers, confirm : 0 .. 2]
  <2>1. \A q \in Peers, confirm \in 0 .. 2 : Call(q, confirm) \in C
    BY DEF Call
  <2> HIDE DEF C
  <2>2. \A c, d \in C : <<c>> \in Seq(C) /\ <<c, d>> \in Seq(C)
    OBVIOUS
  <2>3. \/ calls' = <<Call(p, 1)>> \/ calls' = <<Call(p, 2)>>
        \/ \E q \in Peers : calls' = <<Call(p, 2), Call(q, 0)>>
    BY DEF Message, MessageCalls
  <2>4. Call(p, 1) \in C /\ Call(p, 2) \in C
    BY <2>1
  <2>5. ASSUME NEW q \in Peers, calls' = <<Call(p, 2), Call(q, 0)>> PROVE calls' \in Seq(C)
    <3>1. Call(q, 0) \in C
      BY <2>1
    <3> QED BY <2>2, <2>4, <2>5, <3>1
  <2>6. calls' \in Seq(C)
    BY <2>2, <2>3, <2>4, <2>5
  <2> QED BY <2>6 DEF C
<1>3. messages' \in 0 .. MAX_MESSAGES
  BY <1>1, ConstantsAssumption DEF Message, Receives, Others
<1>4. Others' /\ OnlyGoodLoose'
  BY <1>1, <1>2, <1>3 DEF Message, Receives, Others, OnlyGoodLoose
<1>5. UNCHANGED <<bucket, loose>>
  BY <1>1 DEF Message
<1> QED BY <1>4, <1>5, AdvanceSame, StepDone

LEMMA BrokenReplyKeeps ==
    ASSUME IInv, NEW p \in Peers, BrokenReply(p)
    PROVE  IInv' /\ Stays
<1>1. Others /\ loose = {} /\ loose' = loose
  BY InvFacts DEF BrokenReply, Receives, OnlyGoodLoose
<1>2. blacklist' \in [0 .. MAX_BLACKLISTED - 1 -> Addresses]
      /\ nextBlacklisted' \in 0 .. MAX_BLACKLISTED - 1
  <2>1. MAX_BLACKLISTED \in Nat \ {0}
    BY ConstantsAssumption
  <2> QED BY <1>1, <2>1 DEF BrokenReply, Others, Addresses
<1>3. messages' \in 0 .. MAX_MESSAGES
  <2>1. messages < MAX_MESSAGES /\ messages' = messages + 1
    BY DEF BrokenReply, Receives
  <2> QED BY <1>1, <2>1, ConstantsAssumption DEF Others
<1>4. Others' /\ OnlyGoodLoose'
  BY <1>1, <1>2, <1>3 DEF BrokenReply, Receives, Others, OnlyGoodLoose
<1> DEFINE f == FindBucket(p)
<1>5. f \in Firsts /\ Whole(bucket[f])
  BY InvFacts
<1>6. CASE bucket' = bucket
  BY <1>1, <1>4, <1>6, AdvanceSame, StepDone
<1>7. ASSUME NEW n \in Nodes(f),
             bucket' = [bucket EXCEPT ![f] = Exchanged(Uncached(bucket[f]), n, BlacklistedNode(n))]
      PROVE  IInv' /\ Stays
  <2> DEFINE b == Uncached(bucket[f])
             c == Exchanged(b, n, BlacklistedNode(n))
  <2>1. Alike(bucket[f], b)
    BY <1>5, AlikeOnes DEF Whole
  <2>2. Whole(b) /\ b.nodes = Nodes(f)
    BY <1>5, <2>1, AlikeWhole DEF Alike, Nodes
  <2>3. BlacklistedNode(n) \in NodeRecord /\ BlacklistedNode(n).id = n.id
    BY <2>2, NodeTypes DEF Whole, Bucket
  <2> HIDE DEF b
  <2>4. Whole(c) /\ NoneNew(Nodes(f), c.nodes) /\ Kept(Nodes(f), c.nodes)
    BY <2>2, <2>3, ExchangedSame
  <2>5. bucket' = [bucket EXCEPT ![f] = c]
    BY <1>7 DEF b
  <2> HIDE DEF c, f
  <2>6. Advance
    BY <1>1, <1>5, <2>4, <2>5, AdvanceSameIds
  <2> QED BY <1>4, <2>6, StepDone
<1>8. \/ bucket' = bucket
      \/ \E n \in Nodes(f) :
           bucket' = [bucket EXCEPT ![f] = Exchanged(Uncached(bucket[f]), n, BlacklistedNode(n))]
  BY DEF BrokenReply
<1> QED BY <1>6, <1>7, <1>8

LEMMA SearchAsksKeeps ==
    ASSUME IInv, NEW p \in Searched, SearchAsks(p)
    PROVE  IInv' /\ Stays
<1>1. Others /\ loose = {} /\ loose' = loose
  BY InvFacts DEF SearchAsks, OnlyGoodLoose
<1>2. Others' /\ OnlyGoodLoose'
  BY <1>1 DEF SearchAsks, Others, OnlyGoodLoose
<1>3. \E q : Ask(q)
  BY DEF SearchAsks, Ask
<1>4. Advance
  BY <1>1, <1>3, AsksAdvance
<1> QED BY <1>2, <1>4, StepDone

LEMMA TickKeeps ==
    ASSUME IInv, Tick
    PROVE  IInv' /\ Stays
<1>1. Others /\ loose = {} /\ loose' = loose
  BY InvFacts DEF Tick, OnlyGoodLoose
<1>2. expireIn' \in Nat /\ confirmIn' \in Nat /\ grown' \in 0 .. GROW_LIFE + 1
  BY <1>1, ConstantsAssumption DEF Tick, Others, Older, Maximum
<1>3. Others' /\ OnlyGoodLoose'
  BY <1>1, <1>2 DEF Tick, Others, OnlyGoodLoose
<1>4. bucket' = [f \in Firsts |-> OlderBucket(bucket[f])]
  BY DEF Tick
<1>5. \A f \in Firsts : bucket'[f] = OlderBucket(bucket[f]) /\ Whole(bucket[f])
  BY <1>4, InvFacts
<1>6. \A f \in Firsts : /\ Whole(bucket'[f]) /\ NoneNew(Nodes(f), bucket'[f].nodes)
                        /\ Kept(Nodes(f), bucket'[f].nodes)
  BY <1>5, OlderWhole DEF Nodes
<1>7. bucket' = [f \in Firsts |-> bucket'[f]]
  BY <1>4
<1> QED BY <1>1, <1>3, <1>6, <1>7, AdvanceAll, StepDone

LEMMA OtherStepsKeep ==
    ASSUME IInv, Reject \/ EndSplit \/ Timeout \/ UNCHANGED vars
    PROVE  IInv' /\ Stays
<1>1. Others /\ OnlyGoodLoose
  BY InvFacts
<1>2. UNCHANGED <<bucket, loose>>
  BY DEF Reject, EndSplit, Timeout, vars
<1>3. Others'
  <2>1. CASE Reject
    <3>1. Tail(calls) \in Seq([id : Peers, confirm : 0 .. 2])
      BY <1>1, <2>1 DEF Reject, Others
    <3> QED BY <1>1, <2>1, <3>1 DEF Reject, Others
  <2>2. CASE EndSplit \/ Timeout \/ UNCHANGED vars
    BY <1>1, <2>2 DEF EndSplit, Timeout, vars, Others
  <2> QED BY <2>1, <2>2
<1>4. loose = {} => OnlyGoodLoose'
  BY <1>2 DEF OnlyGoodLoose
<1>5. OnlyGoodLoose'
  <2>1. CASE Reject \/ EndSplit \/ Timeout
    BY <1>1, <1>4, <2>1 DEF Reject, EndSplit, Timeout, OnlyGoodLoose
  <2>2. CASE UNCHANGED vars
    BY <1>1, <2>2 DEF vars, OnlyGoodLoose, FindBucket, Firsts, Nodes
  <2> QED BY <2>1, <2>2
<1> QED BY <1>2, <1>3, <1>5, AdvanceSame, StepDone

LEMMA EveryStepKeeps ==
    ASSUME IInv, [Next]_vars
    PROVE  IInv' /\ Stays
<1>1. ASSUME NEW p \in Peers, Message(p) \/ BrokenReply(p) PROVE IInv' /\ Stays
  BY <1>1, MessageKeeps, BrokenReplyKeeps
<1>2. ASSUME NEW p \in Searched, SearchAsks(p) PROVE IInv' /\ Stays
  BY <1>2, SearchAsksKeeps
<1>3. CASE Internal
  BY <1>3, NewNodeKeeps, SplitTurnKeeps, ExpireStuffKeeps, ConfirmNodesKeeps, OtherStepsKeep
     DEF Internal
<1>4. CASE Tick
  BY <1>4, TickKeeps
<1>5. CASE Timeout \/ UNCHANGED vars
  BY <1>5, OtherStepsKeep
<1> QED BY <1>1, <1>2, <1>3, <1>4, <1>5 DEF Next

-----------------------------------------------------------------------------
(* The initial table: one bucket with every id. *)

LEMMA FirstLayout ==
    Layout({0}) /\ \A id \in Ids : Home({0}, id) = 0
<1> DEFINE F == {0}
<1>1. BITS \in Nat /\ 2^BITS \in Nat \ {0} /\ MyId \in Ids
  BY ConstantsAssumption, PowDivides DEF Ids
<1>2. Begins(F)
  BY <1>1 DEF Begins, Ids
<1>3. End(F, 0) = 2^BITS
  BY DEF End
<1>4. Extent(F, 0) = 2^BITS
  BY <1>1, <1>3 DEF Extent
<1>5. Block(F, 0)
  <2>1. BITS \in 0 .. BITS /\ 0 % 2^BITS = 0
    BY <1>1
  <2> QED BY <1>4, <2>1 DEF Block
<1>6. \A id \in Ids : Home(F, id) = 0
  BY <1>2, HomeIs
<1> QED BY <1>1, <1>2, <1>5, <1>6 DEF Layout

LEMMA InitKeeps ==
    Init => IInv
<1> SUFFICES ASSUME Init PROVE IInv
  OBVIOUS
<1> DEFINE b == [max |-> MAX_COUNT, count |-> 0, nodes |-> {},
                 time |-> BUCKET_LIFE + 1, cached |-> NoNode]
<1>1. bucket = [f \in {0} |-> b] /\ loose = {}
  BY DEF Init
<1>2. b.nodes = {} /\ Whole(b) /\ b \in Bucket
  <2>1. b \in Bucket /\ b.nodes = {} /\ b.count = 0 /\ b.count <= b.max
    BY ConstantsAssumption DEF Bucket, Addresses
  <2> HIDE DEF b
  <2> QED BY <2>1, FS_EmptySet DEF Whole
<1> HIDE DEF b
<1>3. \A f \in {0} : Fits({0}, loose, f, bucket[f])
  BY <1>1, <1>2 DEF Fits
<1>4. Table(bucket, loose)
  <2>1. DOMAIN bucket = {0} /\ bucket \in [{0} -> Bucket]
    BY <1>1, <1>2
  <2> QED BY <1>1, <1>3, <2>1, FirstLayout DEF Table
<1>5. Others
  <2>1. ExpireDelays \subseteq Nat /\ GROW_LIFE \in Nat /\ MAX_MESSAGES \in Nat
        /\ MAX_BLACKLISTED \in Nat \ {0}
    BY ConstantsAssumption
  <2> QED BY <2>1 DEF Init, Others, Addresses
<1>6. OnlyGoodLoose
  BY <1>1 DEF OnlyGoodLoose
<1> QED BY <1>4, <1>5, <1>6 DEF IInv

-----------------------------------------------------------------------------
(* Which of two ids is nearer to a target (xorcmp). *)

\* The first k bits of an id, as a number.
Top(id, k) == id \div 2^(BITS - k)

LEMMA HalfOfQuotient ==
    ASSUME NEW a \in Nat, NEW p \in Nat \ {0}
    PROVE  /\ a \div p \in Nat /\ a \div (2 * p) \in Nat
           /\ a \div p = 2 * (a \div (2 * p)) + ((a \div p) % 2)
<1> DEFINE q == a \div p
           r == a - q * p
           h == q \div 2
           l == q % 2
<1>1. q \in Nat /\ r \in Nat /\ r < p /\ a = q * p + r
  OBVIOUS
<1> HIDE DEF q, r
<1>2. h \in Nat /\ l \in {0, 1} /\ q = 2 * h + l
  BY <1>1
<1> HIDE DEF h, l
<1>3. a = h * (2 * p) + (l * p + r) /\ l * p + r \in Nat /\ l * p + r < 2 * p
  BY <1>1, <1>2
<1>4. a \div (2 * p) = h
  BY <1>2, <1>3
<1> QED BY <1>1, <1>2, <1>4 DEF q, l

LEMMA TopNext ==
    ASSUME NEW id \in Ids, NEW k \in 0 .. BITS - 1
    PROVE  /\ BitOf(id, k) \in {0, 1} /\ Top(id, k) \in Nat
           /\ Top(id, k + 1) = 2 * Top(id, k) + BitOf(id, k)
<1> DEFINE e == BITS - 1 - k
           p == 2^e
<1>1. e \in Nat /\ BITS - k = e + 1 /\ BITS - (k + 1) = e
  BY ConstantsAssumption
<1>2. p \in Nat \ {0} /\ 2^(e + 1) = 2 * p
  BY <1>1, PowDivides, PowNext
<1>3. Top(id, k) = id \div (2 * p) /\ Top(id, k + 1) = id \div p /\ BitOf(id, k) = (id \div p) % 2
  BY <1>1, <1>2 DEF Top, BitOf
<1> HIDE DEF p
<1>4. id \in Nat
  BY DEF Ids
<1>5. /\ id \div p \in Nat /\ id \div (2 * p) \in Nat
      /\ id \div p = 2 * (id \div (2 * p)) + ((id \div p) % 2)
  BY <1>2, <1>4, HalfOfQuotient
<1> QED BY <1>3, <1>5

LEMMA TopEnds ==
    ASSUME NEW id \in Ids
    PROVE  Top(id, 0) = 0 /\ Top(id, BITS) = id
<1> DEFINE w == 2^BITS
<1>1. w \in Nat \ {0} /\ id \in Nat /\ id < w /\ BITS \in Nat
  BY ConstantsAssumption, PowDivides DEF Ids
<1>2. BITS - 0 = BITS /\ BITS - BITS = 0 /\ 2^0 = 1
  BY <1>1
<1>3. Top(id, 0) = id \div w /\ Top(id, BITS) = id \div 1
  BY <1>2 DEF Top
<1> HIDE DEF w
<1>4. id \div w = 0 /\ id \div 1 = id
  BY <1>1
<1> QED BY <1>3, <1>4

\* The first k bits are the same if each of them is.
LEMMA SamePrefix ==
    ASSUME NEW a \in Ids, NEW b \in Ids
    PROVE  \A k \in 0 .. BITS :
             (\A i \in 0 .. k - 1 : BitOf(a, i) = BitOf(b, i)) <=> Top(a, k) = Top(b, k)
<1> DEFINE Same(k) == \A i \in 0 .. k - 1 : BitOf(a, i) = BitOf(b, i)
           T == {k \in 0 .. BITS : ~(Same(k) <=> Top(a, k) = Top(b, k))}
<1>0. BITS \in Nat
  BY ConstantsAssumption
<1> SUFFICES ASSUME T # {} PROVE FALSE
  OBVIOUS
<1>1. PICK k \in T : \A l \in T : k <= l
  <2>1. T \in SUBSET Nat
    BY <1>0
  <2> HIDE DEF T
  <2> QED BY <2>1, LeastNat
<1>2. k # 0
  <2>1. Same(0)
    OBVIOUS
  <2> QED BY <2>1, TopEnds
<1>3. k - 1 \in 0 .. BITS - 1 /\ k - 1 \in 0 .. BITS /\ k - 1 \notin T /\ (k - 1) + 1 = k
  BY <1>0, <1>1, <1>2
<1>4. Same(k) <=> Same(k - 1) /\ BitOf(a, k - 1) = BitOf(b, k - 1)
  BY <1>3
<1>5. Same(k - 1) <=> Top(a, k - 1) = Top(b, k - 1)
  BY <1>3
<1> HIDE DEF Same
<1>6. /\ Top(a, k) = 2 * Top(a, k - 1) + BitOf(a, k - 1)
      /\ Top(b, k) = 2 * Top(b, k - 1) + BitOf(b, k - 1)
      /\ Top(a, k - 1) \in Nat /\ Top(b, k - 1) \in Nat
      /\ BitOf(a, k - 1) \in {0, 1} /\ BitOf(b, k - 1) \in {0, 1}
  <2> DEFINE m == k - 1
  <2>1. m \in 0 .. BITS - 1 /\ m + 1 = k
    BY <1>3
  <2> HIDE DEF m
  <2>2. /\ Top(a, m + 1) = 2 * Top(a, m) + BitOf(a, m)
        /\ Top(b, m + 1) = 2 * Top(b, m) + BitOf(b, m)
        /\ Top(a, m) \in Nat /\ Top(b, m) \in Nat
        /\ BitOf(a, m) \in {0, 1} /\ BitOf(b, m) \in {0, 1}
    BY <2>1, TopNext
  <2> QED BY <2>1, <2>2 DEF m
<1>7. Top(a, k) = Top(b, k) <=> Top(a, k - 1) = Top(b, k - 1) /\ BitOf(a, k - 1) = BitOf(b, k - 1)
  BY <1>6
<1>8. Same(k) <=> Top(a, k) = Top(b, k)
  BY <1>4, <1>5, <1>7
<1> QED BY <1>8

\* Where the first k bits differ there is a first bit that differs.
LEMMA FirstDifference ==
    ASSUME NEW a \in Ids, NEW b \in Ids, NEW k \in 0 .. BITS, Top(a, k) # Top(b, k)
    PROVE  \E i \in 0 .. k - 1 : /\ BitOf(a, i) # BitOf(b, i)
                                 /\ \A j \in 0 .. i - 1 : BitOf(a, j) = BitOf(b, j)
<1> DEFINE T == {i \in 0 .. k - 1 : BitOf(a, i) # BitOf(b, i)}
<1>0. BITS \in Nat
  BY ConstantsAssumption
<1>1. T # {} /\ T \in SUBSET Nat
  BY <1>0, SamePrefix
<1>2. PICK i \in T : \A j \in T : i <= j
  BY <1>1, LeastNat
<1>3. i \in 0 .. k - 1 /\ BitOf(a, i) # BitOf(b, i)
  BY <1>2
<1>4. \A j \in 0 .. i - 1 : j \in 0 .. k - 1 /\ ~(i <= j)
  BY <1>0, <1>3
<1>5. \A j \in 0 .. i - 1 : BitOf(a, j) = BitOf(b, j)
  BY <1>2, <1>4
<1> QED BY <1>3, <1>5

\* xorcmp orders ids strictly and totally.
LEMMA NearerOrders ==
    ASSUME NEW t \in Ids
    PROVE  /\ \A a \in Ids : ~Nearer(a, a, t)
           /\ \A a, b \in Ids : a # b => Nearer(a, b, t) \/ Nearer(b, a, t)
           /\ \A a, b, c \in Ids : Nearer(a, b, t) /\ Nearer(b, c, t) => Nearer(a, c, t)
<1>0. BITS \in Nat
  BY ConstantsAssumption
<1>1. \A a \in Ids : ~Nearer(a, a, t)
  BY DEF Nearer
<1>2. ASSUME NEW a \in Ids, NEW b \in Ids, a # b PROVE Nearer(a, b, t) \/ Nearer(b, a, t)
  <2>1. Top(a, BITS) # Top(b, BITS) /\ BITS \in 0 .. BITS
    BY <1>0, <1>2, TopEnds
  <2>2. PICK i \in 0 .. BITS - 1 : /\ BitOf(a, i) # BitOf(b, i)
                                   /\ \A j \in 0 .. i - 1 : BitOf(a, j) = BitOf(b, j)
    BY <2>1, FirstDifference
  <2>3. BitOf(a, i) \in {0, 1} /\ BitOf(b, i) \in {0, 1} /\ BitOf(t, i) \in {0, 1}
    BY TopNext
  <2>4. BitOf(a, i) = BitOf(t, i) \/ BitOf(b, i) = BitOf(t, i)
    BY <2>2, <2>3
  <2> QED BY <2>2, <2>4 DEF Nearer
<1>3. ASSUME NEW a \in Ids, NEW b \in Ids, NEW c \in Ids, Nearer(a, b, t), Nearer(b, c, t)
      PROVE  Nearer(a, c, t)
  <2>1. PICK i \in 0 .. BITS - 1 : /\ BitOf(a, i) # BitOf(b, i) /\ BitOf(a, i) = BitOf(t, i)
                                   /\ \A j \in 0 .. i - 1 : BitOf(a, j) = BitOf(b, j)
    BY <1>3 DEF Nearer
  <2>2. PICK k \in 0 .. BITS - 1 : /\ BitOf(b, k) # BitOf(c, k) /\ BitOf(b, k) = BitOf(t, k)
                                   /\ \A j \in 0 .. k - 1 : BitOf(b, j) = BitOf(c, j)
    BY <1>3 DEF Nearer
  <2>3. CASE i < k
    <3>1. i \in 0 .. k - 1 /\ \A j \in 0 .. i - 1 : j \in 0 .. k - 1
      BY <1>0, <2>3
    <3>2. /\ BitOf(a, i) # BitOf(c, i) /\ BitOf(a, i) = BitOf(t, i)
          /\ \A j \in 0 .. i - 1 : BitOf(a, j) = BitOf(c, j)
      BY <2>1, <2>2, <3>1
    <3> QED BY <3>2 DEF Nearer
  <2>4. CASE k < i
    <3>1. k \in 0 .. i - 1 /\ \A j \in 0 .. k - 1 : j \in 0 .. i - 1
      BY <1>0, <2>4
    <3>2. /\ BitOf(a, k) # BitOf(c, k) /\ BitOf(a, k) = BitOf(t, k)
          /\ \A j \in 0 .. k - 1 : BitOf(a, j) = BitOf(c, j)
      BY <2>1, <2>2, <3>1
    <3> QED BY <3>2 DEF Nearer
  <2>5. i # k
    BY <2>1, <2>2
  <2> QED BY <1>0, <2>3, <2>4, <2>5
<1> QED BY <1>1, <1>2, <1>3

\* An id in the block of the target is nearer to it than any id outside.
LEMMA BlockNearer ==
    ASSUME NEW k \in 0 .. BITS, NEW f \in Nat, f % 2^k = 0, NEW t \in Ids, NEW a \in Ids, NEW x \in Ids,
           f <= t, t < f + 2^k, f <= a, a < f + 2^k, ~(f <= x /\ x < f + 2^k)
    PROVE  Nearer(a, x, t)
<1> DEFINE p == 2^k
           m == BITS - k
<1>1. p \in Nat \ {0} /\ m \in 0 .. BITS /\ BITS - m = k /\ BITS \in Nat
  BY ConstantsAssumption, PowDivides
<1>2. Top(t, m) = t \div p /\ Top(a, m) = a \div p /\ Top(x, m) = x \div p
  BY <1>1 DEF Top
<1>3. t \in Nat /\ a \in Nat /\ x \in Nat
  BY DEF Ids
<1> HIDE DEF p
<1>4. PICK q \in Nat : f = q * p
  <2>1. f \div p \in Nat /\ f = (f \div p) * p
    BY <1>1 DEF p
  <2> QED BY <2>1
<1>5. f <= t /\ t < f + p /\ f <= a /\ a < f + p /\ ~(f <= x /\ x < f + p)
  BY DEF p
<1>6. t \div p = q /\ a \div p = q
  BY <1>1, <1>3, <1>4, <1>5
<1>7. x \div p # q
  <2>1. x \div p \in Nat /\ (x \div p) * p <= x /\ x < (x \div p) * p + p
    BY <1>1, <1>3
  <2> QED BY <1>1, <1>3, <1>4, <1>5, <2>1
<1> HIDE DEF m
<1>8. Top(a, m) # Top(x, m) /\ Top(a, m) = Top(t, m)
  BY <1>2, <1>6, <1>7
<1>9. PICK i \in 0 .. m - 1 : /\ BitOf(a, i) # BitOf(x, i)
                              /\ \A j \in 0 .. i - 1 : BitOf(a, j) = BitOf(x, j)
  BY <1>1, <1>8, FirstDifference
<1>10. BitOf(a, i) = BitOf(t, i)
  BY <1>1, <1>8, <1>9, SamePrefix
<1>11. i \in 0 .. BITS - 1
  BY <1>1, <1>9
<1> QED BY <1>9, <1>10, <1>11 DEF Nearer
-----------------------------------------------------------------------------
(* The list of the nearest. *)

\* s is the list of the nearest of X to t, nearest first: all of X, if there
\* are no more than CLOSEST.
Best(s, X, t) ==
    /\ s \in Seq(Ids) /\ Len(s) <= CLOSEST
    /\ \A i \in 1 .. Len(s) : s[i] \in X
    /\ \A i, j \in 1 .. Len(s) : i < j => Nearer(s[i], s[j], t)
    /\ \A x \in X : \/ \E i \in 1 .. Len(s) : s[i] = x
                    \/ Len(s) = CLOSEST /\ \A i \in 1 .. Len(s) : Nearer(s[i], x, t)

LEMMA InsertedList ==
    ASSUME NEW S, NEW s \in Seq(S), NEW e \in S, NEW p \in 0 .. Len(s), NEW m \in 0 .. Len(s) + 1
    PROVE  LET w == SubSeq(InsertAt(s, p + 1, e), 1, m)
           IN  /\ Len(InsertAt(s, p + 1, e)) = Len(s) + 1
               /\ w \in Seq(S) /\ Len(w) = m
               /\ \A i \in 1 .. m : w[i] = IF i <= p THEN s[i] ELSE IF i = p + 1 THEN e ELSE s[i - 1]
<1> DEFINE n == Len(s)
           a == SubSeq(s, 1, p)
           b == SubSeq(s, p + 1, n)
           c == a \o <<e>>
           w == c \o b
           v == SubSeq(w, 1, m)
<1>0. n \in Nat /\ p \in Nat /\ m \in Nat /\ p <= n /\ m <= n + 1
      /\ \A i \in 1 .. n : s[i] \in S
  BY LenProperties, ElementOfSeq
<1>1. InsertAt(s, p + 1, e) = w
  <2>1. (p + 1) - 1 = p
    BY <1>0
  <2>2. InsertAt(s, p + 1, e) = SubSeq(s, 1, (p + 1) - 1) \o <<e>> \o b
    BY DEF InsertAt
  <2> QED BY <2>1, <2>2
<1>2. a \in Seq(S) /\ Len(a) = p /\ \A i \in 1 .. p : a[i] = s[i]
  BY <1>0, SubSeqProperties
<1>3. b \in Seq(S) /\ Len(b) = n - p /\ \A i \in 1 .. n - p : b[i] = s[p + i]
  BY <1>0, SubSeqProperties
<1>4. <<e>> \in Seq(S) /\ Len(<<e>>) = 1 /\ <<e>>[1] = e
  OBVIOUS
<1> HIDE DEF a, b, n
<1>5. c \in Seq(S) /\ Len(c) = p + 1 /\ \A i \in 1 .. p + 1 : c[i] = IF i <= p THEN s[i] ELSE e
  <2> DEFINE d == <<e>>
  <2> HIDE DEF d
  <2>1. c = a \o d /\ d \in Seq(S) /\ Len(d) = 1 /\ d[1] = e
    BY <1>4 DEF d
  <2>2. /\ c \in Seq(S) /\ Len(c) = Len(a) + Len(d)
        /\ \A i \in 1 .. Len(a) + Len(d) : c[i] = IF i <= Len(a) THEN a[i] ELSE d[i - Len(a)]
    BY <1>2, <2>1, ConcatProperties
  <2>3. \A i \in 1 .. p + 1 : ~(i <= p) => i - p = 1
    BY <1>0
  <2> HIDE DEF c
  <2> QED BY <1>0, <1>2, <2>1, <2>2, <2>3
<1> HIDE DEF c
<1>6. /\ w \in Seq(S) /\ Len(w) = n + 1
      /\ \A i \in 1 .. n + 1 : w[i] = IF i <= p THEN s[i] ELSE IF i = p + 1 THEN e ELSE s[i - 1]
  <2>1. /\ w \in Seq(S) /\ Len(w) = Len(c) + Len(b)
        /\ \A i \in 1 .. Len(c) + Len(b) : w[i] = IF i <= Len(c) THEN c[i] ELSE b[i - Len(c)]
    BY <1>3, <1>5, ConcatProperties
  <2>2. \A i \in 1 .. n + 1 : ~(i <= p + 1) => i - (p + 1) \in 1 .. n - p /\ p + (i - (p + 1)) = i - 1
    BY <1>0
  <2>3. \A i \in 1 .. n + 1 : i <= p + 1 => i \in 1 .. p + 1
    BY <1>0
  <2> HIDE DEF w
  <2>4. w \in Seq(S) /\ Len(w) = n + 1 /\ Len(c) + Len(b) = n + 1
    BY <1>0, <1>3, <1>5, <2>1
  <2>5. ASSUME NEW i \in 1 .. n + 1, i <= p + 1
        PROVE  w[i] = IF i <= p THEN s[i] ELSE IF i = p + 1 THEN e ELSE s[i - 1]
    <3>1. w[i] = c[i]
      BY <1>5, <2>1, <2>4, <2>5
    <3> QED BY <1>0, <1>5, <2>3, <2>5, <3>1
  <2>6. ASSUME NEW i \in 1 .. n + 1, ~(i <= p + 1)
        PROVE  w[i] = s[i - 1] /\ ~(i <= p) /\ i # p + 1
    <3>1. w[i] = b[i - (p + 1)]
      BY <1>5, <2>1, <2>4, <2>6
    <3> QED BY <1>0, <1>3, <2>2, <2>6, <3>1
  <2> QED BY <2>4, <2>5, <2>6
<1> HIDE DEF w
<1>7. /\ v \in Seq(S) /\ Len(v) = m /\ \A i \in 1 .. m : v[i] = w[i]
  <2>1. \A i \in 1 .. m : w[i] \in S /\ i \in 1 .. n + 1
    BY <1>0, <1>6, ElementOfSeq
  <2> QED BY <1>0, <2>1, SubSeqProperties
<1>8. \A i \in 1 .. m : i \in 1 .. n + 1
  BY <1>0
<1> HIDE DEF v
<1> QED BY <1>1, <1>6, <1>7, <1>8 DEF v, n

\* A part of 1 .. n that has every number below one it has.
LEMMA InitialPart ==
    ASSUME NEW n \in Nat, NEW P \in SUBSET (1 .. n), \A i \in P, j \in 1 .. n : j < i => j \in P
    PROVE  Cardinality(P) \in 0 .. n /\ P = 1 .. Cardinality(P)
<1> DEFINE T == {i \in 1 .. n + 1 : i \notin P}
<1>1. T \in SUBSET Nat /\ n + 1 \in T
  OBVIOUS
<1>2. PICK k \in T : \A y \in T : k <= y
  <2> HIDE DEF T
  <2> QED BY <1>1, LeastNat
<1>3. P = 1 .. k - 1
  <2>1. k \in 1 .. n + 1 /\ k \notin P
    BY <1>2
  <2>2. \A i \in 1 .. k - 1 : i \in P
    <3> SUFFICES ASSUME NEW i \in 1 .. k - 1, i \notin P PROVE FALSE
      OBVIOUS
    <3>1. i \in T /\ ~(k <= i)
      BY <2>1
    <3> QED BY <1>2, <3>1
  <2>3. \A i \in P : i \in 1 .. k - 1
    <3> SUFFICES ASSUME NEW i \in P PROVE i < k
      BY <2>1
    <3>1. i \in 1 .. n /\ (k < i => k \in 1 .. n) /\ i # k
      BY <2>1
    <3> QED BY <2>1, <3>1
  <2> QED BY <2>2, <2>3
<1>4. k - 1 \in 0 .. n
  BY <1>2
<1> DEFINE m == k - 1
<1>5. Cardinality(1 .. m) = m
  <2>1. 1 \in Int /\ m \in Int /\ m >= 0
    BY <1>4
  <2> HIDE DEF m
  <2>2. Cardinality(1 .. m) = IF 1 > m THEN 0 ELSE m - 1 + 1
    BY <2>1, FS_Interval
  <2> QED BY <2>1, <2>2
<1> QED BY <1>3, <1>4, <1>5

\* The place of an id is behind those that are nearer.
LEMMA PlaceIs ==
    ASSUME NEW t \in Ids, NEW X, NEW s, Best(s, X, t), NEW id \in Ids
    PROVE  LET p == Place(id, s, t) - 1
           IN  p \in 0 .. Len(s) /\ \A i \in 1 .. Len(s) : Nearer(s[i], id, t) <=> i <= p
<1> DEFINE n == Len(s)
           P == {i \in 1 .. n : Nearer(s[i], id, t)}
           p == Cardinality(P)
<1>1. /\ s \in Seq(Ids) /\ n \in Nat /\ DOMAIN s = 1 .. n /\ \A i \in 1 .. n : s[i] \in Ids
      /\ \A i, j \in 1 .. n : i < j => Nearer(s[i], s[j], t)
  BY LenProperties, ElementOfSeq DEF Best
<1>2. Place(id, s, t) = p + 1
  BY <1>1 DEF Place
<1> HIDE DEF n
<1>3. \A i \in P, j \in 1 .. n : j < i => j \in P
  <2> SUFFICES ASSUME NEW i \in P, NEW j \in 1 .. n, j < i PROVE Nearer(s[j], id, t)
    OBVIOUS
  <2>1. Nearer(s[j], s[i], t) /\ Nearer(s[i], id, t) /\ s[i] \in Ids /\ s[j] \in Ids
    BY <1>1
  <2> QED BY <2>1, NearerOrders
<1>4. p \in 0 .. n /\ P = 1 .. p
  <2>1. P \in SUBSET (1 .. n)
    OBVIOUS
  <2> HIDE DEF P
  <2> QED BY <1>1, <1>3, <2>1, InitialPart
<1>5. \A i \in 1 .. n : Nearer(s[i], id, t) <=> i <= p
  <2> SUFFICES ASSUME NEW i \in 1 .. n PROVE Nearer(s[i], id, t) <=> i <= p
    OBVIOUS
  <2>1. Nearer(s[i], id, t) <=> i \in P
    OBVIOUS
  <2> HIDE DEF P
  <2>2. i \in P <=> i <= p
    BY <1>1, <1>4
  <2> QED BY <2>1, <2>2
<1> HIDE DEF P
<1>6. Place(id, s, t) - 1 = p
  BY <1>1, <1>2, <1>4
<1> QED BY <1>4, <1>5, <1>6 DEF n
LEMMA MinOfTwo ==
    ASSUME NEW a \in Nat, NEW b \in Nat
    PROVE  Min({a, b}) = IF a <= b THEN a ELSE b
<1> DEFINE m == IF a <= b THEN a ELSE b
<1>1. m \in {a, b} /\ \A y \in {a, b} : m <= y
  OBVIOUS
<1>2. \A x \in {a, b} : (\A y \in {a, b} : x <= y) => x = m
  OBVIOUS
<1> HIDE DEF m
<1>3. Min({a, b}) = m
  BY <1>1, <1>2 DEF Min
<1> QED BY <1>3 DEF m

\* insert_closest_node keeps the list of the nearest.
LEMMA InsertKeepsBest ==
    ASSUME NEW t \in Ids, NEW X \in SUBSET Ids, NEW s, Best(s, X, t), NEW id \in Ids
    PROVE  Best(InsertClosest(id, s, t), X \cup {id}, t)
<1> DEFINE n == Len(s)
           p == Place(id, s, t) - 1
           Y == X \cup {id}
           r == InsertClosest(id, s, t)
<1>0. CLOSEST \in Nat
  BY ConstantsAssumption
<1>1. /\ s \in Seq(Ids) /\ n \in Nat /\ n <= CLOSEST
      /\ \A i \in 1 .. n : s[i] \in X /\ s[i] \in Ids
      /\ \A i, j \in 1 .. n : i < j => Nearer(s[i], s[j], t)
      /\ \A x \in X : \/ \E i \in 1 .. n : s[i] = x
                      \/ n = CLOSEST /\ \A i \in 1 .. n : Nearer(s[i], x, t)
  BY LenProperties, ElementOfSeq DEF Best
<1>2. p \in 0 .. n /\ \A i \in 1 .. n : Nearer(s[i], id, t) <=> i <= p
  BY PlaceIs
<1>3. Place(id, s, t) = p + 1
  <2>1. Cardinality({i \in DOMAIN s : Nearer(s[i], id, t)}) = p
    <3> DEFINE c == Cardinality({i \in DOMAIN s : Nearer(s[i], id, t)})
    <3>1. DOMAIN s = 1 .. n
      BY <1>1, LenProperties
    <3>2. IsFiniteSet({i \in DOMAIN s : Nearer(s[i], id, t)})
      <4>1. IsFiniteSet(1 .. n)
        BY <1>1, FS_Interval
      <4> QED BY <3>1, <4>1, FS_Subset
    <3>3. c \in Nat
      BY <3>2, FS_CardinalityType
    <3>4. Place(id, s, t) = c + 1
      BY DEF Place
    <3> HIDE DEF c
    <3>5. p = c
      BY <3>3, <3>4
    <3> QED BY <3>5 DEF c
  <2> QED BY <2>1 DEF Place
<1>4. id \in ToSet(s) <=> \E i \in 1 .. n : s[i] = id
  BY <1>1, ElementsOfSeq
<1> HIDE DEF n, p
<1>5. CASE id \in ToSet(s)
  <2>1. r = s
    BY <1>5 DEF InsertClosest
  <2>2. Y = X
    BY <1>1, <1>4, <1>5
  <2> QED BY <2>1, <2>2
<1>6. CASE id \notin ToSet(s) /\ p + 1 > CLOSEST
  <2>1. r = s
    BY <1>3, <1>6 DEF InsertClosest
  <2>2. n = CLOSEST /\ p = n
    BY <1>0, <1>1, <1>2, <1>6
  <2>3. \A i \in 1 .. n : Nearer(s[i], id, t)
    BY <1>1, <1>2, <2>2
  <2> QED BY <1>1, <2>1, <2>2, <2>3 DEF Best, n
<1>7. CASE id \notin ToSet(s) /\ ~(p + 1 > CLOSEST)
  <2> DEFINE m == IF CLOSEST <= n + 1 THEN CLOSEST ELSE n + 1
             w == SubSeq(InsertAt(s, p + 1, id), 1, m)
  <2>1. m \in 0 .. n + 1 /\ p + 1 <= m /\ p + 1 \in 1 .. m /\ m <= CLOSEST
        /\ (m < n + 1 => n = CLOSEST /\ m = CLOSEST)
    BY <1>0, <1>1, <1>2, <1>7
  <2>2. /\ Len(InsertAt(s, p + 1, id)) = n + 1 /\ w \in Seq(Ids) /\ Len(w) = m
        /\ \A i \in 1 .. m : w[i] = IF i <= p THEN s[i] ELSE IF i = p + 1 THEN id ELSE s[i - 1]
    <3> HIDE DEF m
    <3> QED BY <1>1, <1>2, <2>1, InsertedList DEF n
  <2>3. r = w
    <3>1. Min({CLOSEST, n + 1}) = m
      BY <1>0, <1>1, MinOfTwo
    <3> HIDE DEF m
    <3> QED BY <1>3, <1>7, <2>2, <3>1 DEF InsertClosest
  <2> HIDE DEF m, w
  <2>4. \A i \in 1 .. n : /\ i <= p => Nearer(s[i], id, t)
                          /\ ~(i <= p) => Nearer(id, s[i], t)
    <3> SUFFICES ASSUME NEW i \in 1 .. n, ~(i <= p) PROVE Nearer(id, s[i], t)
      BY <1>2
    <3>1. s[i] # id /\ s[i] \in Ids /\ ~Nearer(s[i], id, t)
      BY <1>1, <1>2, <1>4, <1>7
    <3> QED BY <3>1, NearerOrders
  <2>5. \A i \in 1 .. m : /\ i <= p => i \in 1 .. n /\ w[i] = s[i]
                          /\ i > p + 1 => i - 1 \in 1 .. n /\ w[i] = s[i - 1] /\ ~(i - 1 <= p)
                          /\ i = p + 1 => w[i] = id
    BY <1>1, <1>2, <2>1, <2>2
  <2>6. \A i \in 1 .. m : w[i] \in Y
    <3> SUFFICES ASSUME NEW i \in 1 .. m PROVE w[i] \in Y
      OBVIOUS
    <3>1. i <= p \/ i = p + 1 \/ i > p + 1
      BY <1>1, <1>2
    <3> QED BY <1>1, <2>5, <3>1
  <2>7. ASSUME NEW i \in 1 .. m, NEW j \in 1 .. m, i < j PROVE Nearer(w[i], w[j], t)
    <3>0. p \in Nat /\ i \in Nat /\ j \in Nat
      BY <1>1, <1>2, <2>1
    <3>1. CASE j <= p
      BY <1>1, <2>5, <2>7, <3>0, <3>1
    <3>2. CASE j = p + 1
      BY <2>4, <2>5, <2>7, <3>0, <3>2
    <3>3. CASE j > p + 1 /\ i > p + 1
      <4>1. i - 1 \in 1 .. n /\ j - 1 \in 1 .. n /\ i - 1 < j - 1
        BY <2>5, <2>7, <3>0, <3>3
      <4>2. Nearer(s[i - 1], s[j - 1], t)
        BY <1>1, <4>1
      <4> QED BY <2>5, <3>3, <4>2
    <3>4. CASE j > p + 1 /\ i = p + 1
      <4>1. Nearer(id, s[j - 1], t)
        BY <2>4, <2>5, <3>4
      <4> QED BY <2>5, <3>4, <4>1
    <3>5. CASE j > p + 1 /\ i <= p
      <4>1. i \in 1 .. n /\ j - 1 \in 1 .. n /\ i < j - 1
        BY <2>5, <3>0, <3>5
      <4>2. Nearer(s[i], s[j - 1], t)
        BY <1>1, <4>1
      <4> QED BY <2>5, <3>5, <4>2
    <3> QED BY <3>0, <3>1, <3>2, <3>3, <3>4, <3>5
  <2>8. ASSUME NEW x \in Y
        PROVE  \/ \E i \in 1 .. m : w[i] = x
               \/ m = CLOSEST /\ \A i \in 1 .. m : Nearer(w[i], x, t)
    <3>1. CASE x = id
      BY <2>1, <2>5, <3>1
    <3>2. CASE \E i \in 1 .. n : s[i] = x
      <4>1. PICK i \in 1 .. n : s[i] = x
        BY <3>2
      <4> DEFINE k == IF i <= p THEN i ELSE i + 1
      <4>2. k \in 1 .. n + 1 /\ (k <= m => w[k] = x)
        <5>1. k \in 1 .. n + 1 /\ k \in Nat
          BY <1>1, <1>2
        <5>2. CASE i <= p /\ k <= m
          BY <1>1, <1>2, <2>1, <2>5, <4>1, <5>1, <5>2
        <5>3. CASE ~(i <= p) /\ k <= m
          <6>1. i + 1 \in 1 .. m /\ i + 1 > p + 1 /\ (i + 1) - 1 = i
            BY <1>1, <1>2, <2>1, <5>3
          <6>2. w[i + 1] = s[(i + 1) - 1]
            BY <2>5, <6>1
          <6> QED BY <4>1, <5>1, <5>3, <6>1, <6>2
        <5> QED BY <5>1, <5>2, <5>3
      <4>3. CASE k <= m
        BY <2>1, <4>2, <4>3
      <4>4. CASE ~(k <= m)
        <5>1. m < n + 1 /\ i = n
          BY <1>1, <1>2, <2>1, <4>2, <4>4
        <5>2. m = CLOSEST /\ n = CLOSEST /\ ~(n <= p)
          BY <1>0, <1>1, <1>2, <2>1, <4>4, <5>1
        <5>3. ASSUME NEW j \in 1 .. m PROVE Nearer(w[j], s[n], t)
          <6>0. n \in 1 .. n /\ j \in Nat /\ p \in Nat
            BY <1>1, <1>2, <2>1
          <6>1. CASE j <= p
            <7>1. j < n /\ j \in 1 .. n /\ w[j] = s[j]
              BY <1>1, <1>2, <2>5, <5>2, <6>0, <6>1
            <7> QED BY <1>1, <6>0, <7>1
          <6>2. CASE j = p + 1
            BY <2>4, <2>5, <5>2, <6>0, <6>2
          <6>3. CASE j > p + 1
            <7>1. j - 1 < n /\ j - 1 \in 1 .. n /\ w[j] = s[j - 1]
              BY <1>1, <2>5, <5>2, <6>0, <6>3
            <7> QED BY <1>1, <6>0, <7>1
          <6> QED BY <6>0, <6>1, <6>2, <6>3
        <5> QED BY <4>1, <5>1, <5>2, <5>3
      <4> QED BY <4>3, <4>4
    <3>3. CASE x # id /\ ~\E i \in 1 .. n : s[i] = x
      <4>1. n = CLOSEST /\ x \in Ids /\ \A i \in 1 .. n : Nearer(s[i], x, t)
        BY <1>1, <3>3
      <4>2. m = CLOSEST /\ p < n
        BY <1>0, <1>1, <1>2, <1>7, <2>1, <4>1
      <4>3. Nearer(id, x, t)
        <5>1. p + 1 \in 1 .. n /\ ~(p + 1 <= p)
          BY <1>1, <1>2, <4>2
        <5>2. Nearer(id, s[p + 1], t) /\ Nearer(s[p + 1], x, t) /\ s[p + 1] \in Ids
          BY <1>1, <2>4, <4>1, <5>1
        <5> QED BY <4>1, <5>2, NearerOrders
      <4>4. ASSUME NEW j \in 1 .. m PROVE Nearer(w[j], x, t)
        <5>1. j <= p \/ j = p + 1 \/ j > p + 1
          BY <1>1, <1>2
        <5> QED BY <2>5, <4>1, <4>3, <5>1
      <4> QED BY <4>2, <4>4
    <3> QED BY <3>1, <3>2, <3>3
  <2>9. Best(w, Y, t)
    BY <2>1, <2>2, <2>6, <2>7, <2>8 DEF Best
  <2> QED BY <2>3, <2>9
<1> QED BY <1>5, <1>6, <1>7
-----------------------------------------------------------------------------
(* The three buckets. *)

\* The lists on the way, by the ids that are in them.
Stages(iter, S, s, t) ==
    /\ iter[{}] = s
    /\ \A Z \in SUBSET S : Z # {} =>
         \E x \in Z : iter[Z] = InsertClosest(x, iter[Z \ {x}], t)

\* The good nodes of a bucket are inserted one by one.
LEMMA FoldSteps ==
    ASSUME NEW f, IsFiniteSet(GoodIds(f)), NEW s, NEW t
    PROVE  \E iter : BufferClosest(s, t, f) = iter[GoodIds(f)] /\ Stages(iter, GoodIds(f), s, t)
<1> DEFINE S == GoodIds(f)
           D == SUBSET S
           pick(Z) == CHOOSE x \in Z : TRUE
           Value(Z, g) == IF Z = {} THEN s ELSE InsertClosest(pick(Z), g[Z \ {pick(Z)}], t)
           iter == CHOOSE g : g = [Z \in D |-> Value(Z, g)]
           Part(k) == {Z \in D : Cardinality(Z) <= k}
           Upto(k) == \E g : g = [Z \in Part(k) |-> Value(Z, g)]
           T == {k \in Nat : ~Upto(k)}
<1>1. BufferClosest(s, t, f) = iter[S]
  BY DEF BufferClosest, FoldSet, MapThenFoldSet
<1>0. IsFiniteSet(S)
  OBVIOUS
<1> HIDE DEF S
<1>2. \A Z \in D : IsFiniteSet(Z) /\ Cardinality(Z) \in Nat
                   /\ Cardinality(Z) <= Cardinality(S)
  BY <1>0, FS_Subset, FS_CardinalityType
<1>3. \A Z \in D : Z # {} => /\ pick(Z) \in Z /\ Z \ {pick(Z)} \in D
                             /\ Cardinality(Z \ {pick(Z)}) = Cardinality(Z) - 1
  BY <1>2, FS_RemoveElement
<1>4. \A Z \in D : Cardinality(Z) <= 0 => Z = {}
  BY <1>2, FS_EmptySet
<1>5. T = {}
  <2> SUFFICES ASSUME T # {} PROVE FALSE
    OBVIOUS
  <2>0. T \in SUBSET Nat
    OBVIOUS
  <2>1. PICK k \in T : \A l \in T : k <= l
    <3> HIDE DEF T
    <3> QED BY <2>0, LeastNat
  <2>2. CASE k = 0
    <3> DEFINE g == [Z \in Part(0) |-> s]
    <3>1. \A Z \in Part(0) : Value(Z, g) = s
      BY <1>4
    <3>2. g = [Z \in Part(0) |-> Value(Z, g)]
      BY <3>1
    <3> QED BY <2>1, <2>2, <3>2
  <2>3. CASE k # 0
    <3>1. k - 1 \in Nat /\ k \in Nat /\ k - 1 \notin T
      <4> HIDE DEF T
      <4>1. k \in Nat
        BY <2>0, <2>1
      <4>2. ~(k <= k - 1) /\ k - 1 \in Nat
        BY <2>3, <4>1
      <4> QED BY <2>1, <4>1, <4>2
    <3>2. PICK g : g = [Z \in Part(k - 1) |-> Value(Z, g)]
      BY <3>1
    <3> DEFINE h == [Z \in Part(k) |-> Value(Z, g)]
    <3>3. \A Z \in Part(k) : Z # {} => Z \ {pick(Z)} \in Part(k - 1)
      BY <1>2, <1>3, <3>1
    <3>4. \A Z \in Part(k - 1) : Z \in Part(k)
      BY <1>2, <3>1
    <3> HIDE DEF Part
    <3>5. \A Z \in Part(k - 1) : h[Z] = Value(Z, g) /\ g[Z] = Value(Z, g)
      BY <3>2, <3>4
    <3> HIDE DEF pick, h
    <3>6. \A Z \in Part(k) : Value(Z, h) = Value(Z, g)
      <4> SUFFICES ASSUME NEW Z \in Part(k), Z # {}
                   PROVE  h[Z \ {pick(Z)}] = g[Z \ {pick(Z)}]
        OBVIOUS
      <4> HIDE DEF Value
      <4> QED BY <3>3, <3>5
    <3> HIDE DEF Value
    <3>7. h = [Z \in Part(k) |-> Value(Z, h)]
      BY <3>6 DEF h
    <3> HIDE DEF h
    <3>8. Upto(k)
      BY <3>7
    <3> QED BY <2>1, <3>8
  <2> QED BY <2>2, <2>3
<1>6. iter = [Z \in D |-> Value(Z, iter)]
  <2>1. Cardinality(S) \in Nat /\ Cardinality(S) \notin T
    BY <1>0, <1>5, FS_CardinalityType
  <2>2. Part(Cardinality(S)) = D
    BY <1>2
  <2> HIDE DEF D, Value, Part
  <2>3. \E g : g = [Z \in D |-> Value(Z, g)]
    BY <2>1, <2>2
  <2> QED BY <2>3
<1> HIDE DEF iter
<1>7. iter[{}] = s
  BY <1>6
<1>8. \A Z \in D : Z # {} => pick(Z) \in Z /\ iter[Z] = InsertClosest(pick(Z), iter[Z \ {pick(Z)}], t)
  BY <1>3, <1>6
<1>9. \A Z \in SUBSET S : Z # {} => \E x \in Z : iter[Z] = InsertClosest(x, iter[Z \ {x}], t)
  <2> HIDE DEF pick
  <2> QED BY <1>8
<1>10. Stages(iter, S, s, t)
  BY <1>7, <1>9 DEF Stages
<1> QED BY <1>1, <1>10 DEF S

\* After all of them the list is that of the nearest.
LEMMA FoldKeepsBest ==
    ASSUME NEW t \in Ids, NEW X \in SUBSET Ids, NEW s, Best(s, X, t),
           NEW f, GoodIds(f) \in SUBSET Ids, IsFiniteSet(GoodIds(f))
    PROVE  Best(BufferClosest(s, t, f), X \cup GoodIds(f), t)
<1> DEFINE S == GoodIds(f)
<1>1. PICK iter : BufferClosest(s, t, f) = iter[S] /\ Stages(iter, S, s, t)
  BY FoldSteps
<1>0. S \in SUBSET Ids /\ IsFiniteSet(S)
  OBVIOUS
<1> HIDE DEF S
<1> DEFINE Bad == {Z \in SUBSET S : ~Best(iter[Z], X \cup Z, t)}
           T == {Cardinality(Z) : Z \in Bad}
<1>2. \A Z \in SUBSET S : IsFiniteSet(Z) /\ Cardinality(Z) \in Nat
  BY <1>0, FS_Subset, FS_CardinalityType
<1>3. Bad = {}
  <2> SUFFICES ASSUME Bad # {} PROVE FALSE
    OBVIOUS
  <2>1. PICK k \in T : \A l \in T : k <= l
    <3>1. T \in SUBSET Nat /\ T # {}
      BY <1>2
    <3> HIDE DEF T
    <3> QED BY <3>1, LeastNat
  <2>2. PICK Z \in Bad : k = Cardinality(Z)
    OBVIOUS
  <2>3. Z # {}
    <3>1. X \cup {} = X
      OBVIOUS
    <3> QED BY <1>1, <2>2, <3>1 DEF Stages
  <2>4. PICK x \in Z : iter[Z] = InsertClosest(x, iter[Z \ {x}], t)
    BY <1>1, <2>2, <2>3 DEF Stages
  <2> DEFINE Y == Z \ {x}
  <2>5. Y \in SUBSET S /\ Cardinality(Y) < k /\ Cardinality(Y) \in Nat
    <3>1. IsFiniteSet(Z) /\ Cardinality(Z) \in Nat
      BY <1>2, <2>2
    <3>2. Cardinality(Y) = Cardinality(Z) - 1
      BY <3>1, FS_RemoveElement
    <3>3. Y \in SUBSET S
      BY <2>2
    <3> HIDE DEF Y
    <3> QED BY <1>2, <2>2, <3>1, <3>2, <3>3
  <2>6. Y \notin Bad
    <3> HIDE DEF Bad, Y
    <3> SUFFICES ASSUME Y \in Bad PROVE FALSE
      OBVIOUS
    <3>1. Cardinality(Y) \in T
      OBVIOUS
    <3>2. k <= Cardinality(Y) /\ k \in Nat
      BY <1>2, <2>1, <2>2, <3>1 DEF Bad
    <3> QED BY <2>5, <3>2
  <2>7. Best(iter[Y], X \cup Y, t)
    BY <2>5, <2>6
  <2>8. X \cup Y \in SUBSET Ids /\ x \in Ids /\ (X \cup Y) \cup {x} = X \cup Z
    BY <1>0, <2>2
  <2> HIDE DEF Y
  <2>9. Best(InsertClosest(x, iter[Y], t), (X \cup Y) \cup {x}, t)
    BY <2>7, <2>8, InsertKeepsBest
  <2>10. Best(iter[Z], X \cup Z, t)
    BY <2>4, <2>8, <2>9 DEF Y
  <2> QED BY <2>2, <2>10
<1>4. Best(iter[S], X \cup S, t)
  BY <1>3
<1> QED BY <1>1, <1>4 DEF S
LEMMA GoodIdsAre ==
    ASSUME IInv, NEW f \in Firsts
    PROVE  /\ GoodIds(f) \in SUBSET Ids /\ IsFiniteSet(GoodIds(f))
           /\ \A id \in GoodIds(f) : Home(Firsts, id) = f
<1>1. Fits(Firsts, loose, f, bucket[f]) /\ Whole(bucket[f])
  BY InvFacts
<1> DEFINE N == {m \in Nodes(f) : Good(m)}
<1>2. IsFiniteSet(N) /\ N \subseteq NodeRecord /\ \A n \in N : Home(Firsts, n.id) = f
  BY <1>1, FS_Subset DEF Fits, Whole, Bucket, Nodes
<1>3. GoodIds(f) = {n.id : n \in N}
  BY DEF GoodIds
<1>4. \A n \in NodeRecord : n.id \in Ids
  BY ConstantsAssumption DEF NodeRecord, Ids
<1> HIDE DEF N
<1>5. IsFiniteSet({n.id : n \in N})
  <2> DEFINE T == {n.id : n \in N}
             g == [n \in N |-> n.id]
  <2>1. g \in Surjection(N, T)
    BY DEF Surjection
  <2> HIDE DEF T, g
  <2>2. IsFiniteSet(T)
    BY <1>2, <2>1, FS_Surjection
  <2> QED BY <2>2 DEF T
<1> QED BY <1>2, <1>3, <1>4, <1>5

LEMMA BucketsBeside ==
    ASSUME IInv, NEW f \in Firsts
    PROVE  /\ HasNext(f) => NextFirst(f) \in Firsts
           /\ HasPrevious(f) => PreviousFirst(f) \in Firsts
<1>1. Begins(Firsts)
  BY InvFacts
<1>2. HasNext(f) => NextFirst(f) \in Firsts
  BY <1>1, InTheseTerms, EndIs DEF HasNext
<1>3. ASSUME HasPrevious(f) PROVE PreviousFirst(f) \in Firsts
  <2>0. 2^BITS \in Nat
    BY ConstantsAssumption, PowDivides
  <2>1. f - 1 \in Ids /\ \A g \in Firsts : g \in Nat /\ f \in Nat
    <3>1. \A g \in Firsts : g \in Nat /\ g <= 2^BITS - 1
      BY <1>1, <2>0 DEF Begins, Ids
    <3>2. PICK g \in Firsts : g < f
      BY <1>3 DEF HasPrevious
    <3>3. f - 1 \in Nat /\ f - 1 <= 2^BITS - 1
      BY <2>0, <3>1, <3>2
    <3> QED BY <2>0, <3>1, <3>3 DEF Ids
  <2> DEFINE y == Home(Firsts, f - 1)
  <2>2. y \in Firsts /\ y <= f - 1 /\ \A g \in Firsts : g <= f - 1 => g <= y
    BY <1>1, <2>1, HomeIs
  <2> HIDE DEF y
  <2>3. y \in Firsts /\ y < f /\ \A h \in Firsts : h < f => h <= y
    BY <2>1, <2>2
  <2> QED BY <2>3 DEF PreviousFirst
<1> QED BY <1>2, <1>3

\* An offer is the list of the nearest among the good nodes of three buckets.
LEMMA OfferIsBest ==
    ASSUME IInv, NEW t \in Ids
    PROVE  /\ GoodIds(FindBucket(t)) \subseteq LookedAt(t) /\ LookedAt(t) \subseteq AllGood
           /\ Best(Offer(t), LookedAt(t), t)
<1> DEFINE f == FindBucket(t)
           here == BufferClosest(<<>>, t, f)
           next == IF HasNext(f) THEN BufferClosest(here, t, NextFirst(f)) ELSE here
           last == IF HasPrevious(f) THEN BufferClosest(next, t, PreviousFirst(f)) ELSE next
           A == GoodIds(f)
           B == IF HasNext(f) THEN A \cup GoodIds(NextFirst(f)) ELSE A
           C == IF HasPrevious(f) THEN B \cup GoodIds(PreviousFirst(f)) ELSE B
<1>1. f \in Firsts
  BY InvFacts, InTheseTerms
<1>2. \A g \in Firsts : /\ GoodIds(g) \in SUBSET Ids /\ IsFiniteSet(GoodIds(g))
                        /\ GoodIds(g) \subseteq AllGood
  BY GoodIdsAre DEF AllGood
<1>3. /\ HasNext(f) => NextFirst(f) \in Firsts
      /\ HasPrevious(f) => PreviousFirst(f) \in Firsts
  BY <1>1, BucketsBeside
<1>4. Offer(t) = last
  BY DEF Offer
<1>0. LookedAt(t) = C
  BY DEF LookedAt
<1> HIDE DEF f
<1>5. Best(<<>>, {}, t)
  BY ConstantsAssumption, EmptySeq DEF Best
<1>6. Best(here, A, t) /\ A \in SUBSET Ids
  <2>1. Best(here, {} \cup A, t)
    BY <1>1, <1>2, <1>5, FoldKeepsBest
  <2> QED BY <1>1, <1>2, <2>1
<1> HIDE DEF here
<1>7. Best(next, B, t) /\ B \in SUBSET Ids
  <2>1. CASE HasNext(f)
    <3> HIDE DEF A
    <3> QED BY <1>2, <1>3, <1>6, <2>1, FoldKeepsBest
  <2>2. CASE ~HasNext(f)
    BY <1>6, <2>2
  <2> QED BY <2>1, <2>2
<1>8. A \subseteq B /\ B \subseteq AllGood
  BY <1>1, <1>2, <1>3
<1> HIDE DEF next, B
<1>9. Best(last, C, t)
  <2>1. CASE HasPrevious(f)
    BY <1>2, <1>3, <1>7, <2>1, FoldKeepsBest
  <2>2. CASE ~HasPrevious(f)
    BY <1>7, <2>2
  <2> QED BY <2>1, <2>2
<1>10. A \subseteq C /\ C \subseteq AllGood
  BY <1>2, <1>3, <1>8
<1> HIDE DEF C, last
<1> QED BY <1>0, <1>4, <1>9, <1>10 DEF f, A

\* The nearest nodes of the table are in the target's bucket, as far as it has
\* enough of them.
LEMMA OffersAreNearest == IInv => OffersNearest
<1> SUFFICES ASSUME IInv, NEW t \in Ids
             PROVE  LET offer == Offer(t)
                        compared == IF Cardinality(GoodIds(FindBucket(t))) >= CLOSEST
                                    THEN AllGood ELSE LookedAt(t)
                    IN  /\ ToSet(offer) \subseteq LookedAt(t)
                        /\ \A i \in DOMAIN offer : \A j \in 1 .. i - 1 : Nearer(offer[j], offer[i], t)
                        /\ \A id \in compared \ ToSet(offer) :
                              /\ Len(offer) = CLOSEST
                              /\ \A i \in DOMAIN offer : Nearer(offer[i], id, t)
  BY DEF OffersNearest
<1> DEFINE offer == Offer(t)
           f == FindBucket(t)
           home == GoodIds(f)
           n == Len(offer)
           X == LookedAt(t)
<1>1. X \in SUBSET AllGood /\ home \subseteq X /\ Best(offer, X, t)
  BY OfferIsBest
<1> HIDE DEF X
<1>2. f \in Firsts /\ f = Home(Firsts, t) /\ Begins(Firsts) /\ Layout(Firsts) /\ f \in Nat
  <2>1. f \in Firsts /\ f = Home(Firsts, t) /\ Begins(Firsts) /\ Layout(Firsts)
    BY InvFacts, InTheseTerms
  <2> HIDE DEF f
  <2>2. f \in Ids
    BY <2>1 DEF Begins
  <2> QED BY <2>1, <2>2 DEF Ids
<1>3. \A g \in Firsts : /\ GoodIds(g) \in SUBSET Ids /\ IsFiniteSet(GoodIds(g))
                        /\ \A id \in GoodIds(g) : Home(Firsts, id) = g
  BY GoodIdsAre
<1>4. \A id \in AllGood : id \in Ids /\ \E g \in Firsts : id \in GoodIds(g)
  BY <1>3 DEF AllGood
<1> HIDE DEF offer, f
<1>5. IsFiniteSet(home) /\ home \in SUBSET Ids /\ Cardinality(home) \in Nat
  BY <1>2, <1>3, FS_CardinalityType
<1>6. /\ offer \in Seq(Ids) /\ n \in Nat /\ n <= CLOSEST /\ DOMAIN offer = 1 .. n
      /\ ToSet(offer) = {offer[i] : i \in 1 .. n}
      /\ \A i \in 1 .. n : offer[i] \in X /\ offer[i] \in Ids
      /\ \A i, j \in 1 .. n : i < j => Nearer(offer[i], offer[j], t)
      /\ \A x \in X : \/ \E i \in 1 .. n : offer[i] = x
                      \/ n = CLOSEST /\ \A i \in 1 .. n : Nearer(offer[i], x, t)
  BY <1>1, LenProperties, ElementOfSeq, ElementsOfSeq DEF Best
<1>7. CLOSEST \in Nat
  BY ConstantsAssumption
<1> HIDE DEF n
<1>8. IsFiniteSet(ToSet(offer)) /\ Cardinality(ToSet(offer)) \in Nat /\ Cardinality(ToSet(offer)) <= n
  <2> DEFINE I == 1 .. n
             T == ToSet(offer)
             g == [i \in I |-> offer[i]]
  <2>1. IsFiniteSet(I) /\ Cardinality(I) = n
    BY <1>6, FS_Interval
  <2>2. g \in Surjection(I, T)
    BY <1>6 DEF Surjection
  <2> HIDE DEF I, T, g
  <2>3. IsFiniteSet(T) /\ Cardinality(T) <= n
    BY <2>1, <2>2, FS_Surjection
  <2>4. Cardinality(T) \in Nat
    BY <2>3, FS_CardinalityType
  <2> QED BY <2>3, <2>4 DEF T
<1>9. n < CLOSEST => home \subseteq ToSet(offer)
  <2> HIDE DEF home
  <2> QED BY <1>1, <1>6, <1>7
<1>10. n >= Min({CLOSEST, Cardinality(home)})
  <2>1. CASE n < CLOSEST
    <3>1. Cardinality(home) <= Cardinality(ToSet(offer))
      BY <1>8, <1>9, <2>1, FS_Subset
    <3>2. Cardinality(home) <= n
      BY <1>5, <1>6, <1>8, <3>1
    <3> HIDE DEF home
    <3>3. Min({CLOSEST, Cardinality(home)}) = IF CLOSEST <= Cardinality(home) THEN CLOSEST ELSE Cardinality(home)
      BY <1>5, <1>7, MinOfTwo
    <3> QED BY <1>5, <1>6, <1>7, <3>2, <3>3
  <2>2. CASE ~(n < CLOSEST)
    <3> HIDE DEF home
    <3>3. Min({CLOSEST, Cardinality(home)}) = IF CLOSEST <= Cardinality(home) THEN CLOSEST ELSE Cardinality(home)
      BY <1>5, <1>7, MinOfTwo
    <3> QED BY <1>5, <1>6, <1>7, <2>2, <3>3
  <2> QED BY <2>1, <2>2
<1>11. ASSUME NEW i \in 1 .. n, NEW j \in 1 .. i - 1 PROVE Nearer(offer[j], offer[i], t)
  <2>1. j \in 1 .. n /\ j < i
    BY <1>6
  <2> QED BY <1>6, <2>1
\* Every node of the target's bucket is nearer than any other.
<1>12. ASSUME NEW a \in home, NEW x \in AllGood \ home PROVE Nearer(a, x, t)
  <2>1. PICK k \in 0 .. BITS : f % 2^k = 0 /\ Extent(Firsts, f) = 2^k
    BY <1>2 DEF Layout, Block
  <2>2. End(Firsts, f) = f + 2^k
    <3>1. End(Firsts, f) \in Nat
      BY <1>2, EndIs
    <3> QED BY <1>2, <2>1, <3>1 DEF Extent
  <2>3. a \in Ids /\ x \in Ids /\ Home(Firsts, a) = f /\ Home(Firsts, x) # f
    BY <1>2, <1>3, <1>4
  <2>4. /\ f <= t /\ t < f + 2^k
        /\ f <= a /\ a < f + 2^k
        /\ ~(f <= x /\ x < f + 2^k)
    BY <1>2, <2>2, <2>3, HomeCovers
  <2> HIDE DEF home
  <2> QED BY <1>2, <2>1, <2>3, <2>4, BlockNearer
<1>13. ASSUME Cardinality(home) >= CLOSEST, NEW id \in AllGood \ ToSet(offer), NEW i \in 1 .. n
       PROVE  Nearer(offer[i], id, t)
  <2> HIDE DEF home
  <2>1. CASE offer[i] \in home
    <3>1. CASE id \in home
      BY <1>1, <1>6, <1>13, <3>1
    <3>2. CASE id \notin home
      BY <1>12, <2>1, <3>2
    <3> QED BY <3>1, <3>2
  <2>2. CASE offer[i] \notin home
    <3>1. home \subseteq ToSet(offer)
      <4> SUFFICES ASSUME NEW a \in home, a \notin ToSet(offer) PROVE FALSE
        OBVIOUS
      <4>1. Nearer(offer[i], a, t) /\ offer[i] \in Ids /\ a \in Ids /\ offer[i] \in AllGood
        BY <1>1, <1>5, <1>6
      <4>2. Nearer(a, offer[i], t)
        BY <1>12, <2>2, <4>1
      <4> QED BY <4>1, <4>2, NearerOrders
    <3> DEFINE S == home \cup {offer[i]}
    <3>2. IsFiniteSet(S) /\ Cardinality(S) = Cardinality(home) + 1
      BY <1>5, <2>2, FS_AddElement
    <3>3. S \subseteq ToSet(offer)
      BY <1>6, <3>1
    <3> HIDE DEF S
    <3>4. Cardinality(S) <= Cardinality(ToSet(offer))
      BY <1>8, <3>3, FS_Subset
    <3> QED BY <1>5, <1>6, <1>7, <1>8, <1>13, <3>2, <3>4
  <2> QED BY <2>1, <2>2
<1>14. ToSet(offer) \subseteq X
  BY <1>1, <1>6
<1>15. ASSUME Cardinality(home) >= CLOSEST PROVE n = CLOSEST
  <2> HIDE DEF home
  <2>1. Min({CLOSEST, Cardinality(home)}) = IF CLOSEST <= Cardinality(home) THEN CLOSEST ELSE Cardinality(home)
    BY <1>5, <1>7, MinOfTwo
  <2> QED BY <1>5, <1>6, <1>7, <1>10, <1>15, <2>1
<1>16. ASSUME NEW id \in X \ ToSet(offer) PROVE n = CLOSEST /\ \A i \in 1 .. n : Nearer(offer[i], id, t)
  BY <1>6
<1> DEFINE compared == IF Cardinality(home) >= CLOSEST THEN AllGood ELSE X
<1>17. ASSUME NEW id \in compared \ ToSet(offer) PROVE n = CLOSEST /\ \A i \in 1 .. n : Nearer(offer[i], id, t)
  <2>1. CASE Cardinality(home) >= CLOSEST
    <3>1. id \in AllGood \ ToSet(offer)
      BY <1>17, <2>1
    <3> QED BY <1>13, <1>15, <2>1, <3>1
  <2>2. CASE ~(Cardinality(home) >= CLOSEST)
    <3>1. id \in X \ ToSet(offer)
      BY <1>17, <2>2
    <3> QED BY <1>16, <3>1
  <2> QED BY <2>1, <2>2
<1>18. DOMAIN offer = 1 .. n
  BY <1>6
<1> HIDE DEF home, X
<1> QED
  <2>1. ToSet(offer) \subseteq X
    BY <1>14
  <2>2. \A i \in DOMAIN offer : \A j \in 1 .. i - 1 : Nearer(offer[j], offer[i], t)
    BY <1>11, <1>18
  <2>3. \A id \in compared \ ToSet(offer) :
           n = CLOSEST /\ \A i \in DOMAIN offer : Nearer(offer[i], id, t)
    BY <1>17, <1>18
  <2> QED BY <2>1, <2>2, <2>3 DEF compared, offer, f, home, X, n

-----------------------------------------------------------------------------
(* What is proved of the table. *)

\* The invariant the others follow from.
THEOREM Invariance ==
    Spec => []IInv
<1>1. Init => IInv
  BY InitKeeps
<1>2. IInv /\ [Next]_vars => IInv'
  BY EveryStepKeeps
<1> QED BY <1>1, <1>2, PTL DEF Spec

\* For every length of ids and every network: the buckets partition the ids
\* into blocks of which only our own was ever split, every node is filed where
\* find_node looks for it, once, and the counts are right.
THEOREM AlwaysWellFormed ==
    Spec => []WellFormed
<1>1. IInv => WellFormed
  BY InvTypes
<1> QED BY <1>1, Invariance, PTL

\* For every length of ids and every network: new_node, split_bucket and
\* expire_buckets give up a good node only in a split that leaves its bucket
\* full of good ones.
THEOREM GoodNodesAreKept ==
    Spec => GoodNodesStay
<1>1. IInv /\ [Next]_vars =>
        [\A n \in Known : Good(n) /\ Lost(n) =>
            phase = "split" /\ FullOfGood(FindBucket(n.id))']_vars
  BY EveryStepKeeps DEF Stays
<1> QED BY <1>1, Invariance, PTL DEF Spec, GoodNodesStay

\* For every length of ids and every network: an offer is the nearest good
\* nodes of the three buckets send_closest_nodes looks at, nearest first,
\* whatever order they are inserted in; and where the target's bucket has enough
\* of them it is the nearest of the whole table.
THEOREM NearestAreOffered ==
    Spec => []OffersNearest
<1> QED BY OffersAreNearest, Invariance, PTL

-----------------------------------------------------------------------------
(* The rate control. *)

\* What seconds are worth: never less than nothing, more of them never less,
\* and two spans what both are worth.
LEMMA Worth ==
    ASSUME NEW x \in Nat, NEW y \in Nat
    PROVE  /\ RATE * x \in Nat
           /\ RATE * (x + y) = RATE * x + RATE * y
BY RateAssumption

\* What the bucket still holds counts against what it was last filled with:
\* the tokens left and the requests since the window opened are together no
\* more than a bucket, or two and the time up to the filling.
Spent ==
    /\ filledAt < since => served + tokens <= MAX_TOKENS
    /\ filledAt >= since => served + tokens <= 2 * MAX_TOKENS + RATE * (filledAt - since)

RateInv == RateTypeOK /\ Spent

LEMMA RateStarts == RateInit => RateInv
<1>1. RATE * 0 = 0
  BY RateAssumption
<1> QED BY <1>1, RateAssumption DEF RateInit, RateInv, RateTypeOK, Spent

\* A bucket is filled with no more than it takes, nor more than the time is worth.
LEMMA FilledBound ==
    ASSUME RateTypeOK
    PROVE  /\ Filled \in 0 .. MAX_TOKENS
           /\ tokens = 0 => Filled <= RATE * (clock - filledAt)
<1>1. clock - filledAt \in Nat
  BY DEF RateTypeOK
<1>2. RATE * (clock - filledAt) \in Nat
  BY <1>1, Worth
<1> QED BY <1>2, RateAssumption DEF RateTypeOK, Filled, Refill, Least

LEMMA RequestKeepsRate == RateInv /\ Request => RateInv'
<1> SUFFICES ASSUME RateInv, Request PROVE RateInv'
  OBVIOUS
<1>1. /\ Filled \in 0 .. MAX_TOKENS
      /\ tokens = 0 => Filled <= RATE * (clock - filledAt)
  BY FilledBound DEF RateInv
<1>2. RateTypeOK'
  BY <1>1, RateAssumption DEF RateInv, RateTypeOK, Request
<1>3. served' + tokens' = served + Filled
  BY <1>1, RateAssumption DEF RateInv, RateTypeOK, Request
<1>4. CASE tokens # 0
  <2>1. served' + tokens' = served + tokens
    BY <1>3, <1>4 DEF Filled
  <2>2. filledAt' = filledAt /\ since' = since
    BY <1>4 DEF Request
  <2> QED BY <1>2, <2>1, <2>2 DEF RateInv, Spent
<1>5. CASE tokens = 0
  <2>1. filledAt' = clock /\ since' = since /\ clock >= since
    BY <1>5 DEF Request, RateInv, RateTypeOK
  <2>. DEFINE bound == 2 * MAX_TOKENS + RATE * (clock - since)
  <2>0. 2 * MAX_TOKENS + RATE * (filledAt' - since') = bound /\ filledAt' >= since'
    BY <2>1
  <2>4. served + Filled <= bound
    <3>1. CASE filledAt < since
      <4>1. served + Filled <= 2 * MAX_TOKENS
        BY <1>1, <1>5, <3>1, RateAssumption DEF RateInv, RateTypeOK, Spent
      <4>2. RATE * (clock - since) \in Nat
        <5>1. clock - since \in Nat
          BY <2>1 DEF RateInv, RateTypeOK
        <5> QED BY <5>1, Worth
      <4>3. served + Filled <= bound
        BY <1>1, <4>1, <4>2, RateAssumption DEF RateInv, RateTypeOK
      <4> QED BY <4>3
    <3>2. CASE filledAt >= since
      <4> DEFINE x == clock - filledAt
                 y == filledAt - since
      <4>1. x \in Nat /\ y \in Nat /\ clock - since = x + y
        BY <3>2 DEF RateInv, RateTypeOK
      <4>2. RATE * (clock - since) = RATE * x + RATE * y /\ RATE * x \in Nat /\ RATE * y \in Nat
        BY <4>1, Worth
      <4>3. served <= 2 * MAX_TOKENS + RATE * y
        BY <1>5, <3>2 DEF RateInv, RateTypeOK, Spent
      <4>4. served + Filled <= bound
        BY <1>1, <1>5, <4>2, <4>3, RateAssumption DEF RateInv, RateTypeOK
      <4> QED BY <4>4
    <3> QED BY <3>1, <3>2 DEF RateInv, RateTypeOK
  <2>5. ~(filledAt' < since')
    BY <1>2, <2>0 DEF RateTypeOK
  <2> HIDE DEF bound
  <2> QED BY <1>2, <1>3, <2>0, <2>4, <2>5 DEF RateInv, Spent
<1> QED BY <1>2, <1>4, <1>5 DEF RateInv

LEMMA SecondKeepsRate == RateInv /\ Second => RateInv'
BY DEF RateInv, RateTypeOK, Spent, Second

\* A window that opens finds no more than a bucket.
LEMMA WindowKeepsRate == RateInv /\ WindowOpens => RateInv'
<1> SUFFICES ASSUME RateInv, WindowOpens PROVE RateInv'
  OBVIOUS
<1>1. RateTypeOK'
  BY DEF RateInv, RateTypeOK, WindowOpens
<1>2. CASE filledAt < clock
  BY <1>2 DEF RateInv, RateTypeOK, Spent, WindowOpens
<1>3. CASE filledAt = clock
  <2>1. RATE * (filledAt' - since') = 0
    BY <1>3, RateAssumption DEF RateInv, RateTypeOK, WindowOpens
  <2> QED BY <1>1, <1>3, <2>1, RateAssumption DEF RateInv, RateTypeOK, Spent, WindowOpens
<1> QED BY <1>2, <1>3 DEF RateInv, RateTypeOK

LEMMA NewBucketKeepsRate == RateInv /\ NewBucket => RateInv'
<1> SUFFICES ASSUME RateInv, NewBucket PROVE RateInv'
  OBVIOUS
<1>1. RateTypeOK'
  BY RateAssumption DEF RateInv, RateTypeOK, NewBucket
<1>2. RATE * (filledAt' - since') = 0
  BY RateAssumption DEF RateInv, RateTypeOK, NewBucket
<1> QED BY <1>1, <1>2, RateAssumption DEF RateInv, Spent, NewBucket

LEMMA RateInvBounds == RateInv => RateIsBounded
<1> SUFFICES ASSUME RateInv PROVE RateIsBounded
  OBVIOUS
<1>1. CASE filledAt < since
  <2>1. RATE * (clock - since) \in Nat
    <3>1. clock - since \in Nat
      BY DEF RateInv, RateTypeOK
    <3> QED BY <3>1, Worth
  <2> QED BY <1>1, <2>1, RateAssumption DEF RateInv, RateTypeOK, Spent, RateIsBounded
<1>2. CASE filledAt >= since
  <2> DEFINE x == clock - filledAt
             y == filledAt - since
  <2>1. x \in Nat /\ y \in Nat /\ clock - since = x + y
    BY <1>2 DEF RateInv, RateTypeOK
  <2>2. RATE * (clock - since) = RATE * x + RATE * y /\ RATE * x \in Nat /\ RATE * y \in Nat
    BY <2>1, Worth
  <2> QED BY <1>2, <2>2, RateAssumption DEF RateInv, RateTypeOK, Spent, RateIsBounded
<1> QED BY <1>1, <1>2 DEF RateInv, RateTypeOK

\* token_bucket lets no more requests through from any moment on than two
\* buckets and RATE for each second, whatever their times, also over the death
\* of a daemon and the start of the next, which begins with a full bucket.
THEOREM RateBounded == DaemonSpec => []RateIsBounded
<1>1. DaemonInit => RateInv
  BY RateStarts DEF DaemonInit
<1>2. RateInv /\ [DaemonNext]_daemonVars => RateInv'
  <2> SUFFICES ASSUME RateInv, [DaemonNext]_daemonVars PROVE RateInv'
    OBVIOUS
  <2>1. CASE UNCHANGED rateVars
    BY <2>1 DEF RateInv, RateTypeOK, Spent, rateVars
  <2>2. CASE NewBucket
    BY <2>2, NewBucketKeepsRate
  <2>3. CASE Request \/ WindowOpens
    BY <2>3, RequestKeepsRate, WindowKeepsRate
  <2>4. CASE Second
    BY <2>4, SecondKeepsRate
  <2> QED BY <2>1, <2>2, <2>3, <2>4 DEF DaemonNext, daemonVars
<1>3. RateInv => RateIsBounded
  BY RateInvBounds
<1> QED BY <1>1, <1>2, <1>3, PTL DEF DaemonSpec

-----------------------------------------------------------------------------
(* The id file. *)

Steps == {"off", "write", "writing", "unlink", "read", "open", "bind", "run"}
AtWork == {"write", "writing", "unlink"}

\* A daemon that has started has an id, whole.
IdInv ==
    /\ pc \in [Daemon -> Steps]
    /\ myid \in [Daemon -> Id \cup {None}]
    /\ \A d \in Daemon : pc[d] # "off" => myid[d] \in Id

LEMMA StepKeepsWhole ==
    ASSUME IdInv, [StartNext]_startVars
    PROVE  IdInv'
<1>1. CASE UNCHANGED startVars
  BY <1>1 DEF startVars, IdInv
<1>2. CASE StartNext
  <2>1. PICK d \in Daemon :
            \/ Start(d) \/ OpenIdFile(d) \/ WriteId(d) \/ UnlinkId(d)
            \/ ReadNodes(d) \/ OpenNodes(d) \/ Bind(d) \/ Dump(d) \/ Pass(d) \/ Stop(d)
            \/ \E n \in Node : Meet(d, n) \/ Forget(d, n)
    BY <1>2 DEF StartNext
  <2>2. CASE Start(d)
    <3>1. PICK s \in {"read", "write"} : pc' = [pc EXCEPT ![d] = s]
      BY <2>2 DEF Start, ReadsId, At
    <3>2. PICK i \in Id : myid' = [myid EXCEPT ![d] = i]
      BY <2>2 DEF Start, ReadsId
    <3> QED BY <3>1, <3>2 DEF IdInv, Steps
  <2>3. CASE OpenIdFile(d) \/ WriteId(d) \/ UnlinkId(d) \/ ReadNodes(d) \/ OpenNodes(d)
    <3>1. PICK s \in Steps : pc[d] # "off" /\ pc' = [pc EXCEPT ![d] = s]
      BY <2>3 DEF OpenIdFile, WriteId, UnlinkId, ReadNodes, OpenNodes, At, Steps
    <3>2. myid' = myid
      BY <2>3 DEF OpenIdFile, WriteId, UnlinkId, ReadNodes, OpenNodes
    <3> QED BY <3>1, <3>2 DEF IdInv
  <2>4. CASE Stop(d) \/ (At(d, "bind", "off") /\ Forgets(d))
    <3>1. pc' = [pc EXCEPT ![d] = "off"] /\ myid' = [myid EXCEPT ![d] = None]
      BY <2>4 DEF Stop, Forgets, At
    <3> QED BY <3>1 DEF IdInv, Steps
  <2>5. CASE At(d, "bind", "run") /\ UNCHANGED myid
    BY <2>5 DEF At, IdInv, Steps
  <2>6. CASE Dump(d) \/ Pass(d) \/ \E n \in Node : Meet(d, n) \/ Forget(d, n)
    <3>1. pc' = pc /\ myid' = myid
      BY <2>6 DEF Dump, Pass, Meet, Forget, Running
    <3> QED BY <3>1 DEF IdInv
  <2>7. Bind(d) => \/ At(d, "bind", "off") /\ Forgets(d)
                   \/ At(d, "bind", "run") /\ UNCHANGED myid
    BY DEF Bind
  <2> QED BY <2>1, <2>2, <2>3, <2>4, <2>5, <2>6, <2>7
<1> QED BY <1>1, <1>2

\* The id in the file is settled, and d is not running with another.
Keeps(i, d) == IdInv /\ SettledOn(i) /\ (pc[d] # "off" => myid[d] = i)

\* Who starts finds that id, and who is at work on a file is none.
LEMMA StepKeepsId ==
    ASSUME NEW i \in Id, NEW d \in Daemon, Keeps(i, d), [StartNext]_startVars
    PROVE  Keeps(i, d)'
<1>1. IdInv'
  BY StepKeepsWhole DEF Keeps
<1>2. CASE UNCHANGED startVars
  BY <1>1, <1>2 DEF startVars, Keeps, SettledOn
<1>3. CASE StartNext
  <2>1. PICK e \in Daemon :
            \/ Start(e) \/ OpenIdFile(e) \/ WriteId(e) \/ UnlinkId(e)
            \/ ReadNodes(e) \/ OpenNodes(e) \/ Bind(e) \/ Dump(e) \/ Pass(e) \/ Stop(e)
            \/ \E n \in Node : Meet(e, n) \/ Forget(e, n)
    BY <1>3 DEF StartNext
  <2>2. pc[e] \notin AtWork /\ \A f \in Daemon : pc[f] \notin AtWork
    BY DEF Keeps, SettledOn, AtWork
  <2>3. ~OpenIdFile(e) /\ ~WriteId(e) /\ ~UnlinkId(e)
    BY <2>2 DEF OpenIdFile, WriteId, UnlinkId, At, AtWork
  <2>4. CASE Start(e)
    <3>1. pc' = [pc EXCEPT ![e] = "read"] /\ myid' = [myid EXCEPT ![e] = i]
      BY <2>4 DEF Start, ReadsId, At, Keeps, SettledOn
    <3>2. idFile' = idFile
      BY <2>4 DEF Start, disk
    <3>3. SettledOn(i)'
      BY <3>1, <3>2, <2>2 DEF SettledOn, AtWork, Keeps, IdInv
    <3>4. (pc[d] # "off" => myid[d] = i)'
      BY <3>1 DEF Keeps, IdInv
    <3> QED BY <1>1, <3>3, <3>4 DEF Keeps
  <2>5. CASE ~Start(e)
    <3>1. idFile' = idFile
      BY <2>1, <2>3, <2>5 DEF ReadNodes, OpenNodes, Bind, Dump, Pass, Stop, Meet, Forget,
                              Running, disk
    <3>2. \/ UNCHANGED <<pc, myid>>
          \/ pc[e] # "off" /\ UNCHANGED myid
                /\ \E s \in {"open", "bind", "run"} : pc' = [pc EXCEPT ![e] = s]
          \/ pc' = [pc EXCEPT ![e] = "off"] /\ myid' = [myid EXCEPT ![e] = None]
      BY <2>1, <2>3, <2>5 DEF ReadNodes, OpenNodes, Bind, Dump, Pass, Stop, Meet, Forget,
                              Running, At, Forgets
    <3>3. SettledOn(i)'
      BY <3>1, <3>2, <2>2 DEF SettledOn, AtWork, Keeps, IdInv
    <3>4. (pc[d] # "off" => myid[d] = i)'
      BY <3>2 DEF Keeps, IdInv
    <3> QED BY <1>1, <3>3, <3>4 DEF Keeps
  <2> QED BY <2>4, <2>5
<1> QED BY <1>2, <1>3

\* What the ids of one daemon are when one id is in the file.
IdOf(d, i) ==
    /\ [](pc[d] # "off" => myid[d] \in Id)
    /\ [](SettledOn(i) /\ pc[d] = "off" => [](pc[d] # "off" => myid[d] = i))

LEMMA OneKeepsId ==
    ASSUME NEW d \in Daemon, NEW i \in Id
    PROVE  StartSpec => IdOf(d, i)
<1>1. StartInit => IdInv
  BY DEF StartInit, IdInv, Steps
<1>2. IdInv /\ [StartNext]_startVars => IdInv'
  BY StepKeepsWhole
<1>3. IdInv => (pc[d] # "off" => myid[d] \in Id)
  BY DEF IdInv
<1>4. IdInv /\ SettledOn(i) /\ pc[d] = "off" => Keeps(i, d)
  BY DEF Keeps
<1>5. Keeps(i, d) /\ [StartNext]_startVars => Keeps(i, d)'
  BY StepKeepsId
<1>6. Keeps(i, d) => (pc[d] # "off" => myid[d] = i)
  BY DEF Keeps
<1> QED BY <1>1, <1>2, <1>3, <1>4, <1>5, <1>6, PTL DEF StartSpec, IdOf

\* Any number of daemons starting at once and killed at any step: none takes a
\* part of an id for one, and from the moment the file has an id and nobody is
\* at work on a file of its own, every later start of every daemon has that id.
THEOREM IdStays == StartSpec => IdIsKept
<1>1. StartSpec => \A d \in Daemon, i \in Id : IdOf(d, i)
  BY OneKeepsId
<1> QED BY <1>1 DEF IdIsKept, IdOf

-----------------------------------------------------------------------------
(* The nodes file. *)

Written == owner \in Daemon /\ written[owner] > 0

\* The first line of what the owner has dumped is a node.
DumpInv ==
    /\ nodesFile \in Seq(Node \cup {Gap})
    /\ written \in [Daemon -> Nat]
    /\ table \in [Daemon -> SUBSET Node]
    /\ \A d \in Daemon : IsFiniteSet(table[d])
    /\ Written => Len(nodesFile) >= 1 /\ nodesFile[1] \in Node

\* A dump writes as many nodes as the table holds.
LEMMA DumpedLines ==
    ASSUME NEW S \in SUBSET Node, IsFiniteSet(S), NEW lines \in SetToSeqs(S)
    PROVE  lines \in Seq(Node) /\ Len(lines) = Cardinality(S)
<1>1. Cardinality(S) \in Nat
  BY FS_CardinalityType
<1>2. lines \in [1 .. Cardinality(S) -> S]
  BY DEF SetToSeqs
<1>3. lines \in Seq(S)
  BY <1>1, <1>2
<1>4. lines \in Seq(Node)
  BY <1>1, <1>2
<1> QED BY <1>1, <1>2, <1>4

\* What is at the beginning of a file after a write to it.
LEMMA FirstLine ==
    ASSUME NEW file \in Seq(Node \cup {Gap}), NEW offset \in Nat, NEW lines \in Seq(Node)
    PROVE  /\ WrittenAt(file, offset, lines) \in Seq(Node \cup {Gap})
           /\ (Len(file) >= 1 /\ file[1] \in Node) =>
                 /\ Len(WrittenAt(file, offset, lines)) >= 1
                 /\ WrittenAt(file, offset, lines)[1] \in Node
           /\ (offset = 0 /\ Len(lines) > 0) =>
                 /\ Len(WrittenAt(file, offset, lines)) >= 1
                 /\ WrittenAt(file, offset, lines)[1] \in Node
<1> DEFINE Line   == Node \cup {Gap}
           missing == IF Len(file) < offset THEN offset - Len(file) ELSE 0
           gaps   == [i \in 1 .. missing |-> Gap]
           padded == file \o gaps
           before == SubSeq(padded, 1, offset)
           after  == SubSeq(file, offset + Len(lines) + 1, Len(file))
           whole  == (before \o lines) \o after
<1>1. missing \in Nat /\ gaps \in Seq(Line) /\ Len(gaps) = missing
  OBVIOUS
<1>2. padded \in Seq(Line) /\ Len(padded) = Len(file) + missing
      /\ (Len(file) >= 1 => padded[1] = file[1])
  BY <1>1
<1>3. before \in Seq(Line) /\ Len(before) = offset /\ (offset >= 1 => before[1] = padded[1])
  BY <1>1, <1>2
<1>4. lines \in Seq(Line)
  OBVIOUS
<1>5. after \in Seq(Line) /\ (offset = 0 /\ Len(lines) = 0 => after = file)
  OBVIOUS
<1>6. WrittenAt(file, offset, lines) = whole
  BY DEF WrittenAt, Padded
<1> HIDE DEF missing, gaps, padded, before, after
<1>7. before \o lines \in Seq(Line) /\ Len(before \o lines) = offset + Len(lines)
  BY <1>3, <1>4
<1>8. /\ whole \in Seq(Line)
      /\ offset + Len(lines) >= 1 => Len(whole) >= 1 /\ whole[1] = (before \o lines)[1]
      /\ (offset = 0 /\ Len(lines) = 0) => whole = after
  BY <1>3, <1>5, <1>7
<1>9. /\ offset >= 1 => (before \o lines)[1] = before[1]
      /\ (offset = 0 /\ Len(lines) > 0) => (before \o lines)[1] = lines[1]
  BY <1>3, <1>4
<1>10. Len(lines) \in Nat /\ (Len(lines) > 0 => lines[1] \in Node)
  OBVIOUS
<1> HIDE DEF whole
<1>11. CASE offset = 0 /\ Len(lines) = 0
  BY <1>11, <1>5, <1>6, <1>8
<1>12. CASE offset = 0 /\ Len(lines) > 0
  BY <1>12, <1>6, <1>8, <1>9, <1>10
<1>13. CASE offset >= 1
  BY <1>13, <1>2, <1>3, <1>6, <1>8, <1>9, <1>10
<1> QED BY <1>11, <1>12, <1>13

LEMMA DumpKeepsDump ==
    ASSUME DumpInv, NEW d \in Daemon, Dump(d)
    PROVE  DumpInv'
<1>1. PICK lines \in SetToSeqs(table[d]) :
          /\ nodesFile' = WrittenAt(nodesFile, written[d], lines)
          /\ written' = [written EXCEPT ![d] = @ + Len(lines)]
  BY DEF Dump
<1>2. lines \in Seq(Node)
  BY DumpedLines DEF DumpInv
<1>3. nodesFile \in Seq(Node \cup {Gap}) /\ written[d] \in Nat /\ Len(lines) \in Nat
  BY <1>2 DEF DumpInv
<1>4. owner' = owner /\ table' = table
  BY DEF Dump, Running
<1>5. /\ nodesFile' \in Seq(Node \cup {Gap})
      /\ (Len(nodesFile) >= 1 /\ nodesFile[1] \in Node) =>
            Len(nodesFile') >= 1 /\ nodesFile'[1] \in Node
      /\ (written[d] = 0 /\ Len(lines) > 0) =>
            Len(nodesFile') >= 1 /\ nodesFile'[1] \in Node
  BY <1>1, <1>2, <1>3, FirstLine
<1>6. written' \in [Daemon -> Nat] /\ written'[d] = written[d] + Len(lines)
      /\ \A e \in Daemon \ {d} : written'[e] = written[e]
  BY <1>1, <1>3 DEF DumpInv
<1>7. Written' => Written \/ (written[d] = 0 /\ Len(lines) > 0)
  BY <1>3, <1>4, <1>6 DEF Written
<1> QED BY <1>4, <1>5, <1>6, <1>7 DEF DumpInv

LEMMA StepKeepsDump == DumpInv /\ [DaemonNext]_daemonVars => DumpInv'
<1> SUFFICES ASSUME DumpInv, [DaemonNext]_daemonVars PROVE DumpInv'
  OBVIOUS
<1>1. CASE UNCHANGED startVars
  BY <1>1 DEF startVars, DumpInv, Written
<1>2. CASE StartNext
  <2>1. PICK d \in Daemon :
            \/ Start(d) \/ OpenIdFile(d) \/ WriteId(d) \/ UnlinkId(d)
            \/ ReadNodes(d) \/ OpenNodes(d) \/ Bind(d) \/ Dump(d) \/ Pass(d) \/ Stop(d)
            \/ \E n \in Node : Meet(d, n) \/ Forget(d, n)
    BY <1>2 DEF StartNext
  <2>2. CASE Start(d) \/ OpenIdFile(d) \/ WriteId(d) \/ UnlinkId(d) \/ ReadNodes(d) \/ Pass(d)
    <3>1. UNCHANGED <<nodesFile, written, owner, table>>
      BY <2>2 DEF Start, OpenIdFile, WriteId, UnlinkId, ReadNodes, Pass, Running, disk
    <3> QED BY <3>1 DEF DumpInv, Written
  <2>3. CASE OpenNodes(d)
    <3>1. nodesFile' = << >> /\ written' = [written EXCEPT ![d] = 0] /\ owner' = d /\ table' = table
      BY <2>3 DEF OpenNodes
    <3>2. written' \in [Daemon -> Nat] /\ written'[d] = 0
      BY <3>1 DEF DumpInv
    <3> QED BY <3>1, <3>2 DEF DumpInv, Written
  <2>4. CASE Bind(d) \/ Stop(d)
    <3>1. UNCHANGED <<nodesFile, written, owner>>
      BY <2>4 DEF Bind, Stop, disk
    <3>2. table' = table \/ table' = [table EXCEPT ![d] = {}]
      BY <2>4 DEF Bind, Stop, Forgets
    <3> QED BY <3>1, <3>2, FS_EmptySet DEF DumpInv, Written
  <2>5. CASE \E n \in Node : Meet(d, n) \/ Forget(d, n)
    <3>1. PICK n \in Node : Meet(d, n) \/ Forget(d, n)
      BY <2>5
    <3>2. UNCHANGED <<nodesFile, written, owner>>
      BY <3>1 DEF Meet, Forget, Running
    <3>3. \/ table' = [table EXCEPT ![d] = table[d] \cup {n}]
          \/ table' = [table EXCEPT ![d] = table[d] \ {n}]
      BY <3>1 DEF Meet, Forget
    <3>4. IsFiniteSet(table[d] \cup {n}) /\ IsFiniteSet(table[d] \ {n})
      BY FS_AddElement, FS_RemoveElement DEF DumpInv
    <3> QED BY <3>2, <3>3, <3>4 DEF DumpInv, Written
  <2>6. CASE Dump(d)
    BY <2>6, DumpKeepsDump
  <2> QED BY <2>1, <2>2, <2>3, <2>4, <2>5, <2>6
<1> QED BY <1>1, <1>2 DEF DaemonNext, daemonVars

\* However many daemons are started, overlap and die, and whatever of one dump
\* another one overwrites: what the owner of the nodes file has dumped leaves
\* a node among the lines the next start looks at.
THEOREM DumpSurvives ==
    ASSUME MAX_BOOTSTRAP_NODES >= 1
    PROVE  DaemonSpec => []DumpIsFound
<1>1. DaemonInit => DumpInv
  BY DaemonAssumption, FS_EmptySet DEF DaemonInit, StartInit, DumpInv, Written
<1>2. DumpInv /\ [DaemonNext]_daemonVars => DumpInv'
  BY StepKeepsDump
<1>3. DumpInv => DumpIsFound
  <2> SUFFICES ASSUME DumpInv, Written PROVE Readable(nodesFile) # {}
    BY DEF DumpIsFound, Written
  <2> DEFINE n == IF Len(nodesFile) < MAX_BOOTSTRAP_NODES THEN Len(nodesFile)
                  ELSE MAX_BOOTSTRAP_NODES
             file == SubSeq(nodesFile, 1, n)
  <2>1. Len(nodesFile) >= 1 /\ nodesFile[1] \in Node /\ nodesFile \in Seq(Node \cup {Gap})
    BY DEF DumpInv
  <2>2. n \in Nat /\ n >= 1 /\ n <= Len(nodesFile)
    BY <2>1, DaemonAssumption
  <2>3. DOMAIN file = 1 .. n /\ file[1] = nodesFile[1]
    BY <2>1, <2>2
  <2> HIDE DEF n, file
  <2>4. file[1] # Gap
    BY <2>1, <2>3, DaemonAssumption
  <2>5. \A g \in {i \in DOMAIN file : file[i] = Gap} : 1 < g
    BY <2>2, <2>3, <2>4
  <2>6. file[1] \in Lines(file)
    BY <2>2, <2>3, <2>5 DEF Lines
  <2> QED BY <2>6 DEF Readable, n, file
<1> QED BY <1>1, <1>2, <1>3, PTL DEF DaemonSpec

==============================================================================
