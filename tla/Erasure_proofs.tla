--------------------------- MODULE Erasure_proofs ---------------------------
(* Theorems about Erasure, for files of any length and losses of any size,  *)
(* and about the fields of GF-Complete that a program makes to compute in:  *)
(* with any arguments and any build, those that are made multiply.          *)
EXTENDS Erasure, GaloisFields, Galois_proofs

\* A file has a natural number of blocks (split).
LEMMA BlockNumIsNat == ASSUME NEW L \in Nat PROVE BlockNum(L) \in Nat
<1> DEFINE b == BlockLen(L)
<1>1. b \in {1, 2048, 32768, 262144, 4194304, 67108864}
  BY DEF BlockLen
<1>2. L \div b \in Nat
  BY <1>1
<1> HIDE DEF b
<1> QED BY <1>2 DEF BlockNum, b

\* The sizes of groups and codes.
LEMMA CodeIsNat == ASSUME NEW n \in Nat
                   PROVE  GroupLen(n) \in Nat /\ Globals(n) \in Nat /\ n <= 4 * GroupLen(n)
BY DEF GroupLen, Globals

\* There are finitely many chunks.
LEMMA ChunksFinite == ASSUME NEW n \in Nat PROVE IsFiniteSet(Chunks(n))
<1> DEFINE b == n + N_LOCAL + Globals(n) - 1
<1>1. b \in Int
  BY CodeIsNat DEF N_LOCAL
<1> HIDE DEF b
<1>2. IsFiniteSet(0..b)
  BY <1>1, FS_Interval
<1> QED BY <1>2 DEF Chunks, b

\* Every chunk belongs to a group, as data or as its code, or is a global code.
LEMMA ChunkKinds ==
    ASSUME NEW n \in Nat, NEW c \in Chunks(n), c \notin GlobalCodes(n)
    PROVE  \E i \in 0..N_LOCAL-1 : c \in Equation(n, Local(n, i))
<1> USE CodeIsNat DEF Chunks, GlobalCodes, N_LOCAL
<1> DEFINE s == GroupLen(n)
<1>0. s \in Nat /\ n <= 4 * s /\ c \in 0..n+3
  OBVIOUS
<1> HIDE DEF s
<1>1. CASE c \in Data(n)
  <2>1. c < 4 * s /\ c \in Nat
    BY <1>0, <1>1 DEF Data
  <2>2. PICK i \in 0..3 : i * s <= c /\ c < (i + 1) * s
    BY <1>0, <2>1
  <2>3. c \in Group(n, i)
    BY <1>1, <2>2 DEF Group, s
  <2>4. Local(n, i) \notin GlobalCodes(n) /\ Local(n, i) - n = i
    BY DEF Local
  <2> QED BY <2>3, <2>4 DEF Equation
<1>2. CASE c \notin Data(n)
  <2>1. c - n \in 0..3 /\ c = Local(n, c - n)
    BY <1>0, <1>2 DEF Data, Local
  <2> QED BY <2>1 DEF Equation
<1> QED BY <1>1, <1>2

-----------------------------------------------------------------------------
(* Counting. *)

\* Of a finite set of numbers, those that fewer than k precede: k of them if
\* there are as many, and all of a first part that has no more than k.
Firstly(R, k) == {c \in R : Cardinality({b \in R : b < c}) < k}

\* A first part has k members where there are as many.
LEMMA FirstlyCount ==
    ASSUME NEW R \in SUBSET Nat, IsFiniteSet(R), NEW k \in Nat, k <= Cardinality(R)
    PROVE  Cardinality(Firstly(R, k)) >= k
<1> DEFINE T == Firstly(R, k)
           before(m) == {b \in R : b < m}
<1>1. T \subseteq R /\ IsFiniteSet(T)
  BY FS_Subset DEF Firstly
<1>2. CASE T = R
  BY <1>2
<1>3. CASE T # R
  <2>1. R \ T \in SUBSET Nat /\ R \ T # {}
    BY <1>1, <1>3
  <2>2. PICK m \in R \ T : \A y \in R \ T : m <= y
    BY <2>1, LeastNat
  <2>3. before(m) \subseteq T
    <3> HIDE DEF T
    <3> SUFFICES ASSUME NEW b \in R, b < m PROVE b \in T
      OBVIOUS
    <3>1. b \in Nat /\ m \in Nat
      OBVIOUS
    <3>2. b \notin T => m <= b
      BY <2>2
    <3> QED BY <3>1, <3>2
  <2>4. Cardinality(before(m)) <= Cardinality(T) /\ IsFiniteSet(before(m))
    BY <1>1, <2>3, FS_Subset
  <2>5. ~(Cardinality(before(m)) < k)
    BY <2>2 DEF Firstly
  <2>6. Cardinality(before(m)) \in Nat /\ Cardinality(T) \in Nat
    BY <1>1, <2>4, FS_CardinalityType
  <2> HIDE DEF T, before
  <2>7. Cardinality(T) >= k
    BY <2>4, <2>5, <2>6
  <2> QED BY <2>7 DEF T
<1> QED BY <1>2, <1>3

\* A part of k numbers or fewer that all others come after is in the first part.
LEMMA FirstlyHas ==
    ASSUME NEW R \in SUBSET Nat, IsFiniteSet(R), NEW k \in Nat, NEW P \in SUBSET R,
           Cardinality(P) <= k, \A p \in P, c \in R \ P : p < c
    PROVE  P \subseteq Firstly(R, k)
<1> SUFFICES ASSUME NEW p \in P PROVE p \in Firstly(R, k)
  OBVIOUS
<1> DEFINE B == {b \in R : b < p}
<1>1. IsFiniteSet(P) /\ Cardinality(P) \in Nat
  BY FS_Subset, FS_CardinalityType
<1>2. B \subseteq P \ {p}
  <2> SUFFICES ASSUME NEW b \in R, b < p PROVE b \in P /\ b # p
    OBVIOUS
  <2>1. b \in Nat /\ p \in Nat
    OBVIOUS
  <2>2. b \notin P => p < b
    OBVIOUS
  <2> QED BY <2>1, <2>2
<1>3. IsFiniteSet(P \ {p}) /\ Cardinality(P \ {p}) = Cardinality(P) - 1
  BY <1>1, FS_RemoveElement
<1>4. Cardinality(B) <= Cardinality(P \ {p}) /\ IsFiniteSet(B)
  BY <1>2, <1>3, FS_Subset
<1>5. Cardinality(B) \in Nat
  BY <1>4, FS_CardinalityType
<1>6. Cardinality(B) < k
  BY <1>1, <1>3, <1>4, <1>5
<1> QED BY <1>6 DEF Firstly

-----------------------------------------------------------------------------
(* The equations. *)

Groups == 0 .. N_LOCAL - 1
Lines(n, i) == Equation(n, Local(n, i))
LocalsOf(n, I) == {Local(n, i) : i \in I}

\* What equations there are: disjoint ones of the groups, and those of the global codes.
LEMMA EquationsAre ==
    ASSUME NEW n \in Nat
    PROVE  /\ \A i \in Groups : /\ Local(n, i) \in Codes(n) \ GlobalCodes(n)
                                /\ Lines(n, i) = {Local(n, i)} \cup Group(n, i)
                                /\ Group(n, i) \subseteq Data(n)
           /\ \A i, j \in Groups : i # j => Lines(n, i) \cap Lines(n, j) = {}
           /\ \A c \in GlobalCodes(n) : c \in Codes(n) /\ Equation(n, c) = {c} \cup Data(n)
           /\ Codes(n) = LocalsOf(n, Groups) \cup GlobalCodes(n)
           /\ \A c \in Codes(n) : c \in Equation(n, c) /\ c \in Nat
           /\ Chunks(n) = Data(n) \cup Codes(n) /\ Data(n) \cap Codes(n) = {}
<1> DEFINE s == GroupLen(n)
<1>1. s \in Nat /\ Globals(n) = s
  BY CodeIsNat DEF Globals
<1>2. \A i : i \in Groups <=> i \in 0 .. 3
  BY DEF Groups, N_LOCAL
<1>3. \A c : c \in GlobalCodes(n) <=> c \in n + 4 .. n + 3 + s
  BY <1>1 DEF GlobalCodes, N_LOCAL
<1>4. \A c : /\ c \in Chunks(n) <=> c \in 0 .. n + 3 + s
             /\ c \in Data(n) <=> c \in 0 .. n - 1
             /\ c \in Codes(n) <=> c \in n .. n + 3 + s
  BY <1>1 DEF Codes, Chunks, Data, N_LOCAL
<1>5. \A i \in Groups : Local(n, i) \in Codes(n) \ GlobalCodes(n) /\ Local(n, i) - n = i
  BY <1>1, <1>2, <1>3, <1>4 DEF Local
<1>6. \A i \in Groups : Lines(n, i) = {Local(n, i)} \cup Group(n, i) /\ Group(n, i) \subseteq Data(n)
  BY <1>5 DEF Lines, Equation, Group
<1>7. \A c \in GlobalCodes(n) : c \in Codes(n) /\ Equation(n, c) = {c} \cup Data(n)
  BY <1>1, <1>3, <1>4 DEF Equation
<1>8. \A c \in Codes(n) : c \in Equation(n, c) /\ c \in Nat
  BY <1>1, <1>4 DEF Equation
<1>9. Chunks(n) = Data(n) \cup Codes(n) /\ Data(n) \cap Codes(n) = {}
  BY <1>1, <1>4
<1>10. Codes(n) = LocalsOf(n, Groups) \cup GlobalCodes(n)
  <2>1. ASSUME NEW c \in Codes(n), c \notin GlobalCodes(n) PROVE c \in LocalsOf(n, Groups)
    <3>1. c - n \in Groups /\ c = Local(n, c - n)
      BY <1>1, <1>2, <1>3, <1>4, <2>1 DEF Local
    <3> QED BY <3>1 DEF LocalsOf
  <2> QED BY <1>5, <1>7, <2>1 DEF LocalsOf
<1>11. ASSUME NEW i \in Groups, NEW j \in Groups, i # j
       PROVE  Lines(n, i) \cap Lines(n, j) = {}
  <2>1. Local(n, i) # Local(n, j) /\ i \in Nat /\ j \in Nat
    BY <1>2, <1>11 DEF Local
  <2>2. Group(n, i) \cap Group(n, j) = {}
    <3>1. ASSUME NEW d \in Group(n, i), d \in Group(n, j) PROVE FALSE
      <4>1. /\ d \in Nat /\ i * s <= d /\ d < (i + 1) * s
            /\ j * s <= d /\ d < (j + 1) * s
        BY <3>1, <1>4 DEF Group
      <4> HIDE DEF s
      <4> QED BY <1>1, <1>11, <2>1, <4>1
    <3> QED BY <3>1
  <2>3. \A d \in Data(n) : d # Local(n, i) /\ d # Local(n, j)
    BY <1>5, <1>9
  <2> QED BY <1>6, <2>1, <2>2, <2>3
<1> QED BY <1>5, <1>6, <1>7, <1>8, <1>9, <1>10, <1>11

\* How many codes of each kind there are.
LEMMA CodesCount ==
    ASSUME NEW n \in Nat
    PROVE  /\ IsFiniteSet(GlobalCodes(n)) /\ Cardinality(GlobalCodes(n)) = Globals(n)
           /\ Globals(n) \in Nat /\ IsFiniteSet(Chunks(n)) /\ IsFiniteSet(Codes(n))
           /\ \A I \in SUBSET Groups :
                /\ IsFiniteSet(I) /\ IsFiniteSet(LocalsOf(n, I))
                /\ Cardinality(LocalsOf(n, I)) = Cardinality(I) /\ Cardinality(I) \in Nat
<1>0. Globals(n) \in Nat
  BY CodeIsNat
<1>1. IsFiniteSet(GlobalCodes(n)) /\ Cardinality(GlobalCodes(n)) = Globals(n)
  <2> DEFINE a == n + N_LOCAL
             b == n + N_LOCAL + Globals(n) - 1
  <2>1. a \in Int /\ b \in Int /\ b - a + 1 = Globals(n) /\ GlobalCodes(n) = a..b
    BY <1>0 DEF GlobalCodes, N_LOCAL
  <2> HIDE DEF a, b
  <2>2. IsFiniteSet(a..b) /\ Cardinality(a..b) = IF a > b THEN 0 ELSE b - a + 1
    BY <2>1, FS_Interval
  <2> QED BY <1>0, <2>1, <2>2
<1>2. IsFiniteSet(Chunks(n)) /\ IsFiniteSet(Codes(n))
  BY ChunksFinite, FS_Subset DEF Codes
<1>3. ASSUME NEW I \in SUBSET Groups
      PROVE  /\ IsFiniteSet(I) /\ IsFiniteSet(LocalsOf(n, I))
             /\ Cardinality(LocalsOf(n, I)) = Cardinality(I) /\ Cardinality(I) \in Nat
  <2>1. IsFiniteSet(Groups)
    <3>1. Groups = 0 .. 3
      BY DEF Groups, N_LOCAL
    <3>2. 0 \in Int /\ 3 \in Int
      OBVIOUS
    <3> QED BY ONLY <3>1, <3>2, FS_Interval
  <2>2. IsFiniteSet(I) /\ Cardinality(I) \in Nat
    BY <2>1, FS_Subset, FS_CardinalityType
  <2> DEFINE f == [i \in I |-> Local(n, i)]
             L == LocalsOf(n, I)
  <2>3. f \in [I -> L] /\ \A z \in L : \E i \in I : f[i] = z
    BY DEF LocalsOf
  <2>4. \A i, j \in I : f[i] = f[j] => i = j
    BY DEF Local, Groups, N_LOCAL
  <2> HIDE DEF f, L
  <2>5. f \in Bijection(I, L)
    BY <2>3, <2>4 DEF Bijection, Injection, Surjection, IsInjective
  <2>6. IsFiniteSet(L) /\ Cardinality(L) = Cardinality(I)
    BY <2>2, <2>5, FS_Bijection DEF ExistsBijection
  <2> QED BY <2>2, <2>6 DEF L
<1> QED BY <1>0, <1>1, <1>2, <1>3

\* Groups that each have one of T are no more than T: no chunk is in two.
LEMMA OneEach ==
    ASSUME NEW n \in Nat, NEW I \in SUBSET Groups, NEW T, IsFiniteSet(T),
           \A i \in I : Lines(n, i) \cap T # {}
    PROVE  Cardinality(I) <= Cardinality(T)
<1> DEFINE f == [i \in I |-> CHOOSE x \in T : x \in Lines(n, i)]
<1>1. \A i \in I : f[i] \in T /\ f[i] \in Lines(n, i)
  OBVIOUS
<1>2. f \in [I -> T]
  BY <1>1
<1> HIDE DEF f
<1>3. \A i, j \in I : f[i] = f[j] => i = j
  BY <1>1, EquationsAre
<1>4. f \in Injection(I, T)
  BY <1>2, <1>3 DEF Injection, IsInjective
<1> QED BY <1>4, FS_Injection

-----------------------------------------------------------------------------
(* lrc_get_source counts right. *)

Meeting(n, S, C) == {c \in C : Equation(n, c) \cap S # {}}

\* The damaged groups are those whose equation meets what is lost.
LEMMA DamagedIs ==
    ASSUME NEW n \in Nat, NEW S
    PROVE  /\ Damaged(n, S) = {i \in Groups : Lines(n, i) \cap S # {}}
           /\ Damaged(n, S) \in SUBSET Groups
           /\ IsFiniteSet(Damaged(n, S)) /\ Cardinality(Damaged(n, S)) \in Nat
<1>1. Damaged(n, S) = {i \in Groups : Lines(n, i) \cap S # {}}
  BY DEF Damaged, Groups, Lines
<1>2. Damaged(n, S) \in SUBSET Groups
  BY <1>1
<1> QED BY <1>1, <1>2, CodesCount

\* A loss with data meets all global codes, and the local codes of the groups
\* it damages.
LEMMA MeetingCount ==
    ASSUME NEW n \in Nat, NEW S \in SUBSET Chunks(n)
    PROVE  /\ IsFiniteSet(Meeting(n, S, Codes(n)))
           /\ Cardinality(Meeting(n, S, Codes(n))) \in Nat
           /\ Cardinality(Meeting(n, S, Codes(n))) <= Globals(n) + Cardinality(Damaged(n, S))
           /\ S \cap Data(n) # {} =>
                Cardinality(Meeting(n, S, Codes(n))) = Globals(n) + Cardinality(Damaged(n, S))
<1> DEFINE D == Damaged(n, S)
           L == LocalsOf(n, D)
           G == GlobalCodes(n)
           M == Meeting(n, S, Codes(n))
<1>1. D \in SUBSET Groups /\ D = {i \in Groups : Lines(n, i) \cap S # {}}
  BY DamagedIs
<1>2. /\ IsFiniteSet(L) /\ Cardinality(L) = Cardinality(D)
      /\ IsFiniteSet(G) /\ Cardinality(G) = Globals(n)
  BY <1>1, CodesCount
<1> HIDE DEF D
<1>3. L \cap G = {}
  BY <1>1, EquationsAre DEF LocalsOf
<1> HIDE DEF L, G
<1>4. /\ IsFiniteSet(L \cup G) /\ Cardinality(L \cup G) = Cardinality(D) + Globals(n)
      /\ Cardinality(D) \in Nat /\ Globals(n) \in Nat
  BY <1>2, <1>3, DisjointCount
<1>5. M \subseteq L \cup G
  <2>1. ASSUME NEW c \in M, c \notin G PROVE c \in L
    <3>1. PICK i \in Groups : c = Local(n, i)
      BY <2>1, EquationsAre DEF Meeting, LocalsOf, G
    <3>2. Lines(n, i) \cap S # {}
      BY <3>1 DEF Meeting, Lines
    <3> QED BY <1>1, <3>1, <3>2 DEF L, LocalsOf
  <2> QED BY <2>1
<1>6. S \cap Data(n) # {} => L \cup G \subseteq M
  <2> SUFFICES ASSUME S \cap Data(n) # {} PROVE L \cup G \subseteq M
    OBVIOUS
  <2>1. \A c \in G : c \in M
    BY EquationsAre DEF Meeting, G
  <2>2. \A i \in D : Local(n, i) \in M
    BY <1>1, EquationsAre DEF Meeting, Lines
  <2> QED BY <2>1, <2>2 DEF L, LocalsOf
<1>7. IsFiniteSet(M) /\ Cardinality(M) <= Cardinality(L \cup G)
  BY <1>4, <1>5, FS_Subset
<1>8. Cardinality(M) \in Nat
  BY <1>7, FS_CardinalityType
<1>9. S \cap Data(n) # {} => M = L \cup G
  BY <1>5, <1>6
<1> HIDE DEF M
<1>10. /\ Cardinality(M) <= Globals(n) + Cardinality(D)
       /\ S \cap Data(n) # {} => Cardinality(M) = Globals(n) + Cardinality(D)
  BY <1>4, <1>7, <1>8, <1>9
<1> QED BY <1>7, <1>8, <1>10 DEF M, D

\* Less lost, no more left over: the groups that only the rest of E damages
\* each have one of the rest.
LEMMA LeftGrows ==
    ASSUME NEW n \in Nat, NEW E, IsFiniteSet(E), NEW S \in SUBSET E
    PROVE  /\ Cardinality(S) \in Nat /\ Cardinality(E) \in Nat
           /\ Cardinality(Damaged(n, S)) \in Nat /\ Cardinality(Damaged(n, E)) \in Nat
           /\ Left(n, S) <= Left(n, E)
<1> DEFINE T == E \ S
           D == Damaged(n, E)
           A == Damaged(n, S)
           I == D \ A
<1>1. /\ Cardinality(S) \in Nat /\ Cardinality(T) \in Nat /\ IsFiniteSet(T)
      /\ Cardinality(E) = Cardinality(S) + Cardinality(T)
  BY PartsCount
<1>2. D \in SUBSET Groups /\ IsFiniteSet(D) /\ A \in SUBSET D /\ I \in SUBSET Groups
      /\ \A i \in I : Lines(n, i) \cap T # {}
  BY DamagedIs
<1> HIDE DEF T, D, A
<1>3. Cardinality(I) <= Cardinality(T)
  BY <1>1, <1>2, OneEach
<1>4. /\ Cardinality(A) \in Nat /\ Cardinality(I) \in Nat
      /\ Cardinality(D) = Cardinality(A) + Cardinality(I)
  BY <1>2, PartsCount
<1> HIDE DEF I
<1>5. Cardinality(S) - Cardinality(A) <= Cardinality(E) - Cardinality(D)
  BY <1>1, <1>3, <1>4
<1> QED BY <1>1, <1>4, <1>5 DEF Left, A, D

\* The count of lrc_get_source is exact: it accepts a loss if and only if no
\* part of it has more chunks than there are equations about it, although it
\* looks at no part of it, only at the whole.
THEOREM AcceptsExactly ==
    ASSUME NEW n \in Nat, NEW E \in SUBSET Chunks(n)
    PROVE  Recoverable(n, E) <=> Enough(n, E, Codes(n))
<1>0. IsFiniteSet(E) /\ Globals(n) \in Nat
  BY CodesCount, FS_Subset
<1>1. ASSUME Recoverable(n, E), NEW S \in SUBSET E
      PROVE  Cardinality(S) <= Cardinality(Meeting(n, S, Codes(n)))
  <2> DEFINE M == Meeting(n, S, Codes(n))
  <2>1. /\ Cardinality(S) \in Nat /\ Cardinality(Damaged(n, S)) \in Nat
        /\ Cardinality(E) \in Nat /\ Cardinality(Damaged(n, E)) \in Nat
        /\ Left(n, S) <= Left(n, E)
    BY <1>0, LeftGrows
  <2>2. IsFiniteSet(M) /\ Cardinality(M) \in Nat
        /\ (S \cap Data(n) # {} => Cardinality(M) = Globals(n) + Cardinality(Damaged(n, S)))
    BY MeetingCount
  <2>3. CASE S \cap Data(n) # {}
    <3>1. Cardinality(S) - Cardinality(Damaged(n, S)) <= Globals(n)
      BY <1>0, <1>1, <2>1 DEF Recoverable, Left
    <3> HIDE DEF M
    <3>2. Cardinality(S) <= Cardinality(M)
      BY <1>0, <2>1, <2>2, <2>3, <3>1
    <3> QED BY <3>2 DEF M
  <2>4. CASE S \cap Data(n) = {}
    <3>1. S \subseteq M
      BY <2>4, EquationsAre DEF Meeting
    <3> QED BY <2>2, <3>1, FS_Subset
  <2> QED BY <2>3, <2>4
<1>2. ASSUME Enough(n, E, Codes(n)) PROVE Recoverable(n, E)
  <2> DEFINE M == Meeting(n, E, Codes(n))
  <2>1. Cardinality(E) <= Cardinality(M)
    BY <1>2 DEF Enough, Meeting
  <2>2. Cardinality(M) \in Nat /\ Cardinality(M) <= Globals(n) + Cardinality(Damaged(n, E))
    BY MeetingCount
  <2>3. Cardinality(E) \in Nat /\ Cardinality(Damaged(n, E)) \in Nat
    BY <1>0, LeftGrows
  <2> HIDE DEF M
  <2>4. Cardinality(E) - Cardinality(Damaged(n, E)) <= Globals(n)
    BY <1>0, <2>1, <2>2, <2>3
  <2> QED BY <2>4 DEF Recoverable, Left
<1> QED BY <1>1, <1>2 DEF Enough, Meeting

-----------------------------------------------------------------------------
(* The rows the decoder takes. *)

\* The damaged groups whose local code is there, and those whose is not.
Usable(n, E) == {i \in Damaged(n, E) : Local(n, i) \notin E}
Useless(n, E) == {i \in Groups : Local(n, i) \in E}
FirstGlobals(n, k) == {c \in GlobalCodes(n) : c < n + N_LOCAL + k}

\* The codes lrc_get_source names: of the usable groups, and the first global ones.
LEMMA SourceCodes ==
    ASSUME NEW n \in Nat, NEW E
    PROVE  Source(n, E) \ Data(n) =
             LocalsOf(n, Usable(n, E))
               \cup (IF Left(n, E) > 0 THEN FirstGlobals(n, Left(n, E)) \ E ELSE {})
<1> DEFINE D == Damaged(n, E)
           Q == UNION {Lines(n, i) : i \in D}
           F == IF Left(n, E) > 0 THEN Data(n) \cup FirstGlobals(n, Left(n, E)) ELSE {}
<1>1. Source(n, E) = (Q \cup F) \ E
  BY DEF Source, FirstGlobals, Lines
<1>2. D \in SUBSET Groups
  BY DamagedIs
<1>3. Q \ Data(n) = LocalsOf(n, D)
  <2>1. \A i \in D : Lines(n, i) \ Data(n) = {Local(n, i)}
    BY <1>2, EquationsAre
  <2>2. \A x : x \in Q <=> \E i \in D : x \in Lines(n, i)
    OBVIOUS
  <2> HIDE DEF Q
  <2>3. \A x : x \in Q \ Data(n) <=> \E i \in D : x = Local(n, i)
    BY <2>1, <2>2
  <2> QED BY <2>3 DEF LocalsOf
<1>4. F \ Data(n) = IF Left(n, E) > 0 THEN FirstGlobals(n, Left(n, E)) ELSE {}
  BY EquationsAre DEF FirstGlobals
<1>5. LocalsOf(n, D) \ E = LocalsOf(n, Usable(n, E))
  BY DEF LocalsOf, Usable
<1> HIDE DEF Q, F
<1> QED BY <1>1, <1>3, <1>4, <1>5

\* The first k global codes are k.
LEMMA FirstGlobalsCount ==
    ASSUME NEW n \in Nat, NEW k \in 0 .. Globals(n)
    PROVE  IsFiniteSet(FirstGlobals(n, k)) /\ Cardinality(FirstGlobals(n, k)) = k
<1>0. Globals(n) \in Nat
  BY CodeIsNat
<1> DEFINE a == n + 4
           b == n + 3 + k
<1>1. a \in Int /\ b \in Int /\ b - a + 1 = k /\ FirstGlobals(n, k) = a..b
  BY <1>0 DEF FirstGlobals, GlobalCodes, N_LOCAL
<1> HIDE DEF a, b
<1>2. IsFiniteSet(a..b) /\ Cardinality(a..b) = IF a > b THEN 0 ELSE b - a + 1
  BY <1>1, FS_Interval
<1> QED BY <1>0, <1>1, <1>2

\* What is lost is data, local codes and global codes.
LEMMA LossParts ==
    ASSUME NEW n \in Nat, NEW E \in SUBSET Chunks(n)
    PROVE  LET u == Cardinality(Unknown(n, E))
               a == Cardinality(Usable(n, E))
               g == Cardinality(GlobalCodes(n) \cap E)
           IN  /\ u \in Nat /\ a \in Nat /\ g \in Nat /\ a <= u
               /\ IsFiniteSet(Unknown(n, E)) /\ IsFiniteSet(GlobalCodes(n) \cap E)
               /\ Left(n, E) = u + g - a
<1> DEFINE U == Unknown(n, E)
           A == Usable(n, E)
           B == Useless(n, E)
           D == Damaged(n, E)
           G == GlobalCodes(n) \cap E
           L == LocalsOf(n, B)
<1>1. IsFiniteSet(E)
  BY CodesCount, FS_Subset
<1>2. IsFiniteSet(U) /\ IsFiniteSet(G)
  BY <1>1, FS_Subset DEF Unknown
<1>3. A \in SUBSET Groups /\ B \in SUBSET Groups /\ A \cap B = {} /\ D = A \cup B
  BY DamagedIs, EquationsAre DEF Usable, Useless
<1>4. /\ IsFiniteSet(A) /\ IsFiniteSet(B) /\ IsFiniteSet(L) /\ Cardinality(L) = Cardinality(B)
      /\ Cardinality(A) \in Nat /\ Cardinality(B) \in Nat
  BY <1>3, CodesCount
<1>5. \A i \in A : Lines(n, i) \cap U # {}
  BY DamagedIs, EquationsAre DEF Usable, Unknown
<1>6. E = (U \cup L) \cup G /\ U \cap L = {} /\ (U \cup L) \cap G = {}
  BY EquationsAre DEF Unknown, LocalsOf, Useless
<1> HIDE DEF U, A, B, D, G, L
<1>7. Cardinality(A) <= Cardinality(U)
  BY <1>2, <1>3, <1>5, OneEach
<1>8. Cardinality(D) = Cardinality(A) + Cardinality(B)
  BY <1>3, <1>4, DisjointCount
<1>9. /\ IsFiniteSet(U \cup L) /\ Cardinality(U) \in Nat
      /\ Cardinality(U \cup L) = Cardinality(U) + Cardinality(L)
  BY <1>2, <1>4, <1>6, DisjointCount
<1>10. Cardinality(G) \in Nat /\ Cardinality(E) = Cardinality(U \cup L) + Cardinality(G)
  BY <1>2, <1>6, <1>9, DisjointCount
<1>11. Cardinality(E) - Cardinality(D) = Cardinality(U) + Cardinality(G) - Cardinality(A)
  BY <1>4, <1>8, <1>9, <1>10
<1> QED BY <1>2, <1>4, <1>7, <1>9, <1>10, <1>11 DEF Left, U, A, G, D

\* There are as many rows as unknowns: all the local codes that may help, and
\* global codes for the rest.
LEMMA RowsAre ==
    ASSUME NEW n \in Nat, NEW E \in SUBSET Chunks(n), Recoverable(n, E)
    PROVE  LET L == LocalsOf(n, Usable(n, E))
               R == Rows(n, E)
           IN  /\ IsFiniteSet(R) /\ L \subseteq R /\ R \ L \subseteq GlobalCodes(n)
               /\ Cardinality(R) \in Nat /\ Cardinality(R) >= Cardinality(Unknown(n, E))
<1> DEFINE A == Usable(n, E)
           L == LocalsOf(n, A)
           left == Left(n, E)
           F == FirstGlobals(n, left)
           H == IF left > 0 THEN F \ E ELSE {}
           G == GlobalCodes(n) \cap E
           S == L \cup H
           u == Cardinality(Unknown(n, E))
<1>1. /\ u \in Nat /\ Cardinality(A) \in Nat /\ Cardinality(G) \in Nat /\ Cardinality(A) <= u
      /\ IsFiniteSet(G) /\ left = u + Cardinality(G) - Cardinality(A)
  BY LossParts
<1>2. A \in SUBSET Groups
  BY DamagedIs DEF Usable
<1>3. IsFiniteSet(L) /\ Cardinality(L) = Cardinality(A)
  BY <1>2, CodesCount
<1>4. Globals(n) \in Nat /\ left <= Globals(n)
  BY CodesCount DEF Recoverable
<1>5. H \subseteq GlobalCodes(n) /\ F \subseteq GlobalCodes(n)
  BY DEF FirstGlobals
<1>6. Rows(n, E) = Firstly(S, u)
  BY SourceCodes DEF Rows, Firstly
<1>7. \A c \in L, d \in H : c < d
  <2>1. \A i \in A : i \in 0 .. 3
    BY <1>2 DEF Groups, N_LOCAL
  <2>2. \A i \in A : Local(n, i) \in Nat /\ Local(n, i) < n + 4
    BY <2>1 DEF Local
  <2>3. \A d \in GlobalCodes(n) : d \in Nat /\ d >= n + 4
    BY <1>4 DEF GlobalCodes, N_LOCAL
  <2>4. \A c \in L : c \in Nat /\ c < n + 4
    BY <2>2 DEF LocalsOf
  <2> HIDE DEF L, H
  <2> QED BY <1>5, <2>3, <2>4
<1>8. S \in SUBSET Nat /\ L \cap H = {}
  <2>1. L \subseteq Nat
    BY <1>2, EquationsAre DEF LocalsOf
  <2>2. H \subseteq Nat
    BY <1>5, EquationsAre
  <2>3. \A c \in L : c \notin GlobalCodes(n)
    BY <1>2, EquationsAre DEF LocalsOf
  <2> HIDE DEF L, H
  <2> QED BY <1>5, <2>1, <2>2, <2>3
<1> HIDE DEF u, left
<1>9. IsFiniteSet(H) /\ Cardinality(H) \in Nat /\ Cardinality(H) >= u - Cardinality(A)
  <2>1. CASE left > 0
    <3>1. left \in 0 .. Globals(n)
      BY <1>1, <1>4, <2>1
    <3>2. IsFiniteSet(F) /\ Cardinality(F) = left
      BY <3>1, FirstGlobalsCount
    <3> HIDE DEF F
    <3>3. IsFiniteSet(F \ E) /\ Cardinality(F \ E) = Cardinality(F) - Cardinality(F \cap E)
      BY <3>2, FS_Difference
    <3>4. F \cap E \subseteq G
      BY <1>5
    <3>5. IsFiniteSet(F \cap E) /\ Cardinality(F \cap E) <= Cardinality(G)
      BY <1>1, <3>4, FS_Subset
    <3>6. Cardinality(F \cap E) \in Nat
      BY <3>5, FS_CardinalityType
    <3>7. Cardinality(F \ E) \in Nat
      BY <3>3, FS_CardinalityType
    <3>8. Cardinality(F \ E) >= u - Cardinality(A)
      BY <1>1, <3>2, <3>3, <3>5, <3>6, <3>7
    <3>9. H = F \ E
      BY <2>1
    <3> QED BY <3>3, <3>7, <3>8, <3>9
  <2>2. CASE ~(left > 0)
    <3>1. H = {} /\ u - Cardinality(A) <= 0
      BY <1>1, <2>2
    <3>2. Cardinality(H) = 0 /\ IsFiniteSet(H)
      BY <3>1, FS_EmptySet
    <3> HIDE DEF H
    <3> QED BY <1>1, <3>1, <3>2
  <2> QED BY <2>1, <2>2
<1> HIDE DEF L, H, A, G
<1>10. IsFiniteSet(S) /\ Cardinality(S) = Cardinality(L) + Cardinality(H)
  BY <1>3, <1>8, <1>9, DisjointCount
<1>11. Cardinality(S) >= u
  BY <1>1, <1>3, <1>9, <1>10
<1>12. L \in SUBSET S /\ Cardinality(L) <= u /\ \A p \in L, c \in S \ L : p < c
  BY <1>1, <1>3, <1>7
<1>13. S \in SUBSET Nat
  BY <1>8
<1> HIDE DEF S
<1>14. L \subseteq Firstly(S, u)
  BY <1>1, <1>10, <1>12, <1>13, FirstlyHas
<1>15. Cardinality(Firstly(S, u)) >= u
  BY <1>1, <1>10, <1>11, <1>13, FirstlyCount
<1>16. Firstly(S, u) \subseteq S
  BY DEF Firstly
<1>17. IsFiniteSet(Firstly(S, u))
  BY <1>10, <1>16, FS_Subset
<1>18. Cardinality(Firstly(S, u)) \in Nat
  BY <1>17, FS_CardinalityType
<1>19. Firstly(S, u) \ L \subseteq GlobalCodes(n)
  BY <1>5, <1>16 DEF S
<1> QED BY <1>6, <1>14, <1>15, <1>17, <1>18, <1>19 DEF L, u, A

\* Where lrc_get_source accepts, the rows the decoder takes are the first of the
\* codes it names, and no set of unknown blocks meets fewer of these rows than
\* it has members.  Whether they can be solved is up to their coefficients.
THEOREM RowsSuffice ==
    ASSUME NEW n \in Nat, NEW E \in SUBSET Chunks(n), Recoverable(n, E)
    PROVE  Enough(n, Unknown(n, E), Rows(n, E))
<1> DEFINE U == Unknown(n, E)
           A == Usable(n, E)
           L == LocalsOf(n, A)
           R == Rows(n, E)
<1> SUFFICES ASSUME NEW S \in SUBSET U PROVE Cardinality(S) <= Cardinality(Meeting(n, S, R))
  BY DEF Enough, Meeting
<1> DEFINE B == {i \in A : Lines(n, i) \cap S # {}}
           K == LocalsOf(n, B)
           M == Meeting(n, S, R)
<1>1. /\ IsFiniteSet(U) /\ Cardinality(U) \in Nat /\ Cardinality(A) \in Nat
      /\ Cardinality(A) <= Cardinality(U)
  BY LossParts
<1>2. /\ IsFiniteSet(R) /\ L \in SUBSET R /\ R \ L \subseteq GlobalCodes(n)
      /\ Cardinality(R) >= Cardinality(U) /\ Cardinality(R) \in Nat
  BY RowsAre
<1>3. A \in SUBSET Groups /\ \A i \in A : Lines(n, i) \cap E # {} /\ Local(n, i) \notin E
  BY DamagedIs DEF Usable
<1>4. U \subseteq Data(n) /\ U = E \cap Data(n)
  BY DEF Unknown
<1>5. B \in SUBSET A /\ A \ B \in SUBSET Groups /\ B \in SUBSET Groups
  BY <1>3
<1>6. \A i \in A \ B : Lines(n, i) \cap (U \ S) # {}
  BY <1>3, <1>4, EquationsAre
<1>7. /\ IsFiniteSet(U \ S) /\ Cardinality(U \ S) \in Nat /\ Cardinality(S) \in Nat
      /\ IsFiniteSet(S) /\ Cardinality(U) = Cardinality(S) + Cardinality(U \ S)
  BY <1>1, PartsCount
<1>8. Cardinality(A \ B) <= Cardinality(U \ S)
  <2> DEFINE C == A \ B
             T == U \ S
  <2>1. C \in SUBSET Groups /\ IsFiniteSet(T) /\ \A i \in C : Lines(n, i) \cap T # {}
    BY <1>5, <1>6, <1>7
  <2> HIDE DEF C, T
  <2>2. Cardinality(C) <= Cardinality(T)
    BY <2>1, OneEach
  <2> QED BY <2>2 DEF C, T
<1>9. /\ Cardinality(B) \in Nat /\ Cardinality(A \ B) \in Nat
      /\ Cardinality(A) = Cardinality(B) + Cardinality(A \ B)
  <2>1. IsFiniteSet(A)
    BY <1>3, CodesCount
  <2> QED BY <1>5, <2>1, PartsCount
<1>10. IsFiniteSet(K) /\ Cardinality(K) = Cardinality(B) /\ Cardinality(L) = Cardinality(A)
  BY <1>3, <1>5, CodesCount
<1>11. /\ IsFiniteSet(R \ L) /\ Cardinality(R \ L) \in Nat
       /\ Cardinality(R) = Cardinality(L) + Cardinality(R \ L)
  BY <1>2, PartsCount
<1>12. K \subseteq L /\ K \cap (R \ L) = {}
  BY <1>5 DEF LocalsOf
<1>13. CASE S = {}
  <2>1. Cardinality(S) = 0
    BY <1>13, FS_EmptySet
  <2>2. M \subseteq R
    BY DEF Meeting
  <2>3. IsFiniteSet(M)
    BY <1>2, <2>2, FS_Subset
  <2>4. Cardinality(M) \in Nat
    BY <2>3, FS_CardinalityType
  <2> HIDE DEF M
  <2>5. Cardinality(S) <= Cardinality(M)
    BY <2>1, <2>4
  <2> QED BY <2>5 DEF M
<1>14. CASE S # {}
  <2>1. \A c \in R \ L : c \in M
    BY <1>2, <1>4, <1>14, EquationsAre DEF Meeting
  <2>2. \A i \in B : Local(n, i) \in M
    <3>1. \A i \in B : Local(n, i) \in L /\ Equation(n, Local(n, i)) \cap S # {}
      BY <1>5 DEF LocalsOf, Lines
    <3> HIDE DEF L, R, B
    <3> QED BY <1>2, <3>1 DEF Meeting
  <2>3. K \cup (R \ L) \subseteq M
    BY <2>1, <2>2 DEF LocalsOf
  <2>4. M \subseteq R
    BY DEF Meeting
  <2> HIDE DEF M, K, L, R, A, B, U
  <2>5. IsFiniteSet(M)
    BY <1>2, <2>4, FS_Subset
  <2>6. /\ IsFiniteSet(K \cup (R \ L))
        /\ Cardinality(K \cup (R \ L)) = Cardinality(K) + Cardinality(R \ L)
    BY <1>10, <1>11, <1>12, DisjointCount
  <2>7. Cardinality(K \cup (R \ L)) <= Cardinality(M) /\ Cardinality(M) \in Nat
    BY <2>3, <2>5, FS_Subset, FS_CardinalityType
  <2>8. Cardinality(S) <= Cardinality(M)
    BY <1>1, <1>2, <1>7, <1>8, <1>9, <1>10, <1>11, <2>6, <2>7
  <2> QED BY <2>8 DEF M
<1> QED BY <1>13, <1>14
-----------------------------------------------------------------------------
(* Losses that need no count. *)

\* A loss of at most one chunk more than there are global codes is accepted:
\* if it touches a group its local code takes one of them (lrc_get_source).
THEOREM LossWithinLimit ==
    ASSUME NEW n \in Nat, NEW lostChunks \in SUBSET Chunks(n),
           Cardinality(lostChunks) <= Globals(n) + 1
    PROVE  Recoverable(n, lostChunks)
<1> DEFINE E == lostChunks
           D == Damaged(n, E)
<1>0. Globals(n) \in Nat
  BY CodeIsNat
<1>1. IsFiniteSet(Chunks(n)) /\ IsFiniteSet(0..N_LOCAL-1)
  BY CodesCount DEF Groups
<1>2. IsFiniteSet(E) /\ Cardinality(E) \in Nat
  BY <1>1, FS_Subset, FS_CardinalityType
<1>3. IsFiniteSet(D) /\ Cardinality(D) \in Nat
  <2>1. D \subseteq 0..N_LOCAL-1
    BY DEF Damaged
  <2> QED BY <1>1, <2>1, FS_Subset, FS_CardinalityType
<1>4. CASE D = {}
  <2>1. E \subseteq GlobalCodes(n)
    BY <1>4, ChunkKinds DEF Damaged
  <2>2. IsFiniteSet(GlobalCodes(n)) /\ Cardinality(GlobalCodes(n)) = Globals(n)
    BY CodesCount
  <2>3. Cardinality(E) <= Globals(n)
    BY <2>1, <2>2, FS_Subset
  <2>4. Cardinality(D) = 0
    BY <1>4, FS_EmptySet
  <2> QED BY <1>0, <1>2, <2>3, <2>4 DEF Recoverable, Left
<1>5. CASE D # {}
  <2>1. Cardinality(D) # 0
    BY <1>3, <1>5, FS_EmptySet
  <2> QED BY <1>0, <1>2, <1>3, <2>1 DEF Recoverable, Left
<1> QED BY <1>4, <1>5

\* Above the smallest files, five blocks are the only number whose groups do not
\* fit: the last group would have -1 blocks, which a uint8_t reads as 255 and
\* the library refuses (upload, lrc_init_n).
THEOREM GroupsFit ==
    \A n \in 4..191 : InitFails(n) <=> n = 5
BY DEF InitFails, LastGroupLen, GroupLen, Globals

-----------------------------------------------------------------------------
(* The invariant: what download ended with is what the loss that is there   *)
(* asks for; nothing is lost any more once it ended.                        *)

IInv ==
    /\ TypeOK
    /\ phase # "over" => outcome = "none"
    /\ outcome = "unrecoverable" => ~Recoverable(BlockNum(length), lost)
    /\ outcome = "written" => Recoverable(BlockNum(length), lost)
    /\ phase = "over" /\ LenKnown(BlockNum(length)) /\ outcome # "unrecoverable" =>
         Recoverable(BlockNum(length), lost)
    /\ outcome = "written" /\ LenKnown(BlockNum(length)) =>
         (whole <=> Combined(length, lost, padded))

\* The invariant holds at the start.
LEMMA InitInv == Init => IInv
<1> SUFFICES ASSUME Init PROVE IInv
  OBVIOUS
<1>1. Cardinality(lost) = 0
  BY FS_EmptySet DEF Init
<1>2. TypeOK
  <2>0. length \in Length /\ MAX_LOST[length] \in Nat
    BY ErasureAssumption DEF Init
  <2>1. lost \subseteq Chunks(BlockNum(length)) /\ Cardinality(lost) <= MAX_LOST[length]
    BY <1>1, <2>0 DEF Init
  <2>2. padded \in BOOLEAN /\ whole \in BOOLEAN /\ (whole => outcome = "written")
    BY DEF Init
  <2> QED BY <2>1, <2>2 DEF Init, TypeOK
<1>3. outcome = "none" /\ phase = "file"
  BY DEF Init
<1> QED BY <1>2, <1>3 DEF IInv

\* A file has blocks, and what is lost of it is a finite set of chunks.
LEMMA LossIsFinite ==
    ASSUME TypeOK
    PROVE  /\ BlockNum(length) \in Nat /\ lost \in SUBSET Chunks(BlockNum(length))
           /\ IsFiniteSet(lost) /\ Cardinality(lost) \in Nat
<1>1. BlockNum(length) \in Nat /\ lost \in SUBSET Chunks(BlockNum(length))
  BY BlockNumIsNat, ErasureAssumption DEF TypeOK
<1>2. IsFiniteSet(Chunks(BlockNum(length)))
  BY <1>1, ChunksFinite
<1> QED BY <1>1, <1>2, FS_Subset, FS_CardinalityType

\* A chunk more is lost.
LEMMA LoseKeeps ==
    ASSUME IInv, NEW c \in Chunks(BlockNum(length)), Lose(c)
    PROVE  IInv'
<1>1. lost' = lost \cup {c} /\ lost' \subseteq Chunks(BlockNum(length'))
  BY DEF IInv, TypeOK, Lose
<1>2. Cardinality(lost') <= MAX_LOST[length]
  <2>1. IsFiniteSet(lost) /\ Cardinality(lost) \in Nat
    BY LossIsFinite DEF IInv
  <2>2. Cardinality(lost \cup {c}) <= Cardinality(lost) + 1 /\ Cardinality(lost \cup {c}) \in Nat
    <3>1. Cardinality(lost \cup {c}) = IF c \in lost THEN Cardinality(lost) ELSE Cardinality(lost) + 1
      BY ONLY <2>1, FS_AddElement
    <3> QED BY ONLY <2>1, <3>1
  <2>3. Cardinality(lost) < MAX_LOST[length]
    BY DEF Lose
  <2>4. MAX_LOST[length] \in Nat
    BY ErasureAssumption DEF IInv, TypeOK
  <2>5. lost' = lost \cup {c}
    BY <1>1
  <2> QED BY ONLY <2>1, <2>2, <2>3, <2>4, <2>5
<1>3. outcome' = "none" /\ phase' = "stored"
  BY DEF IInv, Lose
<1>4. TypeOK'
  BY <1>1, <1>2 DEF IInv, TypeOK, Lose
<1> QED BY <1>3, <1>4 DEF IInv

\* Download with a known block length: the count of lrc_get_source decides
\* whether it goes on.
LEMMA DownloadKeeps == ASSUME IInv, Download PROVE IInv'
<1> DEFINE n == BlockNum(length)
           inverts == Inverts(n, Unknown(n, lost), Rows(n, lost))
<1> HIDE DEF inverts
<1>1. /\ phase' = "over" /\ length' = length /\ lost' = lost
      /\ padded' \in BOOLEAN
      /\ whole' = (outcome' = "written" /\ Combined(length, lost, padded'))
      /\ outcome' = IF ~Recoverable(n, lost) THEN "unrecoverable"
                    ELSE IF inverts THEN "written" ELSE "exit"
  BY DEF Download, inverts
<1>2. /\ outcome' \in {"unrecoverable", "exit", "written"}
      /\ outcome' = "unrecoverable" <=> ~Recoverable(n, lost)
  BY <1>1
<1>3. TypeOK'
  <2>1. whole' \in BOOLEAN /\ (whole' => outcome' = "written")
    BY <1>1
  <2> QED BY <1>1, <1>2, <2>1 DEF IInv, TypeOK
<1>4. outcome' = "written" => (whole' <=> Combined(length', lost', padded'))
  BY <1>1
<1> QED BY <1>1, <1>2, <1>3, <1>4 DEF IInv

\* Without a local code anything may come of a loss that is not refused.
LEMMA BlindKeeps == ASSUME IInv, DownloadBlind PROVE IInv'
<1>1. /\ phase' = "over" /\ length' = length /\ lost' = lost /\ padded' = padded /\ whole' = whole
      /\ outcome' \in {"unrecoverable", "exit", "written"}
      /\ outcome' = "unrecoverable" => ~Recoverable(BlockNum(length), lost)
      /\ outcome' = "written" => Recoverable(BlockNum(length), lost)
      /\ phase = "stored" /\ ~LenKnown(BlockNum(length))
  BY DEF DownloadBlind
<1>2. ~LenKnown(BlockNum(length))'
  BY <1>1 DEF LenKnown
<1>3. outcome = "none"
  BY <1>1 DEF IInv
<1>4. TypeOK'
  BY <1>1, <1>3 DEF IInv, TypeOK
<1> QED BY <1>1, <1>2, <1>4 DEF IInv

\* Every step keeps it.
LEMMA NextInv == IInv /\ [Next]_vars => IInv'
<1> SUFFICES ASSUME IInv, [Next]_vars PROVE IInv'
  OBVIOUS
<1>1. ASSUME Upload \/ UploadFails PROVE IInv'
  <2>1. /\ phase' # "over" /\ outcome' = "none" /\ phase = "file"
        /\ UNCHANGED <<length, lost, padded, whole, outcome>>
    BY <1>1 DEF IInv, Upload, UploadFails
  <2>2. TypeOK'
    BY <1>1, <2>1 DEF IInv, TypeOK, Upload, UploadFails
  <2> QED BY <2>1, <2>2 DEF IInv
<1>2. ASSUME NEW c \in Chunks(BlockNum(length)), Lose(c) PROVE IInv'
  BY <1>2, LoseKeeps
<1>3. CASE Download
  BY <1>3, DownloadKeeps
<1>4. CASE DownloadBlind
  BY <1>4, BlindKeeps
<1>5. CASE UNCHANGED vars
  BY <1>5 DEF IInv, TypeOK, LenKnown, vars
<1> QED BY <1>1, <1>2, <1>3, <1>4, <1>5 DEF Next

\* Every variable keeps its type, and what was lost is a set of chunks.
THEOREM TypeCorrect == Spec => []TypeOK
<1>1. IInv => TypeOK
  BY DEF IInv
<1> QED BY <1>1, InitInv, NextInv, PTL DEF Spec

\* For a file of any length: download never answers LRC_UNRECOVERABLE to a loss
\* of as many chunks as there are global codes, or of one more.
THEOREM Limit == Spec => []LimitIsRecoverable
<1>1. IInv => LimitIsRecoverable
  <2> SUFFICES ASSUME IInv, outcome = "unrecoverable"
               PROVE  Cardinality(lost) > Globals(BlockNum(length)) + 1
    BY DEF LimitIsRecoverable
  <2>1. /\ BlockNum(length) \in Nat /\ lost \in SUBSET Chunks(BlockNum(length))
        /\ Cardinality(lost) \in Nat /\ Globals(BlockNum(length)) \in Nat
    BY LossIsFinite, CodeIsNat DEF IInv
  <2>2. ~(Cardinality(lost) <= Globals(BlockNum(length)) + 1)
    BY <2>1, LossWithinLimit DEF IInv
  <2> QED BY <2>1, <2>2
<1> QED BY <1>1, InitInv, NextInv, PTL DEF Spec

\* For a file of any length and any loss, and whatever the coefficients are:
\* download refuses exactly what no decoder could repair, and where it goes on,
\* once a local code told it the length of a block, the rows the decoder takes
\* are about the unknown blocks, enough of them for every set of these.
THEOREM RefusedOrRows == Spec => []RefusedOrHasRows
<1>1. IInv => RefusedOrHasRows
  <2> SUFFICES ASSUME IInv PROVE RefusedOrHasRows
    OBVIOUS
  <2> DEFINE n == BlockNum(length)
  <2>1. Recoverable(n, lost) <=> Enough(n, lost, Codes(n))
    BY LossIsFinite, AcceptsExactly DEF IInv
  <2>2. /\ outcome = "unrecoverable" => ~Recoverable(n, lost)
        /\ outcome = "written" => Recoverable(n, lost)
    BY DEF IInv
  <2>3. RefusedIfHopeless
    BY <2>1, <2>2 DEF RefusedIfHopeless
  <2>4. Recoverable(n, lost) => Enough(n, Unknown(n, lost), Rows(n, lost))
    BY LossIsFinite, RowsSuffice DEF IInv
  <2>5. AcceptedHasRows
    BY <2>4 DEF AcceptedHasRows, IInv
  <2> QED BY <2>3, <2>5 DEF RefusedOrHasRows
<1> QED BY <1>1, InitInv, NextInv, PTL DEF Spec

\* For a file of any length whose last block is shorter than the others: when
\* global codes take part and the decoder solves its equations, the chunks that
\* lrc_get_source names are all the data that is left, so every lost block is
\* solved from bytes that are the file's, and the file comes back whole.
THEOREM SourcesAreEnough == Spec => []SourcesSuffice
<1>1. IInv => SourcesSuffice
  <2> DEFINE n == BlockNum(length)
  <2> SUFFICES ASSUME IInv, outcome = "written", LenKnown(n), Left(n, lost) > 0,
                      LastLen(length) = LastPiece(length), padded \/ n - 1 \in lost
               PROVE  Combined(length, lost, padded)
    BY DEF IInv, SourcesSuffice
  <2>1. \A d \in Data(n) : d \notin lost => d \in Source(n, lost)
    BY DEF Source
  <2>2. \A d \in Data(n) : d \notin lost => Trusted(n, lost, d, padded)
    BY <2>1 DEF Trusted
  <2>3. \A i \in 0..N_LOCAL-1 : Group(n, i) \subseteq Data(n)
    BY DEF Group
  <2>4. ASSUME NEW d \in Data(n), d \in lost PROVE Solved(n, lost, d, padded)
    <3> DEFINE own == {i \in 0..N_LOCAL-1 : Alone(n, lost, d, i)}
               used == IF own = {} THEN Data(n) ELSE UNION {Group(n, i) : i \in own}
    <3>1. used \subseteq Data(n)
      BY <2>3
    <3> HIDE DEF n
    <3>2. \A x \in used \ lost : Trusted(n, lost, x, padded)
      BY <2>2, <3>1
    <3> QED BY <3>2 DEF Solved
  <2> QED BY <2>1, <2>4 DEF Combined
<1> QED BY <1>1, InitInv, NextInv, PTL DEF Spec

-----------------------------------------------------------------------------
(* Making a field: what the init functions of every width settle on. *)

\* The values of gf_division_type_t that gf_error_check lets through.
Divisions == {"DEFAULT", "MATRIX", "EUCLID"}

\* What an init function left in a field is complete, or it failed.
Complete(f, mu, t) ==
    /\ f.ok = TRUE /\ f.multiply = mu /\ f.tables = t
    /\ f.divide # "NULL" /\ f.inverse # "NULL" /\ f.region # "NULL"

\* What every width's completion adds to the functions an init function chose.
LEMMA CompletedIs ==
    ASSUME NEW m, m.divide \in Divisions, NEW mu, NEW d, NEW i, NEW r, NEW t
    PROVE  Complete(Completed(m, Chosen(mu, d, i, r, t)), mu, t)
<1> DEFINE c == Chosen(mu, d, i, r, t)
           a == AskedDivision(m, c)
           b == CompletedDivision(a)
           e == CompletedRegion(m, b)
<1>1. c = [ok |-> TRUE, multiply |-> mu, divide |-> d, inverse |-> i, region |-> r, tables |-> t]
  BY DEF Chosen
<1>2. \E d2, i2 : a = [ok |-> TRUE, multiply |-> mu, divide |-> d2, inverse |-> i2, region |-> r, tables |-> t]
  <2>1. CASE m.divide = "EUCLID"
    <3>1. a = [c EXCEPT !.divide = "divide_from_inverse", !.inverse = "euclid"]
      BY <2>1 DEF AskedDivision
    <3> HIDE DEF c, a
    <3> QED BY <1>1, <3>1
  <2>2. CASE m.divide = "MATRIX"
    <3>1. a = [c EXCEPT !.divide = "divide_from_inverse", !.inverse = "matrix"]
      BY <2>2 DEF AskedDivision
    <3> HIDE DEF c, a
    <3> QED BY <1>1, <3>1
  <2>3. CASE m.divide = "DEFAULT"
    <3>1. a = c
      BY <2>3 DEF AskedDivision
    <3> HIDE DEF c, a
    <3> QED BY <1>1, <3>1
  <2> QED BY <2>1, <2>2, <2>3 DEF Divisions
<1> HIDE DEF a
<1>3. PICK d2, i2 : a = [ok |-> TRUE, multiply |-> mu, divide |-> d2, inverse |-> i2, region |-> r, tables |-> t]
  BY <1>2
<1> DEFINE i3 == IF d2 = "NULL" /\ i2 = "NULL" THEN "euclid" ELSE i2
           d4 == IF d2 = "NULL" THEN "divide_from_inverse" ELSE d2
           i4 == IF i3 = "NULL" THEN "inverse_from_divide" ELSE i3
<1>4. b = [a EXCEPT !.divide = d4, !.inverse = i4]
  BY <1>3 DEF CompletedDivision
<1>5. d4 # "NULL" /\ i4 # "NULL"
  OBVIOUS
<1> HIDE DEF b, d4, i4
<1>6. b = [ok |-> TRUE, multiply |-> mu, divide |-> d4, inverse |-> i4, region |-> r, tables |-> t]
  BY <1>3, <1>4
<1>7. \E r2 : r2 # "NULL" /\ e = [ok |-> TRUE, multiply |-> mu, divide |-> d4, inverse |-> i4, region |-> r2, tables |-> t]
  <2>1. CASE m.region = {"CAUCHY"}
    <3>1. e = [b EXCEPT !.region = "cauchy"]
      BY <2>1 DEF CompletedRegion
    <3> HIDE DEF e
    <3>2. e = [ok |-> TRUE, multiply |-> mu, divide |-> d4, inverse |-> i4, region |-> "cauchy", tables |-> t]
      BY <1>6, <3>1
    <3>3. "cauchy" # "NULL"
      OBVIOUS
    <3> QED BY <3>2, <3>3
  <2>2. CASE m.region # {"CAUCHY"} /\ b.region = "NULL"
    <3>1. e = [b EXCEPT !.region = "from_single"]
      BY <2>2 DEF CompletedRegion
    <3> HIDE DEF e
    <3>2. e = [ok |-> TRUE, multiply |-> mu, divide |-> d4, inverse |-> i4, region |-> "from_single", tables |-> t]
      BY <1>6, <3>1
    <3>3. "from_single" # "NULL"
      OBVIOUS
    <3> QED BY <3>2, <3>3
  <2>3. CASE m.region # {"CAUCHY"} /\ b.region # "NULL"
    <3>1. e = b /\ r # "NULL"
      BY <1>6, <2>3 DEF CompletedRegion
    <3> HIDE DEF e
    <3> QED BY <1>6, <3>1
  <2> QED BY <2>1, <2>2, <2>3
<1>8. Completed(m, c) = e
  BY <1>1 DEF Completed, b, a
<1> HIDE DEF e
<1>9. PICK r2 : r2 # "NULL" /\ e = [ok |-> TRUE, multiply |-> mu, divide |-> d4, inverse |-> i4, region |-> r2, tables |-> t]
  BY <1>7
<1>10. Complete(e, mu, t)
  BY <1>5, <1>9 DEF Complete
<1> QED BY <1>8, <1>10

\* Completion leaves a field that failed as it is.
LEMMA FailedIs == \A m : Completed(m, Failed) = Failed /\ Failed.ok = FALSE /\ Failed.multiply = "NULL"
BY DEF Completed, Failed

\* The same for any functions at once.
LEMMA ChosenIsComplete ==
    ASSUME NEW m, m.divide \in Divisions
    PROVE  \A mu, d, i, r, t : Complete(Completed(m, Chosen(mu, d, i, r, t)), mu, t)
BY CompletedIs

\* What an init function comes to: it may only fail or leave the multiplication
\* out when failing holds, and otherwise takes a name of names and has room for
\* the tables it fills.
Settled(f, size, failing, names) ==
    \/ failing /\ (f = Failed \/ (f.ok = TRUE /\ f.multiply = "NULL"))
    \/ /\ size # "0"
       /\ \E mu \in names : Complete(f, mu, "none") \/ Complete(f, mu, size)

\* GF(2^4): the multiplications its init functions may choose.
W4Names(m, P) ==
    {"shift", "BYTWO_p", "BYTWO_b", "single_table", "double_table", "quad_table", "quad_table_lazy"}
        \cup (IF m.mult = "CARRY_FREE" THEN {"clm", "neon_clm"} ELSE {})
        \cup (IF MetAgain(P) THEN {} ELSE {"log"})


\* GF(2^4): what makes them fail.
W4Fails(m, P) == m.mult = "CARRY_FREE_GK" \/ (m.mult = "LOG_TABLE" /\ MetAgain(P))

\* The three ways to be settled.
LEMMA SettledIs ==
    ASSUME NEW f, NEW size, NEW failing \in BOOLEAN, NEW names
    PROVE  /\ failing /\ f = Failed => Settled(f, size, failing, names)
           /\ \A mu \in names : size # "0" /\ Complete(f, mu, size) => Settled(f, size, failing, names)
           /\ \A mu \in names : size # "0" /\ Complete(f, mu, "none") => Settled(f, size, failing, names)
<1>2. failing /\ f = Failed => Settled(f, size, failing, names)
  BY DEF Settled
<1>3. \A mu \in names : size # "0" /\ Complete(f, mu, size) => Settled(f, size, failing, names)
  BY DEF Settled
<1>4. \A mu \in names : size # "0" /\ Complete(f, mu, "none") => Settled(f, size, failing, names)
  BY DEF Settled
<1> QED BY <1>2, <1>3, <1>4

\* GF(2^4): which multiplication, and that there is room for its tables.
LEMMA W4Chooses ==
    ASSUME NEW m, m.w = 4, m.mult \in Multiplications, NEW poly, NEW base, NEW build, NEW P,
           GfErrorCheck(m, poly, base, build)
    PROVE  Settled(GfW4Init(m, P, build), GfW4ScratchSize(m, build), W4Fails(m, P), W4Names(m, P))
<1> DEFINE f == GfW4Init(m, P, build)
           z == GfW4ScratchSize(m, build)
           Fine == Settled(f, z, W4Fails(m, P), W4Names(m, P))
<1> HIDE DEF f, z
<1> SUFFICES Fine
  BY DEF f, z
<1>d. W4Fails(m, P) \in BOOLEAN
  BY DEF W4Fails
<1>a. W4Fails(m, P) /\ f = Failed => Fine
  BY <1>d, SettledIs
<1>b. \A mu \in W4Names(m, P) : z # "0" /\ Complete(f, mu, z) => Fine
  BY <1>d, SettledIs
<1>c. \A mu \in W4Names(m, P) : z # "0" /\ Complete(f, mu, "none") => Fine
  BY <1>d, SettledIs
<1> HIDE DEF Fine
<1>0. m.divide \in Divisions
  BY DEF GfErrorCheck, Divisions
<1>1. CASE m.mult = "SHIFT"
  <2>1. f = Completed(m, Chosen("shift", "NULL", "NULL", "NULL", "none")) /\ z = "none"
    BY <1>1 DEF GfW4Init, GfW4ScratchSize, f, z
  <2>2. Complete(f, "shift", "none")
    BY <1>0, <2>1, ChosenIsComplete
  <2> QED BY <1>c, <2>1, <2>2 DEF W4Names
<1>2. CASE m.mult = "CARRY_FREE"
  <2>1. z = "none" /\ f = Completed(m, GfW4CfmInit(m, build))
    BY <1>2 DEF GfW4Init, GfW4ScratchSize, f, z
  <2>2. "PCLMUL" \in build \/ "NEON" \in build
    BY <1>2 DEF GfErrorCheck, MethodAllowed, CarryFreeAllowed, Pclmul, TableFlagsAllowed
  <2>3. \E mu \in {"clm", "neon_clm"} : \E r : GfW4CfmInit(m, build) = Chosen(mu, "NULL", "NULL", r, "none")
    BY <2>2 DEF GfW4CfmInit
  <2>4. \E mu \in {"clm", "neon_clm"} : Complete(f, mu, "none")
    BY <1>0, <2>1, <2>3, ChosenIsComplete
  <2>5. {"clm", "neon_clm"} \subseteq W4Names(m, P)
    BY <1>2 DEF W4Names
  <2> QED BY <1>c, <2>1, <2>4, <2>5
<1>3. CASE m.mult = "CARRY_FREE_GK"
  <2>2. f = Completed(m, Failed)
    BY <1>3 DEF GfW4Init, f
  <2>1. f = Failed
    BY <2>2, FailedIs
  <2>3. W4Fails(m, P)
    BY <1>3 DEF W4Fails
  <2> QED BY <1>a, <2>1, <2>3
<1>4. CASE m.mult \in {"BYTWO_p", "BYTWO_b"}
  <2>1. z = "bytwo" /\ f = Completed(m, GfW4BytwoInit(m, build))
    BY <1>4 DEF GfW4Init, GfW4ScratchSize, f, z
  <2>2. ~("SIMD" \in m.region /\ "SSE2" \notin build)
    BY <1>4 DEF GfErrorCheck, MethodAllowed, TableFlagsAllowed
  <2>3. \E r : GfW4BytwoInit(m, build) = Chosen(m.mult, "NULL", "NULL", r, "bytwo")
    BY <2>2 DEF GfW4BytwoInit
  <2>4. Complete(f, m.mult, "bytwo")
    BY <1>0, <2>1, <2>3, ChosenIsComplete
  <2> QED BY <1>4, <1>b, <2>1, <2>4 DEF W4Names
<1>5. CASE m.mult = "LOG_TABLE"
  <2>1. z = "log" /\ f = Completed(m, GfW4LogInit(P))
    BY <1>5 DEF GfW4Init, GfW4ScratchSize, f, z
  <2>2. CASE MetAgain(P)
    <3>1. f = Failed
      BY <2>1, <2>2, FailedIs DEF GfW4LogInit
    <3> QED BY <1>5, <1>a, <2>2, <3>1 DEF W4Fails
  <2>3. CASE ~MetAgain(P)
    <3>1. f = Completed(m, Chosen("log", "log", "inverse_from_divide", "log", "log"))
      BY <2>1, <2>3 DEF GfW4LogInit
    <3>2. Complete(f, "log", "log")
      BY <1>0, <3>1, ChosenIsComplete
    <3> QED BY <1>b, <2>1, <2>3, <3>2 DEF W4Names
  <2> QED BY <2>2, <2>3
<1>6. CASE m.mult \in {"DEFAULT", "TABLE"}
  <2> DEFINE flags == IF m.mult = "DEFAULT" /\ ~Simd(build) THEN {"DOUBLE"} ELSE m.region
             c == GfW4TableInit(m, build)
  <2>1. f = Completed(m, c)
    BY <1>6 DEF GfW4Init, f
  <2>2. z = IF m.region = {"CAUCHY"} THEN "single"
               ELSE IF "DOUBLE" \in flags THEN "double"
               ELSE IF "QUAD" \in flags THEN IF "LAZY" \in flags THEN "quad_lazy" ELSE "quad"
               ELSE "single"
    BY <1>6 DEF GfW4ScratchSize, z
  <2>3. c = CASE "DOUBLE" \in flags -> Chosen("double_table", "double_table", "NULL", "double_table", "double")
              [] "DOUBLE" \notin flags /\ "QUAD" \in flags ->
                   IF "LAZY" \in flags
                   THEN Chosen("quad_table_lazy", "quad_table_lazy", "NULL", "quad_table", "quad_lazy")
                   ELSE Chosen("quad_table", "quad_table", "NULL", "quad_table", "quad")
              [] OTHER ->
                   IF "SIMD" \in flags /\ ~Simd(build) THEN Failed
                   ELSE Chosen("single_table", "single_table", "NULL",
                               IF ~Simd(build) \/ flags \cap {"NOSIMD", "CAUCHY"} # {}
                               THEN "single_table"
                               ELSE IF "SSSE3" \in build THEN "single_table_sse"
                                    ELSE "single_table_neon",
                               "single")
    BY DEF GfW4TableInit
  <2>4. /\ m.region = {"CAUCHY"} => "DOUBLE" \notin flags /\ "QUAD" \notin flags
        /\ ~("DOUBLE" \notin flags /\ "QUAD" \notin flags /\ "SIMD" \in flags /\ ~Simd(build))
    <3>1. CASE m.mult = "DEFAULT"
      <4>1. m.region = {}
        BY <3>1 DEF GfErrorCheck
      <4> QED BY <3>1, <4>1
    <3>2. CASE m.mult = "TABLE"
      <4>1. flags = m.region
        BY <3>2
      <4>2. "SIMD" \in m.region /\ "DOUBLE" \notin m.region /\ "QUAD" \notin m.region => Sse3(build)
        BY <3>2 DEF GfErrorCheck, MethodAllowed, NoneOf
      <4>3. Sse3(build) => Simd(build)
        BY DEF Sse3, Simd
      <4> HIDE DEF flags
      <4> QED BY <4>1, <4>2, <4>3
    <3> QED BY <1>6, <3>1, <3>2
  <2> HIDE DEF flags, c
  <2>5. \E mu \in {"single_table", "double_table", "quad_table", "quad_table_lazy"} : \E r :
          z # "0" /\ c = Chosen(mu, mu, "NULL", r, z)
    <3>1. CASE "DOUBLE" \in flags
      <4>1. z = "double"
        BY <2>2, <2>4, <3>1
      <4>2. c = Chosen("double_table", "double_table", "NULL", "double_table", "double")
        BY <2>3, <3>1
      <4> QED BY <4>1, <4>2
    <3>2. CASE "DOUBLE" \notin flags /\ "QUAD" \in flags
      <4>1. z = IF "LAZY" \in flags THEN "quad_lazy" ELSE "quad"
        BY <2>2, <2>4, <3>2
      <4>2. c = IF "LAZY" \in flags
                THEN Chosen("quad_table_lazy", "quad_table_lazy", "NULL", "quad_table", "quad_lazy")
                ELSE Chosen("quad_table", "quad_table", "NULL", "quad_table", "quad")
        BY <2>3, <3>2
      <4> QED BY <4>1, <4>2
    <3>3. CASE "DOUBLE" \notin flags /\ "QUAD" \notin flags
      <4>1. z = "single"
        BY <2>2, <3>3
      <4>2. \E r : c = Chosen("single_table", "single_table", "NULL", r, "single")
        BY <2>3, <2>4, <3>3
      <4> QED BY <4>1, <4>2
    <3> QED BY <3>1, <3>2, <3>3
  <2>6. \E mu \in {"single_table", "double_table", "quad_table", "quad_table_lazy"} : z # "0" /\ Complete(f, mu, z)
    BY <1>0, <2>1, <2>5, ChosenIsComplete
  <2> QED BY <1>b, <2>6 DEF W4Names
<1>7. CASE m.mult \in {"GROUP", "LOG_ZERO", "LOG_ZERO_EXT", "SPLIT", "COMPOSITE"}
  <2>1. FALSE
    <3>1. MethodAllowed(m, poly, base, build)
      BY <1>7 DEF GfErrorCheck, TableFlagsAllowed
    <3>2. CASE m.mult = "GROUP"
      BY <3>1, <3>2 DEF MethodAllowed, GroupAllowed
    <3>3. CASE m.mult = "LOG_ZERO"
      BY <3>1, <3>3 DEF MethodAllowed
    <3>6. CASE m.mult = "LOG_ZERO_EXT"
      BY <3>1, <3>6 DEF MethodAllowed
    <3>4. CASE m.mult = "SPLIT"
      <4>1. SplitAllowed(m, build)
        BY <3>1, <3>4 DEF MethodAllowed
      <4> QED BY <4>1 DEF SplitAllowed
    <3>5. CASE m.mult = "COMPOSITE"
      <4>1. CompositeAllowed(m, poly, base)
        BY <3>1, <3>5 DEF MethodAllowed
      <4> QED BY <4>1 DEF CompositeAllowed
    <3> QED BY <1>7, <3>2, <3>3, <3>4, <3>5, <3>6
  <2> QED BY <2>1
<1> QED BY <1>1, <1>2, <1>3, <1>4, <1>5, <1>6, <1>7 DEF Multiplications

\* GF(2^8): the multiplications, and what makes the init functions fail.
W8Names(m, F, P) ==
    {"shift", "BYTWO_p", "BYTWO_b", "table", "default", "double_table", "double_table_lazy", "split"}
        \cup (IF m.mult = "CARRY_FREE" /\ Reductions(F) # 0 THEN {"clm", "neon_clm"} ELSE {})
        \cup (IF MetAgain(P) THEN {} ELSE {"log", "logzero_small", "logzero"})
        \cup (IF m.mult = "COMPOSITE" THEN {"composite_recursive", "composite_inline"} ELSE {})

W8Fails(m, P) ==
    \/ m.mult = "CARRY_FREE_GK"
    \/ m.mult \in {"LOG_TABLE", "LOG_ZERO", "LOG_ZERO_EXT"} /\ MetAgain(P)

\* A polynomial without a term x^7 has a function for CARRY_FREE.
LEMMA CarryFreeHasReductions ==
    ASSUME NEW m, m.w = 8, m.mult = "CARRY_FREE", NEW poly, NEW base, NEW build,
           GfErrorCheck(m, poly, base, build)
    PROVE  Reductions(PolyField(m, poly, base)) \in {2, 3, 4}
<1> DEFINE F == PolyField(m, poly, base)
<1>1. MethodAllowed(m, poly, base, build)
  BY DEF GfErrorCheck, TableFlagsAllowed
<1>2. poly \cap HighTerms(m.w) = {}
  BY <1>1 DEF MethodAllowed
<1>3. HighTerms(8) = {7}
  BY DEF HighTerms
<1>4. F.poly = IF poly = {} THEN {0, 2, 3, 4} ELSE {i \in poly : i < 8}
  BY DEF PolyField, PolyOf, DefaultPoly, GfW8DefaultPoly, Cut, Zero
<1>5. 7 \notin F.poly
  BY <1>2, <1>3, <1>4
<1> HIDE DEF F
<1>6. CASE 5 \in F.poly /\ 6 \notin F.poly
  <2>1. F.poly \cap {5, 6, 7} = {5}
    BY <1>5, <1>6
  <2> QED BY <2>1 DEF Reductions, F
<1>7. CASE 6 \in F.poly
  <2>1. F.poly \cap {6, 7} = {6} /\ F.poly \cap {5, 6, 7} # {} /\ F.poly \cap {5, 6, 7} # {5}
    BY <1>5, <1>7
  <2> QED BY <2>1 DEF Reductions, F
<1>8. CASE 5 \notin F.poly /\ 6 \notin F.poly
  <2>1. F.poly \cap {5, 6, 7} = {}
    BY <1>5, <1>8
  <2> QED BY <2>1 DEF Reductions, F
<1> QED BY <1>6, <1>7, <1>8

\* GF(2^8): which multiplication, and that there is room for its tables.
LEMMA W8Chooses ==
    ASSUME NEW m, m.w = 8, m.mult \in Multiplications, NEW poly, NEW base, NEW build, NEW P,
           GfErrorCheck(m, poly, base, build),
           m.mult = "COMPOSITE" => base # NoField
    PROVE  Settled(GfW8Init(m, PolyField(m, poly, base), P, BaseTable(base), build),
                   GfW8ScratchSize(m, build), W8Fails(m, P), W8Names(m, PolyField(m, poly, base), P))
<1> DEFINE F == PolyField(m, poly, base)
           f == GfW8Init(m, F, P, BaseTable(base), build)
           z == GfW8ScratchSize(m, build)
           Fine == Settled(f, z, W8Fails(m, P), W8Names(m, F, P))
<1> HIDE DEF F, f, z
<1> SUFFICES Fine
  BY DEF F, f, z
<1>d. W8Fails(m, P) \in BOOLEAN
  BY DEF W8Fails
<1>a. W8Fails(m, P) /\ f = Failed => Fine
  BY <1>d, SettledIs
<1>b. \A mu \in W8Names(m, F, P) : z # "0" /\ Complete(f, mu, z) => Fine
  BY <1>d, SettledIs
<1>c. \A mu \in W8Names(m, F, P) : z # "0" /\ Complete(f, mu, "none") => Fine
  BY <1>d, SettledIs
<1> HIDE DEF Fine
<1>0. m.divide \in Divisions
  BY DEF GfErrorCheck, Divisions
<1>1. CASE m.mult = "SHIFT"
  <2>1. f = Completed(m, Chosen("shift", "NULL", "NULL", "NULL", "none")) /\ z = "none"
    BY <1>1 DEF GfW8Init, GfW8ScratchSize, f, z
  <2>2. Complete(f, "shift", "none")
    BY <1>0, <2>1, ChosenIsComplete
  <2> QED BY <1>c, <2>1, <2>2 DEF W8Names
<1>2. CASE m.mult = "CARRY_FREE"
  <2>1. z = "none" /\ f = Completed(m, GfW8CfmInit(F, build))
    BY <1>2 DEF GfW8Init, GfW8ScratchSize, f, z
  <2>2. "PCLMUL" \in build \/ "NEON" \in build
    BY <1>2 DEF GfErrorCheck, MethodAllowed, CarryFreeAllowed, Pclmul, TableFlagsAllowed
  <2>3. Reductions(F) \in {2, 3, 4}
    BY <1>2, CarryFreeHasReductions DEF F
  <2>4. \E mu \in {"clm", "neon_clm"} : \E r : GfW8CfmInit(F, build) = Chosen(mu, "NULL", "NULL", r, "none")
    BY <2>2, <2>3 DEF GfW8CfmInit
  <2>5. \E mu \in {"clm", "neon_clm"} : Complete(f, mu, "none")
    BY <1>0, <2>1, <2>4, ChosenIsComplete
  <2>6. {"clm", "neon_clm"} \subseteq W8Names(m, F, P)
    BY <1>2, <2>3 DEF W8Names
  <2> QED BY <1>c, <2>1, <2>5, <2>6
<1>3. CASE m.mult = "CARRY_FREE_GK"
  <2>1. f = Completed(m, Failed)
    BY <1>3 DEF GfW8Init, f
  <2>2. f = Failed
    BY <2>1, FailedIs
  <2> QED BY <1>3, <1>a, <2>2 DEF W8Fails
<1>4. CASE m.mult \in {"BYTWO_p", "BYTWO_b"}
  <2>1. z = "bytwo" /\ f = Completed(m, GfW8BytwoInit(m, build))
    BY <1>4 DEF GfW8Init, GfW8ScratchSize, f, z
  <2>2. ~("SIMD" \in m.region /\ "SSE2" \notin build)
    BY <1>4 DEF GfErrorCheck, MethodAllowed, TableFlagsAllowed
  <2>3. \E r : GfW8BytwoInit(m, build) = Chosen(m.mult, "NULL", "NULL", r, "bytwo")
    BY <2>2 DEF GfW8BytwoInit
  <2>4. Complete(f, m.mult, "bytwo")
    BY <1>0, <2>1, <2>3, ChosenIsComplete
  <2> QED BY <1>4, <1>b, <2>1, <2>4 DEF W8Names
<1>5. CASE m.mult \in {"LOG_TABLE", "LOG_ZERO", "LOG_ZERO_EXT"}
  <2>1. /\ z = IF m.mult = "LOG_TABLE" THEN "log" ELSE IF m.mult = "LOG_ZERO" THEN "logzero_small" ELSE "logzero"
        /\ f = Completed(m, GfW8LogInit(m, P))
    BY <1>5 DEF GfW8Init, GfW8ScratchSize, f, z
  <2>2. CASE MetAgain(P)
    <3>1. f = Failed
      BY <2>1, <2>2, FailedIs DEF GfW8LogInit
    <3> QED BY <1>5, <1>a, <2>2, <3>1 DEF W8Fails
  <2>3. CASE ~MetAgain(P)
    <3>1. GfW8LogInit(m, P) = CASE m.mult = "LOG_TABLE" -> Chosen("log", "log", "log", "log", "log")
                                [] m.mult = "LOG_ZERO" ->
                                     Chosen("logzero_small", "logzero_small", "logzero_small", "logzero", "logzero_small")
                                [] OTHER -> Chosen("logzero", "logzero", "logzero", "logzero", "logzero")
      BY <2>3 DEF GfW8LogInit
    <3>2. \E mu \in {"log", "logzero_small", "logzero"} : z = mu /\ \E r : GfW8LogInit(m, P) = Chosen(mu, mu, mu, r, mu)
      BY <1>5, <2>1, <3>1
    <3>3. \E mu \in {"log", "logzero_small", "logzero"} : z = mu /\ Complete(f, mu, z)
      BY <1>0, <2>1, <3>2, ChosenIsComplete
    <3>4. {"log", "logzero_small", "logzero"} \subseteq W8Names(m, F, P)
      BY <2>3 DEF W8Names
    <3> QED BY <1>b, <3>3, <3>4
  <2> QED BY <2>2, <2>3
<1>6. CASE m.mult = "DEFAULT"
  <2>1. f = Completed(m, GfW8TableInit(m, build)) /\ z = IF Simd(build) THEN "default" ELSE "single"
    BY <1>6 DEF GfW8Init, GfW8ScratchSize, f, z
  <2>2. \E mu \in {"table", "default"} : \E r : GfW8TableInit(m, build) = Chosen(mu, mu, "NULL", r, z)
    BY <1>6, <2>1 DEF GfW8TableInit
  <2>3. \E mu \in {"table", "default"} : z # "0" /\ Complete(f, mu, z)
    BY <1>0, <2>1, <2>2, ChosenIsComplete
  <2> QED BY <1>b, <2>3 DEF W8Names
<1>7. CASE m.mult = "TABLE"
  <2>1. f = Completed(m, GfW8TableInit(m, build))
    BY <1>7 DEF GfW8Init, f
  <2>2. z = IF m.region \in {{}, {"CAUCHY"}} THEN "single"
            ELSE IF m.region = {"DOUBLE"} THEN "double"
            ELSE IF m.region = {"DOUBLE", "LAZY"} THEN "double_lazy" ELSE "0"
    BY <1>7 DEF GfW8ScratchSize, z
  <2>3. GfW8TableInit(m, build) =
            IF m.region = {} \/ "CAUCHY" \in m.region THEN Chosen("table", "table", "NULL", "table", "single")
            ELSE IF m.region = {"DOUBLE"} THEN Chosen("double_table", "double_table", "NULL", "double_table", "double")
            ELSE IF m.region = {"DOUBLE", "LAZY"}
            THEN Chosen("double_table_lazy", "double_table_lazy", "NULL", "double_table", "double_lazy")
            ELSE Failed
    BY <1>7 DEF GfW8TableInit
  <2>4. /\ m.region \subseteq Flags
        /\ "CAUCHY" \in m.region => m.region = {"CAUCHY"}
        /\ m.region \cap {"SIMD", "NOSIMD", "ALTMAP"} = {}
    BY <1>7 DEF GfErrorCheck, MethodAllowed, TableFlagsAllowed, NoneOf
  <2>5. "QUAD" \notin m.region /\ ("DOUBLE" \notin m.region => "LAZY" \notin m.region)
    BY <1>7 DEF GfErrorCheck, TableFlagsAllowed, NoneOf
  <2>6. m.region \in {{}, {"CAUCHY"}, {"DOUBLE"}, {"DOUBLE", "LAZY"}}
    <3>1. CASE "CAUCHY" \in m.region
      BY <2>4, <3>1
    <3>2. CASE "CAUCHY" \notin m.region
      <4>1. m.region \subseteq {"DOUBLE", "LAZY"}
        BY <2>4, <2>5, <3>2 DEF Flags
      <4> QED BY <2>5, <4>1
    <3> QED BY <3>1, <3>2
  <2>7. \E mu \in {"table", "double_table", "double_table_lazy"} :
          z # "0" /\ \E r : GfW8TableInit(m, build) = Chosen(mu, mu, "NULL", r, z)
    <3>1. CASE m.region \in {{}, {"CAUCHY"}}
      <4>1. z = "single" /\ GfW8TableInit(m, build) = Chosen("table", "table", "NULL", "table", "single")
        BY <2>2, <2>3, <3>1
      <4> QED BY <4>1
    <3>2. CASE m.region = {"DOUBLE"}
      <4>1. z = "double" /\ GfW8TableInit(m, build) = Chosen("double_table", "double_table", "NULL", "double_table", "double")
        BY <2>2, <2>3, <3>2
      <4> QED BY <4>1
    <3>3. CASE m.region = {"DOUBLE", "LAZY"}
      <4>1. /\ z = "double_lazy"
            /\ GfW8TableInit(m, build) = Chosen("double_table_lazy", "double_table_lazy", "NULL", "double_table", "double_lazy")
        BY <2>2, <2>3, <3>3
      <4> QED BY <4>1
    <3> QED BY <2>6, <3>1, <3>2, <3>3
  <2>8. \E mu \in {"table", "double_table", "double_table_lazy"} : z # "0" /\ Complete(f, mu, z)
    BY <1>0, <2>1, <2>7, ChosenIsComplete
  <2> QED BY <1>b, <2>8 DEF W8Names
<1>8. CASE m.mult = "SPLIT"
  <2>1. f = Completed(m, GfW8SplitInit(m, build)) /\ z = IF {m.arg1, m.arg2} = {4, 8} THEN "half" ELSE "0"
    BY <1>8 DEF GfW8Init, GfW8ScratchSize, f, z
  <2>2. SplitAllowed(m, build)
    BY <1>8 DEF GfErrorCheck, MethodAllowed, TableFlagsAllowed
  <2>3. {m.arg1, m.arg2} = {4, 8} /\ ("SIMD" \in m.region => Sse3(build))
    BY <2>2 DEF SplitAllowed
  <2>4. ~("SIMD" \in m.region /\ ~Simd(build))
    BY <2>3 DEF Sse3, Simd
  <2>5. \E r : GfW8SplitInit(m, build) = Chosen("split", "NULL", "NULL", r, "half")
    BY <2>4 DEF GfW8SplitInit
  <2>6. z = "half" /\ Complete(f, "split", z)
    BY <1>0, <2>1, <2>3, <2>5, ChosenIsComplete
  <2> QED BY <1>b, <2>6 DEF W8Names
<1>9. CASE m.mult = "COMPOSITE"
  <2>1. f = Completed(m, GfW8CompositeInit(m, BaseTable(base))) /\ z = "composite"
    BY <1>9 DEF GfW8Init, GfW8ScratchSize, f, z
  <2>2. BaseTable(base) # "NULL"
    BY <1>9 DEF BaseTable
  <2>3. \E mu \in {"composite_recursive", "composite_inline"} : \E r :
          GfW8CompositeInit(m, BaseTable(base)) = Chosen(mu, "NULL", "composite", r, "composite")
    BY <2>2 DEF GfW8CompositeInit
  <2>4. \E mu \in {"composite_recursive", "composite_inline"} : Complete(f, mu, z)
    BY <1>0, <2>1, <2>3, ChosenIsComplete
  <2>5. {"composite_recursive", "composite_inline"} \subseteq W8Names(m, F, P)
    BY <1>9 DEF W8Names
  <2> QED BY <1>b, <2>1, <2>4, <2>5
<1>10. CASE m.mult = "GROUP"
  <2>1. FALSE
    BY <1>10 DEF GfErrorCheck, MethodAllowed, TableFlagsAllowed, GroupAllowed
  <2> QED BY <2>1
<1> QED BY <1>1, <1>2, <1>3, <1>4, <1>5, <1>6, <1>7, <1>8, <1>9, <1>10 DEF Multiplications

\* GF(2^16): the multiplications, and what makes the init functions fail.
W16Names(m, F, primitive) ==
    {"shift", "split_8_8", "BYTWO_p", "BYTWO_b", "group_4_4"}
        \cup (IF GfW16Reductions(F) # 0 THEN {"clm"} ELSE {})
        \cup (IF primitive THEN {"log"} ELSE {})
        \cup (IF m.mult = "LOG_ZERO" THEN {"log_zero"} ELSE {})
        \cup (IF m.mult = "COMPOSITE" THEN {"composite_recursive", "composite_inline"} ELSE {})

W16Fails(m, F, primitive, build) ==
    \/ m.mult = "CARRY_FREE_GK"
    \/ m.mult = "CARRY_FREE" /\ "PCLMUL" \notin build
    \/ m.mult = "LOG_TABLE" /\ ~primitive
    \/ /\ m.mult \in {"DEFAULT", "SPLIT", "TABLE"}
       /\ "PCLMUL" \in build /\ GfW16Reductions(F) = 0 /\ ~primitive

\* A polynomial without terms from x^13 on has a function for CARRY_FREE.
LEMMA CarryFreeHasReductions16 ==
    ASSUME NEW m, m.w = 16, m.mult = "CARRY_FREE", NEW poly, NEW base, NEW build,
           GfErrorCheck(m, poly, base, build)
    PROVE  GfW16Reductions(PolyField(m, poly, base)) \in {2, 3, 4}
<1> DEFINE F == PolyField(m, poly, base)
<1>1. MethodAllowed(m, poly, base, build)
  BY DEF GfErrorCheck, TableFlagsAllowed
<1>2. poly \cap HighTerms(m.w) = {}
  BY <1>1 DEF MethodAllowed
<1>3. HighTerms(16) = 13..15
  BY DEF HighTerms
<1>4. F.poly = IF poly = {} THEN {0, 1, 3, 12} ELSE {i \in poly : i < 16}
  BY DEF PolyField, PolyOf, DefaultPoly, GfW16DefaultPoly, Cut, Zero
<1>5. F.poly \cap (13..15) = {}
  <2>1. {0, 1, 3, 12} \cap (13..15) = {}
    OBVIOUS
  <2>2. {i \in poly : i < 16} \cap (13..15) = {}
    BY <1>2, <1>3
  <2> QED BY <1>4, <2>1, <2>2
<1> HIDE DEF F
<1>6. CASE F.poly \cap (9..15) = {}
  BY <1>6 DEF GfW16Reductions, F
<1>7. CASE F.poly \cap (9..15) # {} /\ F.poly \cap (12..15) = {}
  BY <1>7 DEF GfW16Reductions, F
<1>8. CASE F.poly \cap (9..15) # {} /\ F.poly \cap (12..15) # {}
  <2>1. F.poly \cap (12..15) = {12}
    BY <1>5, <1>8
  <2> QED BY <1>8, <2>1 DEF GfW16Reductions, F
<1> QED BY <1>6, <1>7, <1>8

\* The functions l with another region and other tables, and never failed.
Refilled(l, r, t) == [l EXCEPT !.ok = TRUE, !.region = r, !.tables = t]

Written(l, v, r, t) == [l EXCEPT !.ok = v, !.region = r, !.tables = t]
Functions(ok, mu, d, i, r, t) == [ok |-> ok, multiply |-> mu, divide |-> d, inverse |-> i, region |-> r, tables |-> t]

\* Writing the three fields of a record of functions.
LEMMA WrittenIs ==
    ASSUME NEW ok, NEW mu, NEW d, NEW i, NEW r2, NEW t2, NEW r, NEW t, NEW v
    PROVE  Written(Functions(ok, mu, d, i, r2, t2), v, r, t) = Functions(v, mu, d, i, r, t)
<1> DEFINE l == Functions(ok, mu, d, i, r2, t2)
<1>0. l = [ok |-> ok, multiply |-> mu, divide |-> d, inverse |-> i, region |-> r2, tables |-> t2]
  BY DEF Functions
<1> HIDE DEF l
<1> DEFINE l1 == [l EXCEPT !.ok = v]
           l2 == [l1 EXCEPT !.region = r]
           l3 == [l2 EXCEPT !.tables = t]
<1>1. Written(l, v, r, t) = l3
  BY DEF Written
<1>2. l1 = [ok |-> v, multiply |-> mu, divide |-> d, inverse |-> i, region |-> r2, tables |-> t2]
  BY <1>0
<1> HIDE DEF l1
<1>3. l2 = [ok |-> v, multiply |-> mu, divide |-> d, inverse |-> i, region |-> r, tables |-> t2]
  BY <1>2
<1> HIDE DEF l2
<1>4. l3 = [ok |-> v, multiply |-> mu, divide |-> d, inverse |-> i, region |-> r, tables |-> t]
  BY <1>3
<1>5. Written(l, v, r, t) = Functions(v, mu, d, i, r, t)
  BY <1>1, <1>4 DEF Functions
<1> QED BY <1>5 DEF l

\* The same, of functions that were chosen.
LEMMA RefilledIs ==
    ASSUME NEW ok, NEW mu, NEW d, NEW i, NEW r2, NEW t2, NEW r, NEW t
    PROVE  Refilled([ok |-> ok, multiply |-> mu, divide |-> d, inverse |-> i, region |-> r2, tables |-> t2], r, t)
             = Chosen(mu, d, i, r, t)
<1> DEFINE l == Functions(ok, mu, d, i, r2, t2)
<1>0. PICK v \in BOOLEAN : v = TRUE
  OBVIOUS
<1>1. Written(l, v, r, t) = Functions(v, mu, d, i, r, t)
  BY WrittenIs
<1>2. l = [ok |-> ok, multiply |-> mu, divide |-> d, inverse |-> i, region |-> r2, tables |-> t2]
  BY DEF Functions
<1> HIDE DEF l
<1>3. Refilled(l, r, t) = Written(l, v, r, t)
  BY <1>0 DEF Refilled, Written
<1>4. Functions(v, mu, d, i, r, t) = Chosen(mu, d, i, r, t)
  BY <1>0 DEF Functions, Chosen
<1>5. Refilled(l, r, t) = Chosen(mu, d, i, r, t)
  BY <1>1, <1>3, <1>4
<1> QED BY <1>2, <1>5

\* The functions l are those of the multiplication mu, as gf_w16_log_init ends:
\* with logarithms, or with what needs none if the polynomial is not primitive.
FallsTo(mu, l, F, primitive, build, r, t) ==
    /\ \E d, i : l = Chosen(mu, d, i, r, t)
    /\ mu = "log" => primitive
    /\ mu = "clm" => GfW16Reductions(F) # 0
    /\ mu = "NULL" => ~primitive /\ "PCLMUL" \in build /\ GfW16Reductions(F) = 0

\* What a method that relies on the logarithms falls back to.
LEMMA FallsBack ==
    ASSUME NEW m, m.mult # "LOG_TABLE", NEW F, NEW primitive \in BOOLEAN, NEW build, NEW r, NEW t
    PROVE  \E mu \in {"log", "clm", "shift", "NULL"} :
             FallsTo(mu, Refilled(GfW16LogInit(m, F, primitive, build), r, t), F, primitive, build, r, t)
<1> DEFINE l == GfW16LogInit(m, F, primitive, build)
           e == Refilled(l, r, t)
<1>1. CASE primitive
  <2>1. l = [ok |-> TRUE, multiply |-> "log", divide |-> "log", inverse |-> "log", region |-> "log", tables |-> "log"]
    BY <1>1 DEF GfW16LogInit, Chosen
  <2>2. e = Chosen("log", "log", "log", r, t)
    <3> HIDE DEF l
    <3> QED BY <2>1, RefilledIs
  <2> HIDE DEF l, e
  <2> QED BY <1>1, <2>2 DEF FallsTo, e, l
<1>2. CASE ~primitive /\ "PCLMUL" \in build /\ GfW16Reductions(F) = 0
  <2>1. l = [ok |-> FALSE, multiply |-> "NULL", divide |-> "NULL", inverse |-> "NULL", region |-> "NULL", tables |-> "none"]
    BY <1>2 DEF GfW16LogInit, GfW16CfmInit, Failed
  <2>2. e = Chosen("NULL", "NULL", "NULL", r, t)
    <3> HIDE DEF l
    <3> QED BY <2>1, RefilledIs
  <2> HIDE DEF l, e
  <2> QED BY <1>2, <2>2 DEF FallsTo, e, l
<1>3. CASE ~primitive /\ "PCLMUL" \in build /\ GfW16Reductions(F) # 0
  <2>1. l = [ok |-> TRUE, multiply |-> "clm", divide |-> "NULL", inverse |-> "NULL", region |-> "clm", tables |-> "none"]
    BY <1>3 DEF GfW16LogInit, GfW16CfmInit, Chosen
  <2>2. e = Chosen("clm", "NULL", "NULL", r, t)
    <3> HIDE DEF l
    <3> QED BY <2>1, RefilledIs
  <2> HIDE DEF l, e
  <2> QED BY <1>3, <2>2 DEF FallsTo, e, l
<1>4. CASE ~primitive /\ "PCLMUL" \notin build
  <2>1. l = [ok |-> TRUE, multiply |-> "shift", divide |-> "NULL", inverse |-> "NULL", region |-> "NULL", tables |-> "none"]
    BY <1>4 DEF GfW16LogInit, Chosen
  <2>2. e = Chosen("shift", "NULL", "NULL", r, t)
    <3> HIDE DEF l
    <3> QED BY <2>1, RefilledIs
  <2> HIDE DEF l, e
  <2> QED BY <1>4, <2>2 DEF FallsTo, e, l
<1> QED BY <1>1, <1>2, <1>3, <1>4

\* GF(2^16): which multiplication, and that there is room for its tables.
LEMMA W16Chooses ==
    ASSUME NEW m, m.w = 16, m.mult \in Multiplications, NEW poly, NEW base, NEW build, NEW primitive \in BOOLEAN,
           GfErrorCheck(m, poly, base, build),
           m.mult = "COMPOSITE" => base # NoField
    PROVE  Settled(GfW16Init(m, PolyField(m, poly, base), primitive, BaseTable(base), build),
                   GfW16ScratchSize(m), W16Fails(m, PolyField(m, poly, base), primitive, build),
                   W16Names(m, PolyField(m, poly, base), primitive))
<1> DEFINE F == PolyField(m, poly, base)
           f == GfW16Init(m, F, primitive, BaseTable(base), build)
           z == GfW16ScratchSize(m)
           Fine == Settled(f, z, W16Fails(m, F, primitive, build), W16Names(m, F, primitive))
<1> HIDE DEF F, f, z
<1> SUFFICES Fine
  BY DEF F, f, z
<1>d. W16Fails(m, F, primitive, build) \in BOOLEAN
  BY DEF W16Fails
<1>a. W16Fails(m, F, primitive, build) /\ f = Failed => Fine
  BY <1>d, SettledIs
<1>b. \A mu \in W16Names(m, F, primitive) : z # "0" /\ Complete(f, mu, z) => Fine
  BY <1>d, SettledIs
<1>c. \A mu \in W16Names(m, F, primitive) : z # "0" /\ Complete(f, mu, "none") => Fine
  BY <1>d, SettledIs
<1>e. W16Fails(m, F, primitive, build) /\ Complete(f, "NULL", z) => Fine
  BY DEF Settled, Complete
<1> HIDE DEF Fine
<1>0. m.divide \in Divisions
  BY DEF GfErrorCheck, Divisions
<1>f. ASSUME NEW r, m.mult \in {"DEFAULT", "SPLIT", "TABLE"}, z # "0",
             f = Completed(m, Refilled(GfW16LogInit(m, F, primitive, build), r, z))
      PROVE  Fine
  <2> DEFINE e == Refilled(GfW16LogInit(m, F, primitive, build), r, z)
  <2>0. m.mult # "LOG_TABLE"
    BY <1>f
  <2>a. PICK mu \in {"log", "clm", "shift", "NULL"} : FallsTo(mu, e, F, primitive, build, r, z)
    BY <2>0, FallsBack
  <2> HIDE DEF e
  <2>2. f = Completed(m, e)
    BY <1>f DEF e
  <2>1. /\ \E d, i : e = Chosen(mu, d, i, r, z)
        /\ mu = "log" => primitive
        /\ mu = "clm" => GfW16Reductions(F) # 0
        /\ mu = "NULL" => ~primitive /\ "PCLMUL" \in build /\ GfW16Reductions(F) = 0
    BY <2>a DEF FallsTo
  <2>3. Complete(f, mu, z)
    BY <1>0, <2>1, <2>2, ChosenIsComplete
  <2>4. CASE mu = "NULL"
    <3>1. W16Fails(m, F, primitive, build)
      BY <1>f, <2>1, <2>4 DEF W16Fails
    <3> QED BY <1>e, <2>3, <2>4, <3>1
  <2>5. CASE mu # "NULL"
    <3>1. mu \in W16Names(m, F, primitive)
      BY <2>1, <2>5 DEF W16Names
    <3> QED BY <1>b, <1>f, <2>3, <3>1
  <2> QED BY <2>4, <2>5
<1>1. CASE m.mult = "SHIFT"
  <2>1. f = Completed(m, Chosen("shift", "NULL", "NULL", "NULL", "none")) /\ z = "none"
    BY <1>1 DEF GfW16Init, GfW16ScratchSize, f, z
  <2>2. Complete(f, "shift", "none")
    BY <1>0, <2>1, ChosenIsComplete
  <2> QED BY <1>c, <2>1, <2>2 DEF W16Names
<1>2. CASE m.mult = "CARRY_FREE"
  <2>1. z = "none" /\ f = Completed(m, GfW16CfmInit(F, build))
    BY <1>2 DEF GfW16Init, GfW16ScratchSize, f, z
  <2>2. CASE "PCLMUL" \notin build
    <3>1. f = Failed
      BY <2>1, <2>2, FailedIs DEF GfW16CfmInit
    <3>2. W16Fails(m, F, primitive, build)
      BY <1>2, <2>2 DEF W16Fails
    <3> QED BY <1>a, <3>1, <3>2
  <2>3. CASE "PCLMUL" \in build
    <3>1. GfW16Reductions(F) \in {2, 3, 4}
      BY <1>2, CarryFreeHasReductions16 DEF F
    <3>2. GfW16CfmInit(F, build) = Chosen("clm", "NULL", "NULL", "clm", "none")
      BY <2>3, <3>1 DEF GfW16CfmInit
    <3>3. Complete(f, "clm", "none")
      BY <1>0, <2>1, <3>2, ChosenIsComplete
    <3>4. "clm" \in W16Names(m, F, primitive)
      BY <3>1 DEF W16Names
    <3> QED BY <1>c, <2>1, <3>3, <3>4
  <2> QED BY <2>2, <2>3
<1>3. CASE m.mult = "CARRY_FREE_GK"
  <2>1. f = Completed(m, Failed)
    BY <1>3 DEF GfW16Init, f
  <2>2. f = Failed
    BY <2>1, FailedIs
  <2>3. W16Fails(m, F, primitive, build)
    BY <1>3 DEF W16Fails
  <2> QED BY <1>a, <2>2, <2>3
<1>4. CASE m.mult \in {"BYTWO_p", "BYTWO_b"}
  <2>1. z = "bytwo" /\ f = Completed(m, GfW16BytwoInit(m, build))
    BY <1>4 DEF GfW16Init, GfW16ScratchSize, f, z
  <2>2. ~("SIMD" \in m.region /\ "SSE2" \notin build)
    BY <1>4 DEF GfErrorCheck, MethodAllowed, TableFlagsAllowed
  <2>3. \E r : GfW16BytwoInit(m, build) = Chosen(m.mult, "NULL", "NULL", r, "bytwo")
    BY <2>2 DEF GfW16BytwoInit
  <2>4. Complete(f, m.mult, "bytwo")
    BY <1>0, <2>1, <2>3, ChosenIsComplete
  <2> QED BY <1>4, <1>b, <2>1, <2>4 DEF W16Names
<1>5. CASE m.mult = "LOG_TABLE"
  <2>1. z = "log" /\ f = Completed(m, GfW16LogInit(m, F, primitive, build))
    BY <1>5 DEF GfW16Init, GfW16ScratchSize, f, z
  <2>2. CASE ~primitive
    <3>1. f = Failed
      BY <1>5, <2>1, <2>2, FailedIs DEF GfW16LogInit
    <3>2. W16Fails(m, F, primitive, build)
      BY <1>5, <2>2 DEF W16Fails
    <3> QED BY <1>a, <3>1, <3>2
  <2>3. CASE primitive
    <3>1. f = Completed(m, Chosen("log", "log", "log", "log", "log"))
      BY <2>1, <2>3 DEF GfW16LogInit
    <3>2. Complete(f, "log", "log")
      BY <1>0, <3>1, ChosenIsComplete
    <3>3. "log" \in W16Names(m, F, primitive)
      BY <2>3 DEF W16Names
    <3> QED BY <1>b, <2>1, <3>2, <3>3
  <2> QED BY <2>2, <2>3
<1>6. CASE m.mult = "LOG_ZERO"
  <2>1. z = "log_zero" /\ f = Completed(m, Chosen("log_zero", "log_zero", "log_zero", "log_zero", "log_zero"))
    BY <1>6 DEF GfW16Init, GfW16ScratchSize, GfW16LogZeroInit, f, z
  <2>2. Complete(f, "log_zero", "log_zero")
    BY <1>0, <2>1, ChosenIsComplete
  <2>3. "log_zero" \in W16Names(m, F, primitive)
    BY <1>6 DEF W16Names
  <2> QED BY <1>b, <2>1, <2>2, <2>3
<1>7. CASE m.mult = "TABLE"
  <2>1. z = "table_lazy" /\ f = Completed(m, GfW16TableInit(m, F, primitive, build))
    BY <1>7 DEF GfW16Init, GfW16ScratchSize, f, z
  <2>2. GfW16TableInit(m, F, primitive, build) = Refilled(GfW16LogInit(m, F, primitive, build), "table_lazy", z)
    BY <2>1 DEF GfW16TableInit, Refilled
  <2> QED BY <1>7, <1>f, <2>1, <2>2
<1>8. CASE m.mult \in {"DEFAULT", "SPLIT"}
  <2>1. f = Completed(m, GfW16SplitInit(m, F, primitive, build))
    BY <1>8 DEF GfW16Init, f
  <2>2. z = IF m.arg1 = 8 /\ m.arg2 = 8 THEN "split_8_8"
            ELSE IF m.mult = "DEFAULT" \/ {m.arg1, m.arg2} \in {{8, 16}, {4, 16}} THEN "log"
            ELSE "0"
    BY <1>8 DEF GfW16ScratchSize, z
  <2>3. /\ (m.arg1 = 8 /\ m.arg2 = 8) \/ m.mult = "DEFAULT" \/ {m.arg1, m.arg2} \in {{8, 16}, {4, 16}}
        /\ ~("SIMD" \in m.region /\ {m.arg1, m.arg2} = {4, 16} /\ ~Simd(build))
    <3>1. CASE m.mult = "DEFAULT"
      <4>1. m.region = {}
        BY <3>1 DEF GfErrorCheck
      <4> QED BY <3>1, <4>1
    <3>2. CASE m.mult = "SPLIT"
      <4>1. SplitAllowed(m, build)
        BY <3>2 DEF GfErrorCheck, MethodAllowed, TableFlagsAllowed
      <4>2. \/ {m.arg1, m.arg2} \in {{8}, {8, 16}} /\ NoneOf(m, {"SIMD", "NOSIMD", "ALTMAP"})
            \/ {m.arg1, m.arg2} = {4, 16} /\ ("SIMD" \in m.region => Sse3(build))
        BY <4>1 DEF SplitAllowed
      <4>3. Sse3(build) => Simd(build)
        BY DEF Sse3, Simd
      <4>4. NoneOf(m, {"SIMD", "NOSIMD", "ALTMAP"}) => "SIMD" \notin m.region
        BY DEF NoneOf
      <4>5. {m.arg1, m.arg2} = {8} => m.arg1 = 8 /\ m.arg2 = 8
        OBVIOUS
      <4> QED BY <4>2, <4>3, <4>4, <4>5
    <3> QED BY <1>8, <3>1, <3>2
  <2>4. CASE m.arg1 = 8 /\ m.arg2 = 8
    <3>1. GfW16SplitInit(m, F, primitive, build) = Chosen("split_8_8", "NULL", "NULL", "split_8_16", "split_8_8")
      BY <2>4 DEF GfW16SplitInit
    <3>2. Complete(f, "split_8_8", "split_8_8")
      BY <1>0, <2>1, <3>1, ChosenIsComplete
    <3>3. z = "split_8_8"
      BY <2>2, <2>4
    <3> QED BY <1>b, <3>2, <3>3 DEF W16Names
  <2>5. CASE ~(m.arg1 = 8 /\ m.arg2 = 8)
    <3>1. z = "log"
      BY <2>2, <2>3, <2>5
    <3>2. \E r : GfW16SplitInit(m, F, primitive, build)
                   = Refilled(GfW16LogInit(m, F, primitive, build), r, "log")
      BY <2>3, <2>5 DEF GfW16SplitInit, Refilled
    <3>3. PICK r : f = Completed(m, Refilled(GfW16LogInit(m, F, primitive, build), r, z))
      BY <2>1, <3>1, <3>2
    <3>4. m.mult \in {"DEFAULT", "SPLIT", "TABLE"} /\ z # "0"
      BY <1>8, <3>1
    <3> QED BY <1>f, <3>3, <3>4
  <2> QED BY <2>4, <2>5
<1>9. CASE m.mult = "COMPOSITE"
  <2>1. f = Completed(m, GfW16CompositeInit(m, BaseTable(base))) /\ z = "composite"
    BY <1>9 DEF GfW16Init, GfW16ScratchSize, f, z
  <2>2. BaseTable(base) # "NULL"
    BY <1>9 DEF BaseTable
  <2>3. \E mu \in {"composite_recursive", "composite_inline"} : \E r :
          GfW16CompositeInit(m, BaseTable(base)) = Chosen(mu, "NULL", "composite", r, "composite")
    BY <2>2 DEF GfW16CompositeInit
  <2>4. \E mu \in {"composite_recursive", "composite_inline"} : Complete(f, mu, z)
    BY <1>0, <2>1, <2>3, ChosenIsComplete
  <2>5. {"composite_recursive", "composite_inline"} \subseteq W16Names(m, F, primitive)
    BY <1>9 DEF W16Names
  <2> QED BY <1>b, <2>1, <2>4, <2>5
<1>10. CASE m.mult = "GROUP"
  <2>1. z = "group" /\ f = Completed(m, Chosen("group_4_4", "NULL", "NULL", "group_4_4", "group"))
    BY <1>10 DEF GfW16Init, GfW16ScratchSize, f, z
  <2>2. Complete(f, "group_4_4", "group")
    BY <1>0, <2>1, ChosenIsComplete
  <2> QED BY <1>b, <2>1, <2>2 DEF W16Names
<1>11. CASE m.mult = "LOG_ZERO_EXT"
  <2>1. FALSE
    BY <1>11 DEF GfErrorCheck, MethodAllowed, TableFlagsAllowed
  <2> QED BY <2>1
<1> QED BY <1>1, <1>2, <1>3, <1>4, <1>5, <1>6, <1>7, <1>8, <1>9, <1>10, <1>11 DEF Multiplications

\* The other widths: the multiplications, and what makes the init functions fail.
WgenNames(m, primitive) ==
    {"shift", "BYTWO_p", "BYTWO_b", "table"}
        \cup (IF primitive THEN {"log"} ELSE {})
        \cup (IF m.mult = "GROUP"
              THEN {IF m.arg1 = m.arg2 THEN "group_s_equals_r" ELSE "group"} ELSE {})

WgenFails(m, primitive) ==
    ~primitive /\ (m.mult = "LOG_TABLE" \/ (m.mult = "DEFAULT" /\ m.w \in 9..15))

\* The other widths: which multiplication, and that there is room for its tables.
LEMMA WgenChooses ==
    ASSUME NEW m, m.w \in 1..31, m.w \notin {4, 8, 16}, m.mult \in Multiplications,
           NEW poly, NEW base, NEW build, NEW primitive \in BOOLEAN,
           GfErrorCheck(m, poly, base, build)
    PROVE  /\ Settled(GfWgenInit(m, primitive), GfWgenScratchSize(m), WgenFails(m, primitive), WgenNames(m, primitive))
           /\ m.mult # "COMPOSITE"
<1> DEFINE f == GfWgenInit(m, primitive)
           z == GfWgenScratchSize(m)
           Fine == Settled(f, z, WgenFails(m, primitive), WgenNames(m, primitive))
<1> HIDE DEF f, z
<1>d. WgenFails(m, primitive) \in BOOLEAN
  BY DEF WgenFails
<1>a. WgenFails(m, primitive) /\ f = Failed => Fine
  BY <1>d, SettledIs
<1>b. \A mu \in WgenNames(m, primitive) : z # "0" /\ Complete(f, mu, z) => Fine
  BY <1>d, SettledIs
<1>c. \A mu \in WgenNames(m, primitive) : z # "0" /\ Complete(f, mu, "none") => Fine
  BY <1>d, SettledIs
<1> HIDE DEF Fine
<1>0. m.divide \in Divisions
  BY DEF GfErrorCheck, Divisions
<1>g. ASSUME z = "log", f = Completed(m, GfWgenLogChoice(primitive)),
             m.mult = "LOG_TABLE" \/ (m.mult = "DEFAULT" /\ m.w \in 9..15)
      PROVE  Fine
  <2>1. CASE primitive
    <3>1. f = Completed(m, Chosen("log", "log", "NULL", "cauchy", "log"))
      BY <1>g, <2>1 DEF GfWgenLogChoice
    <3>2. Complete(f, "log", "log")
      BY <1>0, <3>1, ChosenIsComplete
    <3>3. "log" \in WgenNames(m, primitive)
      BY <2>1 DEF WgenNames
    <3> QED BY <1>b, <1>g, <3>2, <3>3
  <2>2. CASE ~primitive
    <3>1. f = Failed
      BY <1>g, <2>2, FailedIs DEF GfWgenLogChoice
    <3>2. WgenFails(m, primitive)
      BY <1>g, <2>2 DEF WgenFails
    <3> QED BY <1>a, <3>1, <3>2
  <2> QED BY <2>1, <2>2
<1>h. ASSUME NEW mu \in {"shift", "BYTWO_p", "BYTWO_b", "table"}, NEW d, NEW r, NEW t,
             t = z \/ t = "none", z # "0", f = Completed(m, Chosen(mu, d, "NULL", r, t))
      PROVE  Fine
  <2>1. Complete(f, mu, t)
    BY <1>0, <1>h, ChosenIsComplete
  <2>2. mu \in WgenNames(m, primitive)
    BY DEF WgenNames
  <2> QED BY <1>b, <1>c, <1>h, <2>1, <2>2
<1>1. CASE m.mult = "SHIFT"
  <2>1. f = Completed(m, Chosen("shift", "NULL", "NULL", "cauchy", "none")) /\ z = "none"
    BY <1>1 DEF GfWgenInit, GfWgenScratchSize, f, z
  <2> QED BY <1>1, <1>h, <2>1 DEF Fine, f, z
<1>2. CASE m.mult \in {"BYTWO_b", "BYTWO_p"}
  <2>1. f = Completed(m, Chosen(m.mult, "NULL", "NULL", "cauchy", "none")) /\ z = "none"
    BY <1>2 DEF GfWgenInit, GfWgenScratchSize, f, z
  <2>2. m.mult \in {"shift", "BYTWO_p", "BYTWO_b", "table"}
    BY <1>2
  <2>3. Fine
    BY <1>h, <2>1, <2>2
  <2> QED BY <1>2, <2>3 DEF Fine, f, z
<1>3. CASE m.mult = "TABLE"
  <2>1. MethodAllowed(m, poly, base, build)
    BY <1>3 DEF GfErrorCheck, TableFlagsAllowed, NoneOf
  <2>2. m.w < 15
    BY <1>3, <2>1 DEF MethodAllowed
  <2>3. f = Completed(m, GfWgenTableChoice) /\ z = "table"
    BY <1>3, <2>2 DEF GfWgenInit, GfWgenScratchSize, f, z
  <2>4. Fine
    BY <1>h, <2>3 DEF GfWgenTableChoice
  <2> QED BY <1>3, <2>4 DEF Fine, f, z
<1>4. CASE m.mult = "LOG_TABLE"
  <2>1. MethodAllowed(m, poly, base, build)
    BY <1>4 DEF GfErrorCheck, TableFlagsAllowed
  <2>2. m.w <= 27
    BY <1>4, <2>1 DEF MethodAllowed
  <2>3. f = Completed(m, GfWgenLogChoice(primitive)) /\ z = "log"
    BY <1>4, <2>2 DEF GfWgenInit, GfWgenScratchSize, f, z
  <2> QED BY <1>4, <1>g, <2>3 DEF Fine, f, z
<1>5. CASE m.mult = "GROUP"
  <2> DEFINE mu == IF m.arg1 = m.arg2 THEN "group_s_equals_r" ELSE "group"
  <2>1. f = Completed(m, Chosen(mu, "NULL", "NULL", "cauchy", "group")) /\ z = "group"
    BY <1>5 DEF GfWgenInit, GfWgenScratchSize, f, z
  <2>2. mu \in WgenNames(m, primitive)
    BY <1>5 DEF WgenNames
  <2> HIDE DEF mu
  <2>3. Complete(f, mu, z)
    BY <1>0, <2>1, ChosenIsComplete
  <2>4. Fine
    BY <1>b, <2>1, <2>2, <2>3
  <2> QED BY <1>5, <2>4 DEF Fine, f, z
<1>6. CASE m.mult = "DEFAULT"
  <2>1. CASE m.w <= 8
    <3>1. f = Completed(m, GfWgenTableChoice) /\ z = "table"
      BY <1>6, <2>1 DEF GfWgenInit, GfWgenScratchSize, f, z
    <3>2. Fine
      BY <1>h, <3>1 DEF GfWgenTableChoice
    <3> QED BY <1>6, <3>2 DEF Fine, f, z
  <2>2. CASE m.w > 8 /\ m.w <= 16
    <3>1. f = Completed(m, GfWgenLogChoice(primitive)) /\ z = "log"
      BY <1>6, <2>2 DEF GfWgenInit, GfWgenScratchSize, f, z
    <3>2. m.w \in 9..15
      BY <2>2
    <3>3. Fine
      BY <1>6, <1>g, <3>1, <3>2
    <3> QED BY <1>6, <3>3 DEF Fine, f, z
  <2>3. CASE m.w > 16
    <3>1. f = Completed(m, Chosen("BYTWO_p", "NULL", "NULL", "cauchy", "none")) /\ z = "group"
      BY <1>6, <2>3 DEF GfWgenInit, GfWgenScratchSize, f, z
    <3>2. Fine
      BY <1>h, <3>1
    <3> QED BY <1>6, <3>2 DEF Fine, f, z
  <2> QED BY <2>1, <2>2, <2>3
<1>7. CASE m.mult \in {"CARRY_FREE", "CARRY_FREE_GK", "LOG_ZERO", "LOG_ZERO_EXT", "SPLIT", "COMPOSITE"}
  <2>1. MethodAllowed(m, poly, base, build)
    BY <1>7 DEF GfErrorCheck, TableFlagsAllowed
  <2>2. CASE m.mult \in {"CARRY_FREE", "CARRY_FREE_GK"}
    <3>1. CarryFreeAllowed(m, build)
      BY <2>1, <2>2 DEF MethodAllowed
    <3> QED BY <3>1 DEF CarryFreeAllowed
  <2>3. CASE m.mult = "LOG_ZERO"
    BY <2>1, <2>3 DEF MethodAllowed
  <2>4. CASE m.mult = "LOG_ZERO_EXT"
    BY <2>1, <2>4 DEF MethodAllowed
  <2>5. CASE m.mult = "SPLIT"
    <3>1. SplitAllowed(m, build)
      BY <2>1, <2>5 DEF MethodAllowed
    <3> QED BY <3>1 DEF SplitAllowed
  <2>6. CASE m.mult = "COMPOSITE"
    <3>1. CompositeAllowed(m, poly, base)
      BY <2>1, <2>6 DEF MethodAllowed
    <3> QED BY <3>1 DEF CompositeAllowed
  <2> QED BY <1>7, <2>2, <2>3, <2>4, <2>5, <2>6
<1> QED BY <1>1, <1>2, <1>3, <1>4, <1>5, <1>6, <1>7 DEF Multiplications

\* gf_scratch_size asks gf_error_check without the polynomial and the base.
LEMMA CheckedAlone ==
    ASSUME NEW m, m.mult \in Multiplications, NEW poly, NEW base, NEW build, GfErrorCheck(m, poly, base, build)
    PROVE  GfErrorCheck(m, Zero, NoField, build)
<1>1. \A n : Shr(Zero, n) = Zero
  BY DEF Shr, Zero
<1>2. CASE m.mult = "DEFAULT"
  BY <1>1, <1>2 DEF GfErrorCheck
<1>3. CASE m.mult # "DEFAULT" /\ ~NoneOf(m, {"DOUBLE", "QUAD"})
  BY <1>1, <1>3 DEF GfErrorCheck
<1>4. CASE m.mult # "DEFAULT" /\ NoneOf(m, {"DOUBLE", "QUAD"})
  <2>1. MethodAllowed(m, poly, base, build)
    BY <1>4 DEF GfErrorCheck
  <2>2. MethodAllowed(m, Zero, NoField, build)
    <3>1. CASE m.mult = "CARRY_FREE"
      BY <2>1, <3>1 DEF MethodAllowed, Zero
    <3>2. CASE m.mult = "COMPOSITE"
      <4>1. CompositeAllowed(m, poly, base)
        BY <2>1, <3>2 DEF MethodAllowed
      <4>2. CompositeAllowed(m, Zero, NoField)
        BY <1>1, <4>1 DEF CompositeAllowed
      <4> QED BY <3>2, <4>2 DEF MethodAllowed
    <3>3. CASE m.mult \notin {"CARRY_FREE", "COMPOSITE"}
      <4>1. CASE m.mult = "SHIFT"
        BY <2>1, <4>1 DEF MethodAllowed
      <4>2. CASE m.mult = "CARRY_FREE_GK"
        BY <2>1, <4>2 DEF MethodAllowed
      <4>3. CASE m.mult = "GROUP"
        BY <2>1, <4>3 DEF MethodAllowed
      <4>4. CASE m.mult = "BYTWO_p"
        BY <2>1, <4>4 DEF MethodAllowed
      <4>5. CASE m.mult = "BYTWO_b"
        BY <2>1, <4>5 DEF MethodAllowed
      <4>6. CASE m.mult = "TABLE"
        BY <2>1, <4>6 DEF MethodAllowed
      <4>7. CASE m.mult = "LOG_TABLE"
        BY <2>1, <4>7 DEF MethodAllowed
      <4>8. CASE m.mult = "LOG_ZERO"
        BY <2>1, <4>8 DEF MethodAllowed
      <4>9. CASE m.mult = "LOG_ZERO_EXT"
        BY <2>1, <4>9 DEF MethodAllowed
      <4>10. CASE m.mult = "SPLIT"
        BY <2>1, <4>10 DEF MethodAllowed
      <4> QED BY <1>4, <3>3, <4>1, <4>2, <4>3, <4>4, <4>5, <4>6, <4>7, <4>8, <4>9, <4>10 DEF Multiplications
    <3> QED BY <3>1, <3>2, <3>3
  <2> QED BY <1>1, <1>4, <2>1, <2>2 DEF GfErrorCheck
<1> QED BY <1>2, <1>3, <1>4

-----------------------------------------------------------------------------
(* The fields a program makes. *)

\* The polynomial a field is made with has no term from x^w on.
LEMMA DefaultsWithin ==
    ASSUME NEW w \in 1..31
    PROVE  w \notin {4, 8, 16} => GfWgenDefaultPoly(w) \subseteq 0..(w - 1)
<1>1. CASE w \in {2, 3, 4, 6, 15, 22}
  <2>1. GfWgenDefaultPoly(w) = {0, 1}
    BY <1>1 DEF GfWgenDefaultPoly
  <2> QED BY <1>1, <2>1
<1>2. CASE w \in {5, 11, 21, 29}
  <2>1. GfWgenDefaultPoly(w) = {0, 2}
    BY <1>2 DEF GfWgenDefaultPoly
  <2> QED BY <1>2, <2>1
<1>3. CASE w \in {7, 10, 17, 20, 25, 28, 31}
  <2>1. GfWgenDefaultPoly(w) = {0, 3}
    BY <1>3 DEF GfWgenDefaultPoly
  <2> QED BY <1>3, <2>1
<1>4. CASE w \in {1, 9, 18, 23}
  <2>1. w = 1 => GfWgenDefaultPoly(w) = {0}
    BY DEF GfWgenDefaultPoly
  <2>2. w = 9 => GfWgenDefaultPoly(w) = {0, 4}
    BY DEF GfWgenDefaultPoly
  <2>3. w = 18 => GfWgenDefaultPoly(w) = {0, 7}
    BY DEF GfWgenDefaultPoly
  <2>4. w = 23 => GfWgenDefaultPoly(w) = {0, 5}
    BY DEF GfWgenDefaultPoly
  <2> QED BY <1>4, <2>1, <2>2, <2>3, <2>4
<1>5. CASE w \in {12, 13, 14, 30}
  <2>1. w = 12 => GfWgenDefaultPoly(w) = {0, 1, 4, 6}
    BY DEF GfWgenDefaultPoly
  <2>2. w = 13 => GfWgenDefaultPoly(w) = {0, 1, 3, 4}
    BY DEF GfWgenDefaultPoly
  <2>3. w = 14 => GfWgenDefaultPoly(w) = {0, 1, 6, 10}
    BY DEF GfWgenDefaultPoly
  <2>4. w = 30 => GfWgenDefaultPoly(w) = {0, 1, 2, 23}
    BY DEF GfWgenDefaultPoly
  <2> QED BY <1>5, <2>1, <2>2, <2>3, <2>4
<1>6. CASE w \in {19, 27, 24, 26}
  <2>1. w \in {19, 27} => GfWgenDefaultPoly(w) = {0, 1, 2, 5}
    BY DEF GfWgenDefaultPoly
  <2>2. w = 24 => GfWgenDefaultPoly(w) = {0, 1, 2, 7}
    BY DEF GfWgenDefaultPoly
  <2>3. w = 26 => GfWgenDefaultPoly(w) = {0, 1, 2, 6}
    BY DEF GfWgenDefaultPoly
  <2> QED BY <1>6, <2>1, <2>2, <2>3
<1>7. w \in {4, 8, 16} \cup {2, 3, 4, 6, 15, 22} \cup {5, 11, 21, 29} \cup {7, 10, 17, 20, 25, 28, 31}
            \cup {1, 9, 18, 23} \cup {12, 13, 14, 30} \cup {19, 27, 24, 26}
  OBVIOUS
<1> QED BY <1>1, <1>2, <1>3, <1>4, <1>5, <1>6, <1>7

\* The polynomial of a COMPOSITE field over a base of half its width.
LEMMA CompositeWithin ==
    ASSUME NEW g, g.w \in {4, 8}
    PROVE  GfCompositeGetDefaultPoly(g) \subseteq 0..(g.w - 1)
<1> DEFINE below == DefaultOver(g.base, DefaultOver(g.base.base, DefaultOver(g.base.base.base,
                        DefaultOver(g.base.base.base.base, <<>>))))
<1>1. GfCompositeGetDefaultPoly(g) = DefaultOver(g, below)
  BY DEF GfCompositeGetDefaultPoly, Over
<1> HIDE DEF below
<1>2. OverPlain(g) \subseteq 0..(g.w - 1)
  <2>1. CASE g.w = 4
    <3>1. OverPlain(g) \in {{1}, Zero}
      BY <2>1 DEF OverPlain
    <3> QED BY <2>1, <3>1 DEF Zero
  <2>2. CASE g.w = 8
    <3>1. OverPlain(g) \in {{0, 1}, Zero}
      BY <2>2 DEF OverPlain
    <3> QED BY <2>2, <3>1 DEF Zero
  <2> QED BY <2>1, <2>2
<1>3. OverComposite(g.w, g.poly) = Zero
  BY DEF OverComposite
<1> QED BY <1>1, <1>2, <1>3 DEF DefaultOver, Zero

\* And so of the polynomial of any field.
LEMMA PolyWithin ==
    ASSUME NEW m, m.w \in 1..31, m.mult \in Multiplications, NEW poly \in Bits, NEW base, NEW build,
           GfErrorCheck(m, poly, base, build), m.mult = "COMPOSITE" => base # NoField
    PROVE  PolyField(m, poly, base).w = m.w /\ PolyField(m, poly, base).poly \subseteq 0..(m.w - 1)
<1>1. PolyField(m, poly, base) = [w |-> m.w, poly |-> PolyOf(m, poly, base)]
  BY DEF PolyField
<1>2. m.mult # "COMPOSITE" => DefaultPoly(m, base) \subseteq 0..(m.w - 1)
  <2> SUFFICES ASSUME m.mult # "COMPOSITE" PROVE DefaultPoly(m, base) \subseteq 0..(m.w - 1)
    OBVIOUS
  <2>1. CASE m.w = 4
    BY <2>1 DEF DefaultPoly, GfW4DefaultPoly
  <2>2. CASE m.w = 8
    BY <2>2 DEF DefaultPoly, GfW8DefaultPoly
  <2>3. CASE m.w = 16
    BY <2>3 DEF DefaultPoly, GfW16DefaultPoly
  <2>4. CASE m.w \notin {4, 8, 16}
    <3>1. DefaultPoly(m, base) = GfWgenDefaultPoly(m.w)
      BY <2>4 DEF DefaultPoly
    <3> QED BY <2>4, <3>1, DefaultsWithin
  <2> QED BY <2>1, <2>2, <2>3, <2>4
<1>3. Cut(poly, m.w) \subseteq 0..(m.w - 1)
  <2>1. \A i \in Cut(poly, m.w) : i \in Nat /\ i < m.w
    BY DEF Cut, Bits
  <2>2. m.w \in Nat
    OBVIOUS
  <2> QED BY <2>1, <2>2
<1>4. ASSUME m.mult = "COMPOSITE"
      PROVE  /\ m.w \in {8, 16} /\ base.w = m.w \div 2
             /\ DefaultPoly(m, base) \subseteq 0..(m.w - 1) /\ poly \subseteq 0..(m.w - 1)
  <2>1. MethodAllowed(m, poly, base, build)
    BY <1>4 DEF GfErrorCheck, TableFlagsAllowed
  <2>2. CompositeAllowed(m, poly, base)
    BY <1>4, <2>1 DEF MethodAllowed
  <2>3. m.w \in {8, 16} /\ base.w = m.w \div 2 /\ Shr(poly, m.w \div 2) = Zero
    BY <1>4, <2>2 DEF CompositeAllowed
  <2>4. base.w \in {4, 8} /\ base.w < m.w
    BY <2>3
  <2>5. DefaultPoly(m, base) = GfCompositeGetDefaultPoly(base)
    BY <1>4 DEF DefaultPoly
  <2>6. DefaultPoly(m, base) \subseteq 0..(base.w - 1)
    BY <2>4, <2>5, CompositeWithin
  <2>7. \A i \in poly : i \in Nat /\ ~(i >= m.w \div 2)
    BY <2>3 DEF Shr, Zero, Bits
  <2>8. poly \subseteq 0..(m.w - 1)
    BY <2>3, <2>7
  <2> QED BY <2>3, <2>4, <2>6, <2>8
<1>5. PolyOf(m, poly, base) \subseteq 0..(m.w - 1)
  BY <1>2, <1>3, <1>4 DEF PolyOf
<1> QED BY <1>1, <1>5

\* The fields that are made without a base are those with tables.
LEMMA MadeIsKnown ==
    ASSUME NEW m, m.w \in 1..31, m.mult # "COMPOSITE", NEW P \in Polys, P.w = m.w
    PROVE  PolyField(m, P.poly, NoField) \in KnownFields
<1> DEFINE F == PolyField(m, P.poly, NoField)
<1>1. F = [w |-> m.w, poly |-> PolyOf(m, P.poly, NoField)]
  BY DEF PolyField
<1>2. CASE P.poly = Zero
  <2>1. F = [w |-> m.w, poly |-> DefaultPoly(m, NoField)]
    BY <1>1, <1>2 DEF PolyOf
  <2>2. F \in DefaultPolys
    <3>1. CASE m.w = 4
      BY <2>1, <3>1 DEF DefaultPolys, DefaultPoly
    <3>2. CASE m.w = 8
      BY <2>1, <3>2 DEF DefaultPolys, DefaultPoly
    <3>3. CASE m.w = 16
      BY <2>1, <3>3 DEF DefaultPolys, DefaultPoly
    <3>4. CASE m.w \notin {4, 8, 16}
      <4>1. F = [w |-> m.w, poly |-> GfWgenDefaultPoly(m.w)]
        BY <2>1, <3>4 DEF DefaultPoly
      <4>2. m.w \in (1..31) \ {4, 8, 16}
        BY <3>4
      <4> HIDE DEF F
      <4> QED BY <4>1, <4>2 DEF DefaultPolys
    <3> QED BY <3>1, <3>2, <3>3, <3>4
  <2>3. F.w = P.w
    BY <1>1
  <2> QED BY <2>2, <2>3 DEF KnownFields
<1>3. CASE P.poly # Zero
  <2>1. F = [w |-> P.w, poly |-> Cut(P.poly, P.w)]
    BY <1>1, <1>3 DEF PolyOf
  <2> HIDE DEF F
  <2>2. F \in KnownFields
    BY <1>3, <2>1 DEF KnownFields
  <2> QED BY <2>2 DEF F
<1> QED BY <1>2, <1>3

\* Of every width: what makes the init functions fail, and their multiplications.
MethodFails(m, F, P, primitive, build) ==
    CASE m.w = 4  -> W4Fails(m, P)
      [] m.w = 8  -> W8Fails(m, P)
      [] m.w = 16 -> W16Fails(m, F, primitive, build)
      [] OTHER    -> WgenFails(m, primitive)

Names(m, F, P, primitive) ==
    CASE m.w = 4  -> W4Names(m, P)
      [] m.w = 8  -> W8Names(m, F, P)
      [] m.w = 16 -> W16Names(m, F, primitive)
      [] OTHER    -> WgenNames(m, primitive)

\* Every width: what gf_error_check lets through is settled.
LEMMA Chooses ==
    ASSUME NEW m, m.w \in 1..31, m.mult \in Multiplications, NEW poly, NEW base, NEW build, NEW P,
           NEW primitive \in BOOLEAN, GfErrorCheck(m, poly, base, build),
           m.mult = "COMPOSITE" => base # NoField
    PROVE  Settled(WidthInit(m, PolyField(m, poly, base), base, build, P, primitive), GfScratchSize(m, build),
                   MethodFails(m, PolyField(m, poly, base), P, primitive, build),
                   Names(m, PolyField(m, poly, base), P, primitive))
<1> DEFINE F == PolyField(m, poly, base)
           f == WidthInit(m, F, base, build, P, primitive)
           z == GfScratchSize(m, build)
<1> HIDE DEF F
<1>0. GfErrorCheck(m, Zero, NoField, build)
  BY CheckedAlone
<1>1. CASE m.w = 4
  <2>1. f = GfW4Init(m, P, build) /\ z = GfW4ScratchSize(m, build)
    BY <1>0, <1>1 DEF WidthInit, GfScratchSize
  <2>2. MethodFails(m, F, P, primitive, build) = W4Fails(m, P) /\ Names(m, F, P, primitive) = W4Names(m, P)
    BY <1>1 DEF MethodFails, Names
  <2>3. Settled(GfW4Init(m, P, build), GfW4ScratchSize(m, build), W4Fails(m, P), W4Names(m, P))
    BY <1>1, W4Chooses
  <2> HIDE DEF f, z
  <2>4. Settled(f, z, MethodFails(m, F, P, primitive, build), Names(m, F, P, primitive))
    BY <2>1, <2>2, <2>3 DEF Settled
  <2> QED BY <2>4 DEF f, z, F
<1>2. CASE m.w = 8
  <2>1. f = GfW8Init(m, F, P, BaseTable(base), build) /\ z = GfW8ScratchSize(m, build)
    BY <1>0, <1>2 DEF WidthInit, GfScratchSize
  <2>2. MethodFails(m, F, P, primitive, build) = W8Fails(m, P) /\ Names(m, F, P, primitive) = W8Names(m, F, P)
    BY <1>2 DEF MethodFails, Names
  <2>3. Settled(GfW8Init(m, F, P, BaseTable(base), build), GfW8ScratchSize(m, build), W8Fails(m, P), W8Names(m, F, P))
    BY <1>2, W8Chooses DEF F
  <2> HIDE DEF f, z
  <2>4. Settled(f, z, MethodFails(m, F, P, primitive, build), Names(m, F, P, primitive))
    BY <2>1, <2>2, <2>3 DEF Settled
  <2> QED BY <2>4 DEF f, z, F
<1>3. CASE m.w = 16
  <2>1. f = GfW16Init(m, F, primitive, BaseTable(base), build) /\ z = GfW16ScratchSize(m)
    BY <1>0, <1>3 DEF WidthInit, GfScratchSize
  <2>2. /\ MethodFails(m, F, P, primitive, build) = W16Fails(m, F, primitive, build)
        /\ Names(m, F, P, primitive) = W16Names(m, F, primitive)
    BY <1>3 DEF MethodFails, Names
  <2>3. Settled(GfW16Init(m, F, primitive, BaseTable(base), build), GfW16ScratchSize(m),
                W16Fails(m, F, primitive, build), W16Names(m, F, primitive))
    BY <1>3, W16Chooses DEF F
  <2> HIDE DEF f, z
  <2>4. Settled(f, z, MethodFails(m, F, P, primitive, build), Names(m, F, P, primitive))
    BY <2>1, <2>2, <2>3 DEF Settled
  <2> QED BY <2>4 DEF f, z, F
<1>4. CASE m.w \notin {4, 8, 16}
  <2>1. f = GfWgenInit(m, primitive) /\ z = GfWgenScratchSize(m)
    BY <1>0, <1>4 DEF WidthInit, GfScratchSize
  <2>2. MethodFails(m, F, P, primitive, build) = WgenFails(m, primitive) /\ Names(m, F, P, primitive) = WgenNames(m, primitive)
    BY <1>4 DEF MethodFails, Names
  <2>3. Settled(GfWgenInit(m, primitive), GfWgenScratchSize(m), WgenFails(m, primitive), WgenNames(m, primitive))
    BY <1>4, WgenChooses
  <2> HIDE DEF f, z
  <2>4. Settled(f, z, MethodFails(m, F, P, primitive, build), Names(m, F, P, primitive))
    BY <2>1, <2>2, <2>3 DEF Settled
  <2> QED BY <2>4 DEF f, z, F
<1> QED BY <1>1, <1>2, <1>3, <1>4

\* The tables of a known field are those of its polynomial.
LEMMA KnownArePlain ==
    ASSUME NEW F \in KnownFields, IsGF(F), F.w <= 31
    PROVE  /\ Primitive(F) = XHasFullOrder(F)
           /\ F.w \in {4, 8} => PowersOf(F) = Powers(F)
<1>1. Primitive(F) = XHasFullOrder(F)
  BY DEF Primitive, IsPrimitive
<1>2. F.w \in {4, 8} => PowersOf(F) = Powers(F)
  BY DEF PowersOf, PowersTable
<1> QED BY <1>1, <1>2

\* When an init function fails, that is what the caller asked for.
LEMMA OnlyMayFail ==
    ASSUME NEW m, m.w \in 1..31, m.mult \in Multiplications, m.mult # "COMPOSITE", NEW poly, NEW build,
           PolyField(m, poly, NoField) \in KnownFields, IsGF(PolyField(m, poly, NoField)),
           PolyField(m, poly, NoField).w = m.w,
           MethodFails(m, PolyField(m, poly, NoField), PowersOf(PolyField(m, poly, NoField)),
                     XHasFullOrder(PolyField(m, poly, NoField)), build)
    PROVE  MayFail([build |-> build, m |-> m, poly |-> poly])
<1> DEFINE F == PolyField(m, poly, NoField)
           call == [build |-> build, m |-> m, poly |-> poly]
           May == \/ m.mult = "CARRY_FREE_GK" /\ m.w <= 16
                  \/ m.mult = "CARRY_FREE" /\ m.w = 16 /\ "PCLMUL" \notin build
                  \/ ~Primitive(F) /\ LogsOnly(m)
                  \/ /\ m.mult \in {"DEFAULT", "SPLIT", "TABLE"} /\ m.w = 16
                     /\ "PCLMUL" \in build /\ GfW16Reductions(F) = 0 /\ ~Primitive(F)
<1>1. May => MayFail(call)
  BY DEF MayFail, PolyField
<1>2. Primitive(F) = XHasFullOrder(F) /\ (m.w \in {4, 8} => PowersOf(F) = Powers(F))
  BY KnownArePlain
<1>3. XHasFullOrder(F) => ~MetAgain(Powers(F))
  BY FullOrderIsCycle, CycleIsNotMet
<1>4. MethodFails(m, F, PowersOf(F), XHasFullOrder(F), build)
  OBVIOUS
<1> HIDE DEF F, call
<1>5. CASE m.w = 4
  <2>1. W4Fails(m, Powers(F))
    BY <1>2, <1>4, <1>5 DEF MethodFails
  <2>2. m.mult = "CARRY_FREE_GK" \/ (m.mult = "LOG_TABLE" /\ ~Primitive(F))
    BY <1>2, <1>3, <2>1 DEF W4Fails
  <2> QED BY <1>1, <1>5, <2>2 DEF LogsOnly, call
<1>6. CASE m.w = 8
  <2>1. W8Fails(m, Powers(F))
    BY <1>2, <1>4, <1>6 DEF MethodFails
  <2>2. m.mult = "CARRY_FREE_GK" \/ (m.mult \in {"LOG_TABLE", "LOG_ZERO", "LOG_ZERO_EXT"} /\ ~Primitive(F))
    BY <1>2, <1>3, <2>1 DEF W8Fails
  <2> QED BY <1>1, <1>6, <2>2 DEF LogsOnly, call
<1>7. CASE m.w = 16
  <2>1. W16Fails(m, F, Primitive(F), build)
    BY <1>2, <1>4, <1>7 DEF MethodFails
  <2> QED BY <1>1, <1>7, <2>1 DEF W16Fails, LogsOnly, call
<1>8. CASE m.w \notin {4, 8, 16}
  <2>1. WgenFails(m, Primitive(F))
    BY <1>2, <1>4, <1>8 DEF MethodFails
  <2> QED BY <1>1, <1>8, <2>1 DEF WgenFails, LogsOnly, call
<1> QED BY <1>5, <1>6, <1>7, <1>8

\* A COMPOSITE field is always settled: neither powers nor primitivity matter.
LEMMA CompositeChooses ==
    ASSUME NEW m, m.w \in {8, 16}, m.mult = "COMPOSITE", NEW F, NEW base, NEW build, NEW P,
           NEW primitive, NEW other \in BOOLEAN
    PROVE  /\ WidthInit(m, F, base, build, P, primitive) = WidthInit(m, F, base, build, P, other)
           /\ ~MethodFails(m, F, P, other, build)
<1>1. CASE m.w = 8
  BY <1>1 DEF WidthInit, MethodFails, W8Fails
<1>2. CASE m.w = 16
  <2>1. \A p : GfW16Init(m, F, p, BaseTable(base), build) = Completed(m, GfW16CompositeInit(m, BaseTable(base)))
    BY DEF GfW16Init
  <2>2. \A p : WidthInit(m, F, base, build, P, p) = GfW16Init(m, F, p, BaseTable(base), build)
    BY <1>2 DEF WidthInit
  <2>3. ~MethodFails(m, F, P, other, build)
    <3>1. MethodFails(m, F, P, other, build) = W16Fails(m, F, other, build)
      BY <1>2 DEF MethodFails
    <3>2. ~W16Fails(m, F, other, build)
      BY DEF W16Fails
    <3> QED BY <3>1, <3>2
  <2> QED BY <2>1, <2>2, <2>3
<1> QED BY <1>1, <1>2

\* The field of a word is one whose powers and products are known.
FieldKnown(g) ==
    /\ g.w \in 1..31
    /\ g.poly \subseteq 0..(g.w - 1)
    /\ g.f.ok \in BOOLEAN
    /\ g.mult # "COMPOSITE" => FieldOf(g) \in KnownFields
    /\ g.mult = "COMPOSITE" => g.w \in {8, 16} /\ \E P \in Polys : P.w = g.w

\* A call of gf_init_hard that gf_error_check lets through.
Asked(m, poly, base) ==
    \/ m.mult = "COMPOSITE" /\ base # NoField
    \/ m.mult # "COMPOSITE" /\ base = NoField /\ \E P \in Polys : P.w = m.w /\ P.poly = poly

\* A settled field that did not fail has all functions and room for its tables.
LEMMA SettledGives ==
    ASSUME NEW f, NEW z, NEW fails \in BOOLEAN, NEW names, "NULL" \notin names, Settled(f, z, fails, names)
    PROVE  /\ f = Failed \/ f.ok = TRUE
           /\ ~fails => /\ z # "0" /\ f.ok = TRUE
                        /\ "NULL" \notin {f.multiply, f.divide, f.inverse, f.region}
                        /\ f.tables \in {"none", z}
BY DEF Settled, Complete

\* gf_init_hard: the field it makes is known, and is ready unless what the
\* caller asked for may fail.
LEMMA MadeIsReady ==
    ASSUME NEW m \in Settings, NEW poly \in Bits, NEW base, NEW build, FieldAssumption,
           GfErrorCheck(m, poly, base, build), Asked(m, poly, base)
    PROVE  LET F == PolyField(m, poly, base)
               g == GfInitHard(m, poly, base, build, PowersOf(F), Primitive(F))
           IN  /\ g # NoField => FieldKnown(g)
               /\ ~MayFail([build |-> build, m |-> m, poly |-> poly]) =>
                    Ready(g) /\ g.f.tables \in {"none", GfScratchSize(m, build)}
<1> DEFINE F == PolyField(m, poly, base)
           f == WidthInit(m, F, base, build, PowersOf(F), Primitive(F))
           z == GfScratchSize(m, build)
           g == GfInitHard(m, poly, base, build, PowersOf(F), Primitive(F))
           May == MayFail([build |-> build, m |-> m, poly |-> poly])
<1>1. m.w \in 1..31 /\ m.mult \in Multiplications /\ \E P \in Polys : P.w = m.w
  BY DEF FieldAssumption
<1>2. m.mult = "COMPOSITE" => base # NoField
  BY DEF Asked
<1>3. F.w = m.w /\ F.poly \subseteq 0..(m.w - 1)
  BY <1>1, <1>2, PolyWithin
<1>4. IsGF(F)
  BY <1>1, <1>3 DEF IsGF
<1>5. m.mult # "COMPOSITE" => F \in KnownFields /\ base = NoField
  <2> SUFFICES ASSUME m.mult # "COMPOSITE" PROVE F \in KnownFields /\ base = NoField
    OBVIOUS
  <2>1. PICK P \in Polys : P.w = m.w /\ P.poly = poly /\ base = NoField
    BY DEF Asked
  <2> QED BY <1>1, <2>1, MadeIsKnown
<1>6. m.mult = "COMPOSITE" => m.w \in {8, 16}
  <2>1. m.mult = "COMPOSITE" => MethodAllowed(m, poly, base, build)
    BY DEF GfErrorCheck, TableFlagsAllowed
  <2>2. m.mult = "COMPOSITE" => CompositeAllowed(m, poly, base)
    BY <2>1 DEF MethodAllowed
  <2>3. m.mult = "COMPOSITE" => m.w \in {8, 16, 32, 64, 128}
    BY <2>2 DEF CompositeAllowed
  <2> QED BY <1>1, <2>3
<1>7. g = IF z = "0" THEN NoField
          ELSE [w |-> m.w, mult |-> m.mult, arg1 |-> m.arg1, arg2 |-> m.arg2,
                poly |-> F.poly, alt |-> "ALTMAP" \in m.region, base |-> base, f |-> f]
  BY DEF GfInitHard
<1>8. /\ f = Failed \/ f.ok = TRUE
      /\ ~May => /\ z # "0" /\ f.ok = TRUE
                 /\ "NULL" \notin {f.multiply, f.divide, f.inverse, f.region}
                 /\ f.tables \in {"none", z}
  <2>1. \A q : "NULL" \notin Names(m, F, PowersOf(F), q)
    BY DEF Names, W4Names, W8Names, W16Names, WgenNames
  <2>2. CASE m.mult = "COMPOSITE"
    <3>1. PICK q \in BOOLEAN : q = FALSE
      OBVIOUS
    <3> DEFINE fails == MethodFails(m, F, PowersOf(F), q, build)
               names == Names(m, F, PowersOf(F), q)
    <3>2. f = WidthInit(m, F, base, build, PowersOf(F), q) /\ ~fails
      BY <1>6, <2>2, CompositeChooses
    <3>3. Settled(WidthInit(m, F, base, build, PowersOf(F), q), z, fails, names)
      BY <1>1, <1>2, Chooses
    <3>4. Settled(f, z, FALSE, names)
      <4> HIDE DEF f, z, fails, names
      <4> QED BY <3>2, <3>3 DEF Settled
    <3>5. "NULL" \notin names
      BY <2>1
    <3> HIDE DEF f, z, May, fails, names
    <3> QED BY <3>4, <3>5, SettledGives
  <2>3. CASE m.mult # "COMPOSITE"
    <3> DEFINE q == XHasFullOrder(F)
               fails == MethodFails(m, F, PowersOf(F), q, build)
               names == Names(m, F, PowersOf(F), q)
    <3>1. Primitive(F) = q
      BY <1>1, <1>3, <1>4, <1>5, <2>3, KnownArePlain
    <3>2. q \in BOOLEAN
      BY DEF XHasFullOrder
    <3>3. Settled(f, z, fails, names)
      BY <1>1, <1>2, <3>1, <3>2, Chooses
    <3>4. fails => May
      BY <1>1, <1>3, <1>4, <1>5, <2>3, OnlyMayFail
    <3>5. "NULL" \notin names
      BY <2>1
    <3>6. fails \in BOOLEAN
      BY DEF MethodFails, W4Fails, W8Fails, W16Fails, WgenFails
    <3> HIDE DEF f, z, May, fails, names
    <3>7. /\ f = Failed \/ f.ok = TRUE
          /\ ~fails => /\ z # "0" /\ f.ok = TRUE
                       /\ "NULL" \notin {f.multiply, f.divide, f.inverse, f.region}
                       /\ f.tables \in {"none", z}
      BY <3>3, <3>5, <3>6, SettledGives
    <3> QED BY <3>4, <3>7
  <2> QED BY <2>2, <2>3
<1> HIDE DEF f, z, May, F
<1>9. g # NoField => FieldKnown(g)
  <2> SUFFICES ASSUME g # NoField PROVE FieldKnown(g)
    OBVIOUS
  <2>1. /\ g.w = m.w /\ g.mult = m.mult /\ g.poly = F.poly /\ g.f = f
    BY <1>7
  <2>2. FieldOf(g) = F
    BY <1>3, <2>1 DEF FieldOf, F, PolyField
  <2>3. f.ok \in BOOLEAN
    <3>1. Failed.ok = FALSE
      BY FailedIs
    <3>2. CASE f = Failed
      BY <3>1, <3>2
    <3>3. CASE f.ok = TRUE
      BY <3>3
    <3> QED BY <1>8, <3>2, <3>3
  <2> HIDE DEF g
  <2> QED BY <1>1, <1>3, <1>5, <1>6, <2>1, <2>2, <2>3 DEF FieldKnown
<1>10. ~May => Ready(g) /\ g.f.tables \in {"none", z}
  <2> SUFFICES ASSUME ~May PROVE Ready(g) /\ g.f.tables \in {"none", z}
    OBVIOUS
  <2>1. g.w = m.w /\ g.f = f
    BY <1>7, <1>8
  <2>2. g # NoField
    BY <1>1, <2>1 DEF NoField
  <2> HIDE DEF g
  <2> QED BY <1>8, <2>1, <2>2 DEF Ready
<1> QED BY <1>9, <1>10 DEF May, z, F

\* The field the words are taken from is one TLC has the powers of.
LEMMA SampleIsKnown ==
    ASSUME NEW g, FieldKnown(g)
    PROVE  SampleField(g) \in KnownFields /\ IsGF(SampleField(g)) /\ SampleField(g).w = g.w
<1>1. CASE g.mult # "COMPOSITE"
  <2>1. SampleField(g) = FieldOf(g)
    BY <1>1 DEF SampleField
  <2>2. FieldOf(g).w = g.w /\ FieldOf(g).poly = g.poly
    BY DEF FieldOf
  <2> QED BY <1>1, <2>1, <2>2 DEF FieldKnown, IsGF
<1>2. CASE g.mult = "COMPOSITE"
  <2> DEFINE F == SampleField(g)
  <2>1. F = CHOOSE G \in DefaultPolys : G.w = g.w
    BY <1>2 DEF SampleField
  <2>2. g.w \in {8, 16} /\ \E P \in Polys : P.w = g.w
    BY <1>2 DEF FieldKnown
  <2>3. [w |-> 8, poly |-> GfW8DefaultPoly] \in DefaultPolys /\ [w |-> 16, poly |-> GfW16DefaultPoly] \in DefaultPolys
    BY DEF DefaultPolys
  <2>4. \E G \in DefaultPolys : G.w = g.w
    BY <2>2, <2>3
  <2> HIDE DEF F
  <2>5. F \in DefaultPolys /\ F.w = g.w
    BY <2>1, <2>4
  <2>6. F \in KnownFields
    BY <2>2, <2>5 DEF KnownFields
  <2>7. F = [w |-> 8, poly |-> GfW8DefaultPoly] \/ F = [w |-> 16, poly |-> GfW16DefaultPoly]
    <3>1. ASSUME NEW w \in (1..31) \ {4, 8, 16}, F = [w |-> w, poly |-> GfWgenDefaultPoly(w)] PROVE FALSE
      BY <2>2, <2>5, <3>1
    <3>2. F # [w |-> 4, poly |-> GfW4DefaultPoly]
      BY <2>2, <2>5
    <3> QED BY <2>5, <3>1, <3>2 DEF DefaultPolys
  <2>8. IsGF(F)
    <3>1. CASE F = [w |-> 8, poly |-> GfW8DefaultPoly]
      BY <3>1 DEF IsGF, GfW8DefaultPoly
    <3>2. CASE F = [w |-> 16, poly |-> GfW16DefaultPoly]
      BY <3>2 DEF IsGF, GfW16DefaultPoly
    <3> QED BY <2>7, <3>1, <3>2
  <2> QED BY <2>5, <2>6, <2>8 DEF F
<1> QED BY <1>1, <1>2

\* The words are within the field's width.
LEMMA WordsWithin ==
    ASSUME NEW g, FieldKnown(g), FieldAssumption
    PROVE  Firsts(g) \subseteq SUBSET (0..(g.w - 1)) /\ Seconds(g) \subseteq SUBSET (0..(g.w - 1))
<1> DEFINE F == SampleField(g)
<1>1. F \in KnownFields /\ IsGF(F) /\ F.w = g.w
  BY SampleIsKnown
<1> HIDE DEF F
<1>2. PowersIn[F] = PowersOfX(F)
  BY <1>1 DEF PowersIn
<1>3. ASSUME NEW e \in Exponents PROVE PowerOfX(F, e) \in Words(F)
  <2>1. e \in Nat
    BY DEF FieldAssumption
  <2> QED BY <1>1, <2>1, PowerOfXIs
<1>4. PowersIn[F] \subseteq Words(F)
  BY <1>2, <1>3 DEF PowersOfX
<1>5. Words(F) = SUBSET (0..(g.w - 1))
  BY <1>1 DEF Words
<1>6. \A s \in SmallWords : Shr(s, g.w) = Zero => s \in SUBSET (0..(g.w - 1))
  <2> SUFFICES ASSUME NEW s \in SmallWords, Shr(s, g.w) = Zero, NEW i \in s PROVE i \in 0..(g.w - 1)
    OBVIOUS
  <2>1. i \in Nat
    BY DEF FieldAssumption, Bits
  <2>2. ~(i >= g.w)
    BY DEF Shr, Zero
  <2>3. g.w \in 1..31
    BY DEF FieldKnown
  <2> QED BY <2>1, <2>2, <2>3
<1> QED BY <1>4, <1>5, <1>6 DEF Firsts, Seconds, Zero, F

\* The inductive invariant of a program that makes fields.
FieldInv ==
    /\ AcceptedIsReady
    /\ field # NoField => FieldKnown(field)
    /\ multiplier # NotYet => asked = NoCall /\ field # NoField
    /\ operand # NotYet => multiplier # NotYet

\* No field is made at first.
LEMMA FieldInitInv == FieldInit => FieldInv
BY DEF FieldInit, FieldInv, AcceptedIsReady, FieldTypeOK, Made

\* What a call of gf_init_hard keeps.
LEMMA MakeKeeps ==
    ASSUME FieldAssumption, FieldInv, multiplier = NotYet,
           NEW build, NEW m \in Settings, NEW poly \in Bits, NEW base,
           Asked(m, poly, base), Make(build, m, poly, base)
    PROVE  FieldInv'
<1> DEFINE F == PolyField(m, poly, base)
           g == GfInitHard(m, poly, base, build, PowersOf(F), Primitive(F))
<1>1. /\ GfErrorCheck(m, poly, base, build)
      /\ field' = g /\ asked' = [build |-> build, m |-> m, poly |-> poly]
      /\ multiplier' = multiplier /\ operand' = operand
  BY DEF Make
<1>2. /\ g # NoField => FieldKnown(g)
      /\ ~MayFail([build |-> build, m |-> m, poly |-> poly]) =>
            Ready(g) /\ g.f.tables \in {"none", GfScratchSize(m, build)}
  BY <1>1, MadeIsReady
<1> HIDE DEF g
<1>3. asked'.m = m /\ asked'.build = build
  BY <1>1
<1>4. (multiplier # NotYet => asked = NoCall /\ field # NoField) /\ (operand # NotYet => multiplier # NotYet)
  BY DEF FieldInv
<1>5. multiplier' = NotYet /\ operand' = NotYet
  BY <1>1, <1>4
<1>6. field' # NoField => FieldKnown(field')
  BY <1>1, <1>2
<1>7. FieldTypeOK'
  BY <1>5, <1>6 DEF FieldTypeOK, FieldKnown
<1>8. (Made /\ ~MayFail(asked))' => Ready(field') /\ field'.f.tables \in {"none", GfScratchSize(asked'.m, asked'.build)}
  BY <1>1, <1>2, <1>3
<1> QED BY <1>5, <1>6, <1>7, <1>8 DEF FieldInv, AcceptedIsReady

\* Every call keeps the invariant.
LEMMA FieldStepInv == FieldAssumption /\ FieldInv /\ [FieldNext]_FieldVars => FieldInv'
<1> SUFFICES ASSUME FieldAssumption, FieldInv, [FieldNext]_FieldVars PROVE FieldInv'
  OBVIOUS
<1>0. /\ field # NoField => FieldKnown(field)
      /\ multiplier # NotYet => asked = NoCall /\ field # NoField
      /\ operand # NotYet => multiplier # NotYet
      /\ FieldTypeOK
  BY DEF FieldInv, AcceptedIsReady
<1>1. CASE MakeField
  <2>1. PICK build \in Builds, m \in Settings : \E P \in Polys :
            m.mult # "COMPOSITE" /\ P.w = m.w /\ Make(build, m, P.poly, NoField)
    BY <1>1 DEF MakeField
  <2>2. PICK P \in Polys : m.mult # "COMPOSITE" /\ P.w = m.w /\ Make(build, m, P.poly, NoField)
    BY <2>1
  <2>3. P.poly \in Bits /\ Asked(m, P.poly, NoField)
    BY <2>2 DEF Asked, FieldAssumption, Bits
  <2>4. multiplier = NotYet
    BY <1>0, <1>1 DEF MakeField
  <2> QED BY <2>2, <2>3, <2>4, MakeKeeps
<1>2. CASE MakeComposite
  <2>1. PICK m \in Settings, poly \in CompositePolys : m.mult = "COMPOSITE" /\ Make(asked.build, m, poly, field)
    BY <1>2 DEF MakeComposite
  <2>2. poly \in Bits /\ Asked(m, poly, field)
    BY <1>2, <2>1 DEF Asked, FieldAssumption, MakeComposite
  <2>3. multiplier = NotYet
    BY <1>0, <1>2 DEF MakeComposite
  <2> QED BY <2>1, <2>2, <2>3, MakeKeeps
<1>3. CASE TakeFirst
  <2>1. /\ field # NoField /\ multiplier' \in Firsts(field) /\ asked' = NoCall
        /\ field' = field /\ operand' = operand /\ multiplier = NotYet
    BY <1>3 DEF TakeFirst
  <2>2. multiplier' \in SUBSET (0..(field.w - 1))
    BY <1>0, <2>1, WordsWithin
  <2>3. ~Made'
    BY <2>1 DEF Made
  <2>4. operand' = NotYet
    BY <1>0, <2>1
  <2>5. FieldTypeOK'
    BY <1>0, <2>1, <2>2, <2>4 DEF FieldTypeOK
  <2> QED BY <1>0, <2>1, <2>3, <2>4, <2>5 DEF FieldInv, AcceptedIsReady
<1>4. CASE TakeSecond
  <2>1. /\ multiplier # NotYet /\ operand' \in Seconds(field)
        /\ field' = field /\ asked' = asked /\ multiplier' = multiplier
    BY <1>4 DEF TakeSecond
  <2>2. operand' \in SUBSET (0..(field.w - 1))
    BY <1>0, <2>1, WordsWithin
  <2>3. ~Made'
    BY <1>0, <2>1 DEF Made
  <2>4. FieldTypeOK'
    BY <1>0, <2>1, <2>2 DEF FieldTypeOK
  <2> QED BY <1>0, <2>1, <2>3, <2>4 DEF FieldInv, AcceptedIsReady
<1>5. CASE UNCHANGED FieldVars
  BY <1>5 DEF FieldVars, FieldInv, AcceptedIsReady, FieldTypeOK, Made
<1> QED BY <1>1, <1>2, <1>3, <1>4, <1>5 DEF FieldNext

\* A field that gf_init_hard makes from arguments that gf_error_check accepts
\* has a multiply, a divide, an inverse and a region function, and its scratch
\* space, which gf_scratch_size measured before the method was chosen, is that
\* of the tables the method fills: whatever the width of up to 31 bits, the
\* polynomial, the method and its arguments, and the instruction sets of the
\* build, the documented failures (MayFail) apart.
THEOREM AcceptedIsAlwaysReady == FieldSpec => []AcceptedIsReady
<1>1. FieldInv => AcceptedIsReady
  BY DEF FieldInv
<1>2. FieldInv /\ [FieldNext]_FieldVars => FieldInv'
  BY FieldAssumption, FieldStepInv
<1> QED BY <1>1, <1>2, FieldInitInv, PTL DEF FieldSpec

-----------------------------------------------------------------------------
(* What a field that is made by itself computes. *)

\* What its method gives such a field: one of the multiplications of its width,
\* for CARRY_FREE of 4 bits a polynomial without x^2 and x^3, for GROUP numbers
\* of bits that are not more than there are.
Built(g) ==
    LET F == FieldOf(g)
    IN  /\ g.f.multiply \in Names(g, F, PowersOf(F), XHasFullOrder(F))
        /\ g.mult = "CARRY_FREE" /\ g.w = 4 => F.poly \cap (2..3) = {}
        /\ g.mult = "GROUP" => g.arg1 \in 1..g.w /\ g.arg2 \in 1..g.w

\* A field's width and polynomial, as a record of their own.
LEMMA FieldIsGF ==
    ASSUME NEW g, FieldKnown(g)
    PROVE  IsGF(FieldOf(g)) /\ FieldOf(g).w = g.w /\ FieldOf(g).poly = g.poly
<1>1. FieldOf(g).w = g.w /\ FieldOf(g).poly = g.poly
  BY DEF FieldOf
<1>2. g.w \in 1..31 /\ g.poly \subseteq 0..(g.w - 1)
  BY DEF FieldKnown
<1> QED BY <1>1, <1>2 DEF IsGF

\* A method of logarithms, where x has the full order.
LEMMA LogsOfPowers ==
    ASSUME NEW F \in KnownFields, IsGF(F), Cycle(F), NEW a \in Words(F), NEW b \in Words(F)
    PROVE  /\ F.w = 4 => GfW4LogMultiply(PowersOf(F), a, b) = Times(F, a, b)
           /\ F.w = 8 => /\ GfW8LogMultiply(PowersOf(F), a, b) = Times(F, a, b)
                         /\ GfW8LogzeroSmallMultiply(PowersOf(F), a, b) = Times(F, a, b)
                         /\ GfW8LogzeroMultiply(PowersOf(F), a, b) = Times(F, a, b)
           /\ F.w = 16 /\ XHasFullOrder(F) =>
                /\ GfW16LogMultiply(PowersOf(F).antilog, PowersOf(F).log, a, b) = Times(F, a, b)
                /\ GfW16LogZeroMultiply(PowersOf(F).antilog, PowersOf(F).log, a, b) = Times(F, a, b)
           /\ F.w # 16 => GfWgenLogMultiply(PowersOf(F), a, b) = Times(F, a, b)
<1> DEFINE P == PowersOf(F)
<1>1. (F.w = 16 => XHasFullOrder(F)) => AreLogs(F, P)
  BY TablesAreLogs
<1>2. F.w # 16 => Cardinality(DOMAIN P.antilog) = Order(F)
  BY TablesAreLogs
<1> HIDE DEF P
<1>3. CASE F.w = 16 /\ ~XHasFullOrder(F)
  BY <1>3
<1>4. CASE F.w = 16 => XHasFullOrder(F)
  <2>1. AreLogs(F, P)
    BY <1>1, <1>4
  <2>2. F.w = 4 => GfW4LogMultiply(P, a, b) = Times(F, a, b)
    BY <2>1, LogsAreTimes
  <2>3. F.w = 8 => /\ GfW8LogMultiply(P, a, b) = Times(F, a, b)
                   /\ GfW8LogzeroSmallMultiply(P, a, b) = Times(F, a, b)
                   /\ GfW8LogzeroMultiply(P, a, b) = Times(F, a, b)
    BY <2>1, LogsAreTimes
  <2>4. F.w = 16 => /\ GfW16LogMultiply(P.antilog, P.log, a, b) = Times(F, a, b)
                    /\ GfW16LogZeroMultiply(P.antilog, P.log, a, b) = Times(F, a, b)
    BY <2>1, LogsAreTimes
  <2>5. F.w # 16 => GfWgenLogMultiply(P, a, b) = Times(F, a, b)
    BY <1>2, <2>1, LogsAreTimes
  <2> QED BY <2>2, <2>3, <2>4, <2>5 DEF P
<1> QED BY <1>3, <1>4

\* GF(2^4): every multiplication is the product.
LEMMA W4IsTimes ==
    ASSUME NEW g, FieldKnown(g), Built(g), g.mult # "COMPOSITE", ~WrongProduct(g), g.w = 4,
           NEW a \in Words(FieldOf(g)), NEW b \in Words(FieldOf(g))
    PROVE  W4Multiply(g, PowersOf(FieldOf(g)), a, b) = Times(FieldOf(g), a, b)
<1> DEFINE F == FieldOf(g)
           P == PowersOf(F)
           M == W4Multiply(g, P, a, b)
           T == Times(F, a, b)
<1>1. IsGF(F) /\ F.w = 4 /\ F \in KnownFields
  BY FieldIsGF DEF FieldKnown
<1>2. /\ g.f.multiply \in W4Names(g, P)
      /\ g.mult = "CARRY_FREE" => F.poly \cap (2..3) = {}
  BY DEF Built, Names
<1>3. P = Powers(F) /\ Primitive(F) = XHasFullOrder(F)
  BY <1>1, KnownArePlain
<1>4. ~MetAgain(P) => Cycle(F)
  BY <1>1, <1>3, NotMetIsCycle
<1>5. g.f.multiply = "quad_table_lazy" => Cycle(F)
  <2>1. g.f.multiply = "quad_table_lazy" => XHasFullOrder(F)
    BY <1>3 DEF WrongProduct
  <2> QED BY <1>1, <2>1, FullOrderIsCycle
<1>6. Cycle(F) => GfW4LogMultiply(P, a, b) = T
  BY <1>1, LogsOfPowers
<1> HIDE DEF F
<1>7. GfW4SingleTableMultiply(GfW4SingleTable(F), a, b) = T
  BY <1>1, TablesAreTimes DEF F
<1>8. GfW4DoubleTableMultiply(GfW4SingleTable(F), a, b) = T
  BY <1>1, TablesAreTimes DEF F
<1>9. GfW4QuadTableMultiply(GfW4SingleTable(F), a, b) = T
  BY <1>1, TablesAreTimes DEF F
<1>10. GfW4ShiftMultiply(F, a, b) = T
  BY <1>1, ShiftIsTimes DEF F
<1>11. GfW4BytwoPMultiply(F, a, b) = T /\ GfW4BytwoBMultiply(F, a, b) = T
  BY <1>1, BytwoPIsTimes, BytwoBIsTimes DEF F, GfW4BytwoPMultiply, GfW4BytwoBMultiply
<1>12. F.poly \cap (2..3) = {} => GfW4ClmMultiply(F, a, b) = T
  BY <1>1, ReductionsSuffice DEF F
<1>13. GfW4NeonClmMultiply(F, a, b) = GfW4ClmMultiply(F, a, b)
  BY DEF GfW4NeonClmMultiply, GfW4ClmMultiply
<1>14. CASE g.f.multiply = "shift"
  BY <1>10, <1>14 DEF W4Multiply, F
<1>15. CASE g.f.multiply \in {"BYTWO_p", "BYTWO_b"}
  BY <1>11, <1>15 DEF W4Multiply, F
<1>16. CASE g.f.multiply \in {"single_table", "double_table", "quad_table"}
  BY <1>7, <1>8, <1>9, <1>16 DEF W4Multiply, F
<1>17. CASE g.f.multiply = "quad_table_lazy"
  <2>1. GfW4QuadTableLazyMultiply(P, a, b) = T
    BY <1>5, <1>6, <1>17 DEF GfW4QuadTableLazyMultiply
  <2> QED BY <1>17, <2>1 DEF W4Multiply, F
<1>18. CASE g.f.multiply = "log"
  <2>1. ~MetAgain(P)
    BY <1>2, <1>18 DEF W4Names
  <2>2. GfW4LogMultiply(P, a, b) = T
    BY <1>4, <1>6, <2>1
  <2> QED BY <1>18, <2>2 DEF W4Multiply, F
<1>19. CASE g.f.multiply \in {"clm", "neon_clm"}
  <2>1. g.mult = "CARRY_FREE"
    BY <1>2, <1>19 DEF W4Names
  <2>2. GfW4ClmMultiply(F, a, b) = T
    BY <1>2, <1>12, <2>1
  <2> QED BY <1>13, <1>19, <2>2 DEF W4Multiply, F
<1>20. g.f.multiply \in {"shift", "BYTWO_p", "BYTWO_b", "single_table", "double_table", "quad_table", "quad_table_lazy",
                        "log", "clm", "neon_clm"}
  BY <1>2 DEF W4Names
<1> QED BY <1>14, <1>15, <1>16, <1>17, <1>18, <1>19, <1>20 DEF F

\* GF(2^8): where there are reductions at all, there is no x^7.
LEMMA ReductionsAre ==
    ASSUME NEW F, Reductions(F) # 0
    PROVE  F.poly \cap {7} = {} /\ (Reductions(F) = 2 => F.poly \cap {5, 6, 7} = {})
<1>1. CASE F.poly \cap {5, 6, 7} = {}
  BY <1>1
<1>2. CASE F.poly \cap {5, 6, 7} = {5}
  <2>1. F.poly \cap {5, 6, 7} # {} /\ F.poly \cap {6, 7} # {6}
    BY <1>2
  <2>2. Reductions(F) = 3
    BY <1>2, <2>1 DEF Reductions
  <2> QED BY <1>2, <2>2
<1>3. CASE F.poly \cap {6, 7} = {6}
  <2>1. F.poly \cap {5, 6, 7} # {} /\ F.poly \cap {5, 6, 7} # {5}
    BY <1>3
  <2>2. Reductions(F) = 4
    BY <1>3, <2>1 DEF Reductions
  <2> QED BY <1>3, <2>2
<1>4. CASE F.poly \cap {5, 6, 7} # {} /\ F.poly \cap {5, 6, 7} # {5} /\ F.poly \cap {6, 7} # {6}
  <2>1. Reductions(F) = 0
    BY <1>4 DEF Reductions
  <2> QED BY <2>1
<1> QED BY <1>1, <1>2, <1>3, <1>4

\* GF(2^16): where there are reductions, no x^13 and above.
LEMMA ReductionsAre16 ==
    ASSUME NEW F, GfW16Reductions(F) # 0
    PROVE  F.poly \cap (13..15) = {}
<1>1. CASE F.poly \cap (9..15) = {}
  BY <1>1
<1>2. CASE F.poly \cap (12..15) = {}
  BY <1>2
<1>3. CASE F.poly \cap (12..15) = {12}
  BY <1>3
<1>4. CASE F.poly \cap (9..15) # {} /\ F.poly \cap (12..15) # {} /\ F.poly \cap (12..15) # {12}
  <2>1. GfW16Reductions(F) = 0
    BY <1>4 DEF GfW16Reductions
  <2> QED BY <2>1
<1> QED BY <1>1, <1>2, <1>3, <1>4

\* GF(2^8): every multiplication of a field without a base is the product.
LEMMA W8IsTimes ==
    ASSUME NEW g, FieldKnown(g), Built(g), g.mult # "COMPOSITE", ~WrongProduct(g), g.w = 8, NEW m,
           NEW a \in Words(FieldOf(g)), NEW b \in Words(FieldOf(g))
    PROVE  /\ W8Multiply(g, PowersOf(FieldOf(g)), m, a, b) = Times(FieldOf(g), a, b)
           /\ g.f.multiply \notin {"composite_recursive", "composite_inline"}
<1> DEFINE F == FieldOf(g)
           P == PowersOf(F)
           T == Times(F, a, b)
<1>1. IsGF(F) /\ F.w = 8 /\ F \in KnownFields
  BY FieldIsGF DEF FieldKnown
<1>2. g.f.multiply \in W8Names(g, F, P)
  BY DEF Built, Names
<1>3. P = Powers(F)
  BY <1>1, KnownArePlain
<1>4. ~MetAgain(P) => Cycle(F)
  BY <1>1, <1>3, NotMetIsCycle
<1>5. Cycle(F) => GfW8LogMultiply(P, a, b) = T /\ GfW8LogzeroSmallMultiply(P, a, b) = T /\ GfW8LogzeroMultiply(P, a, b) = T
  BY <1>1, LogsOfPowers
<1>6. g.f.multiply = "neon_clm" => ~(Reductions(F) > 2)
  BY DEF WrongProduct
<1> HIDE DEF F
<1>7. GfW8TableMultiply(F, a, b) = T
  BY <1>1, TablesAreTimes DEF F
<1>8. GfW8DoubleTableMultiply(F, a, b) = T
  BY <1>1, TablesAreTimes DEF F
<1>9. GfW8DoubleTableLazyMultiply(F, a, b) = T
  BY <1>1, TablesAreTimes DEF F
<1>10. GfW8SplitMultiply(F, a, b) = T
  BY <1>1, TablesAreTimes DEF F
<1>11. GfW8ShiftMultiply(F, a, b) = T
  BY <1>1, ShiftIsTimes DEF F
<1>12. GfW8BytwoPMultiply(F, a, b) = T /\ GfW8BytwoBMultiply(F, a, b) = T
  BY <1>1, BytwoPIsTimes, BytwoBIsTimes DEF F, GfW8BytwoPMultiply, GfW8BytwoBMultiply
<1>13. F.poly \cap {7} = {} => Reductions(F) \in {2, 3, 4} /\ ClmMultiply(F, Reductions(F), a, b) = T
  BY <1>1, ReductionsSuffice DEF F
<1>14. F.poly \cap {5, 6, 7} = {} => GfW8NeonClmMultiplyX(F, 2, a, b) = T
  BY <1>1, NeonTwiceIsTimes DEF F
<1>15. Reductions(F) # 0 => F.poly \cap {7} = {} /\ (Reductions(F) = 2 => F.poly \cap {5, 6, 7} = {})
  BY ReductionsAre
<1>16. /\ g.f.multiply \in {"shift", "BYTWO_p", "BYTWO_b", "table", "default", "double_table", "double_table_lazy",
                            "split", "clm", "neon_clm", "log", "logzero_small", "logzero"}
       /\ g.f.multiply \in {"clm", "neon_clm"} => Reductions(F) # 0
       /\ g.f.multiply \in {"log", "logzero_small", "logzero"} => ~MetAgain(P)
  BY <1>2 DEF W8Names
<1> DEFINE Right == W8Multiply(g, P, m, a, b) = T
<1>17. CASE g.f.multiply \in {"shift", "BYTWO_p", "BYTWO_b"}
  BY <1>11, <1>12, <1>17 DEF W8Multiply, F
<1>18. CASE g.f.multiply \in {"table", "default", "double_table", "double_table_lazy", "split"}
  BY <1>7, <1>8, <1>9, <1>10, <1>18 DEF W8Multiply, F
<1>19. CASE g.f.multiply \in {"log", "logzero_small", "logzero"}
  <2>1. GfW8LogMultiply(P, a, b) = T /\ GfW8LogzeroSmallMultiply(P, a, b) = T /\ GfW8LogzeroMultiply(P, a, b) = T
    BY <1>4, <1>5, <1>16, <1>19
  <2> QED BY <1>19, <2>1 DEF W8Multiply, F
<1>20. CASE g.f.multiply = "clm"
  <2>1. Reductions(F) \in {2, 3, 4} /\ ClmMultiply(F, Reductions(F), a, b) = T
    BY <1>13, <1>15, <1>16, <1>20
  <2>2. W8Multiply(g, P, m, a, b) = CASE Reductions(F) = 2 -> GfW8ClmMultiply2(F, a, b)
                                      [] Reductions(F) = 3 -> GfW8ClmMultiply3(F, a, b)
                                      [] Reductions(F) = 4 -> GfW8ClmMultiply4(F, a, b)
    BY <1>20 DEF W8Multiply, F
  <2>3. W8Multiply(g, P, m, a, b) = ClmMultiply(F, Reductions(F), a, b)
    BY <2>1, <2>2 DEF GfW8ClmMultiply2, GfW8ClmMultiply3, GfW8ClmMultiply4
  <2> QED BY <1>20, <2>1, <2>3 DEF F
<1>21. CASE g.f.multiply = "neon_clm"
  <2>1. Reductions(F) = 2
    BY <1>6, <1>13, <1>15, <1>16, <1>21
  <2>2. GfW8NeonClmMultiplyX(F, 2, a, b) = T
    BY <1>14, <1>15, <2>1
  <2>3. W8Multiply(g, P, m, a, b) = GfW8NeonClmMultiplyX(F, Reductions(F), a, b)
    BY <1>21 DEF W8Multiply, F
  <2> QED BY <1>21, <2>1, <2>2, <2>3 DEF F
<1> QED BY <1>16, <1>17, <1>18, <1>19, <1>20, <1>21 DEF F

\* GF(2^16): the same.
LEMMA W16IsTimes ==
    ASSUME NEW g, FieldKnown(g), Built(g), g.mult # "COMPOSITE", ~WrongProduct(g), g.w = 16, NEW m,
           NEW a \in Words(FieldOf(g)), NEW b \in Words(FieldOf(g))
    PROVE  W16Multiply(g, PowersOf(FieldOf(g)), m, a, b) = Times(FieldOf(g), a, b)
<1> DEFINE F == FieldOf(g)
           P == PowersOf(F)
           T == Times(F, a, b)
<1>1. IsGF(F) /\ F.w = 16 /\ F \in KnownFields
  BY FieldIsGF DEF FieldKnown
<1>2. g.f.multiply \in W16Names(g, F, XHasFullOrder(F))
  BY DEF Built, Names
<1>3. Primitive(F) = XHasFullOrder(F)
  BY <1>1, KnownArePlain
<1>4. XHasFullOrder(F) => Cycle(F)
  BY <1>1, FullOrderIsCycle
<1>5. XHasFullOrder(F) => /\ GfW16LogMultiply(P.antilog, P.log, a, b) = T
                          /\ GfW16LogZeroMultiply(P.antilog, P.log, a, b) = T
  BY <1>1, <1>4, LogsOfPowers
<1>6. g.f.multiply = "log_zero" => XHasFullOrder(F)
  BY <1>3 DEF WrongProduct
<1> HIDE DEF F
<1>7. GfW16Split88Multiply(F, a, b) = T
  BY <1>1, Split88IsTimes DEF F
<1>8. GfW16Group44Multiply(F, a, b) = T
  BY <1>1, Group44IsTimes DEF F
<1>9. GfW16ShiftMultiply(F, a, b) = T
  BY <1>1, ShiftIsTimes DEF F
<1>10. GfW16BytwoPMultiply(F, a, b) = T /\ GfW16BytwoBMultiply(F, a, b) = T
  BY <1>1, BytwoPIsTimes, BytwoBIsTimes DEF F, GfW16BytwoPMultiply, GfW16BytwoBMultiply
<1>11. F.poly \cap (13..15) = {} => GfW16Reductions(F) \in {2, 3, 4} /\ ClmMultiply(F, GfW16Reductions(F), a, b) = T
  BY <1>1, ReductionsSuffice DEF F
<1>12. GfW16Reductions(F) # 0 => F.poly \cap (13..15) = {}
  BY ReductionsAre16
<1>13. /\ g.f.multiply \in {"shift", "split_8_8", "BYTWO_p", "BYTWO_b", "group_4_4", "clm", "log", "log_zero"}
       /\ g.f.multiply = "clm" => GfW16Reductions(F) # 0
       /\ g.f.multiply = "log" => XHasFullOrder(F)
  BY <1>2 DEF W16Names
<1>14. CASE g.f.multiply \in {"shift", "BYTWO_p", "BYTWO_b"}
  BY <1>9, <1>10, <1>14 DEF W16Multiply, F
<1>15. CASE g.f.multiply \in {"split_8_8", "group_4_4"}
  BY <1>7, <1>8, <1>15 DEF W16Multiply, F
<1>16. CASE g.f.multiply \in {"log", "log_zero"}
  <2>1. /\ GfW16LogMultiply(P.antilog, P.log, a, b) = T
        /\ GfW16LogZeroMultiply(P.antilog, P.log, a, b) = T
    BY <1>5, <1>6, <1>13, <1>16
  <2> QED BY <1>16, <2>1 DEF W16Multiply, F
<1>17. CASE g.f.multiply = "clm"
  <2>1. GfW16Reductions(F) \in {2, 3, 4} /\ ClmMultiply(F, GfW16Reductions(F), a, b) = T
    BY <1>11, <1>12, <1>13, <1>17
  <2>2. W16Multiply(g, P, m, a, b) = CASE GfW16Reductions(F) = 2 -> GfW16ClmMultiply2(F, a, b)
                                       [] GfW16Reductions(F) = 3 -> GfW16ClmMultiply3(F, a, b)
                                       [] GfW16Reductions(F) = 4 -> GfW16ClmMultiply4(F, a, b)
    BY <1>17 DEF W16Multiply, F
  <2>3. W16Multiply(g, P, m, a, b) = ClmMultiply(F, GfW16Reductions(F), a, b)
    BY <2>1, <2>2 DEF GfW16ClmMultiply2, GfW16ClmMultiply3, GfW16ClmMultiply4
  <2> QED BY <2>1, <2>3 DEF F
<1> QED BY <1>13, <1>14, <1>15, <1>16, <1>17 DEF F

\* The other widths.
LEMMA WgenIsTimes ==
    ASSUME NEW g, FieldKnown(g), Built(g), g.mult # "COMPOSITE", ~WrongProduct(g), g.w \notin {4, 8, 16},
           NEW a \in Words(FieldOf(g)), NEW b \in Words(FieldOf(g))
    PROVE  WgenMultiply(g, PowersOf(FieldOf(g)), a, b) = Times(FieldOf(g), a, b)
<1> DEFINE F == FieldOf(g)
           P == PowersOf(F)
           T == Times(F, a, b)
<1>1. IsGF(F) /\ F.w = g.w /\ F.w # 16 /\ F \in KnownFields /\ g.w \in Nat
  BY FieldIsGF DEF FieldKnown
<1>2. g.f.multiply \in WgenNames(g, XHasFullOrder(F))
  BY DEF Built, Names
<1>4. XHasFullOrder(F) => Cycle(F)
  BY <1>1, FullOrderIsCycle
<1>5. XHasFullOrder(F) => GfWgenLogMultiply(P, a, b) = T
  BY <1>1, <1>4, LogsOfPowers
<1>6. g.f.multiply = "group" => g.arg1 # g.w
  BY DEF WrongProduct
<1>7. g.mult = "GROUP" => g.arg1 \in 1..g.w /\ g.arg2 \in 1..g.w
  BY DEF Built
<1> HIDE DEF F
<1>8. GfWgenTableMultiply(GfWgenTable(F), a, b) = T
  BY <1>1, TablesAreTimes DEF F
<1>9. GfWgenShiftMultiply(F, a, b) = T
  BY <1>1, ShiftIsTimes DEF F
<1>10. GfWgenBytwoPMultiply(F, a, b) = T /\ GfWgenBytwoBMultiply(F, a, b) = T
  BY <1>1, BytwoPIsTimes, BytwoBIsTimes DEF F, GfWgenBytwoPMultiply, GfWgenBytwoBMultiply
<1>11. /\ g.f.multiply \in {"shift", "BYTWO_p", "BYTWO_b", "table", "log", "group_s_equals_r", "group"}
       /\ g.f.multiply = "log" => XHasFullOrder(F)
       /\ g.f.multiply \in {"group_s_equals_r", "group"} => g.mult = "GROUP"
  BY <1>2 DEF WgenNames
<1>12. CASE g.f.multiply \in {"shift", "BYTWO_p", "BYTWO_b", "table"}
  BY <1>8, <1>9, <1>10, <1>12 DEF WgenMultiply, F
<1>13. CASE g.f.multiply = "log"
  <2>1. GfWgenLogMultiply(P, a, b) = T
    BY <1>5, <1>11, <1>13
  <2> QED BY <1>13, <2>1 DEF WgenMultiply, F
<1>14. CASE g.f.multiply = "group_s_equals_r"
  <2>1. g.arg1 \in 1..F.w
    BY <1>1, <1>7, <1>11, <1>14
  <2>2. GfWgenGroupSEqualsRMultiply(F, g.arg1, a, b) = T
    BY <1>1, <2>1, GroupsOfOneSize DEF F
  <2> QED BY <1>14, <2>2 DEF WgenMultiply, F
<1>15. CASE g.f.multiply = "group"
  <2>1. g.arg1 \in 1..(F.w - 1) /\ g.arg2 \in 1..F.w
    BY <1>1, <1>6, <1>7, <1>11, <1>15
  <2>2. GfWgenGroupMultiply(F, g.arg1, g.arg2, a, b) = T
    BY <1>1, <2>1, GroupsOfTwoSizes DEF F
  <2> QED BY <1>15, <2>2 DEF WgenMultiply, F
<1> QED BY <1>11, <1>12, <1>13, <1>14, <1>15 DEF F

\* Whatever the width and the method, a field that is made by itself multiplies
\* by the product of polynomials reduced by its own, the documented mistakes
\* (WrongProduct) apart: gf_w4.c, gf_w8.c, gf_w16.c and gf_wgen.c.
THEOREM EveryMethodIsTimes ==
    ASSUME NEW g, FieldKnown(g), Built(g), g.mult # "COMPOSITE", ~WrongProduct(g), NEW m,
           NEW a \in Words(FieldOf(g)), NEW b \in Words(FieldOf(g))
    PROVE  MultiplyWith(g, PowersOf(FieldOf(g)), m, a, b) = Times(FieldOf(g), a, b)
<1>1. CASE g.w = 4
  BY <1>1, W4IsTimes DEF MultiplyWith
<1>2. CASE g.w = 8
  BY <1>2, W8IsTimes DEF MultiplyWith
<1>3. CASE g.w = 16
  BY <1>3, W16IsTimes DEF MultiplyWith
<1>4. CASE g.w \notin {4, 8, 16}
  BY <1>4, WgenIsTimes DEF MultiplyWith
<1> QED BY <1>1, <1>2, <1>3, <1>4

-----------------------------------------------------------------------------
(* What a field on top of another computes. *)

\* What gf_init_hard gives a COMPOSITE field: a base of half its width, an s
\* that is a word of the base, and a look at the base's table only if there is one.
OnTopOf(g) ==
    /\ g.w \in {8, 16} /\ g.base.w = g.w \div 2 /\ g.base # NoField
    /\ g.poly \subseteq 0..(g.w \div 2 - 1)
    /\ g.f.multiply \in {"composite_recursive", "composite_inline"}
    /\ g.f.multiply = "composite_inline" => BaseTable(g.base) = "table"

\* One field, and what lies below it.
Layer(g) ==
    /\ FieldKnown(g)
    /\ g.mult # "COMPOSITE" => Built(g)
    /\ g.mult = "COMPOSITE" => OnTopOf(g)

Chain(g) ==
    /\ Layer(g)
    /\ g.mult = "COMPOSITE" => Layer(g.base)
    /\ g.mult = "COMPOSITE" /\ g.base.mult = "COMPOSITE" => Layer(g.base.base)

\* Two multiplications of a field's words that are the same.
Agree(g, m, r) ==
    \A a, b \in Words(FieldOf(g)) : m[<<a, b>>] = r[<<a, b>>] /\ m[<<a, b>>] \in Words(FieldOf(g))

\* The words of a field are numbers' bits.
LEMMA WordsAreBits ==
    ASSUME NEW g, FieldKnown(g), NEW a \in Words(FieldOf(g))
    PROVE  a \in SUBSET Nat /\ a \in SUBSET (0..(g.w - 1)) /\ g.w \in Nat
<1>1. FieldOf(g).w = g.w /\ g.w \in 1..31
  BY FieldIsGF DEF FieldKnown
<1>2. a \in SUBSET (0..(g.w - 1))
  BY <1>1 DEF Words
<1> QED BY <1>1, <1>2

\* A field that is made by itself, whatever is said to be below it.
LEMMA PlainAgrees ==
    ASSUME NEW g, Layer(g), g.mult # "COMPOSITE", ~WrongProduct(g), NEW m, NEW r
    PROVE  Agree(g, MultOn(g, m), RefOn(g, r))
<1> SUFFICES ASSUME NEW a \in Words(FieldOf(g)), NEW b \in Words(FieldOf(g))
             PROVE  MultOn(g, m)[<<a, b>>] = RefOn(g, r)[<<a, b>>] /\ MultOn(g, m)[<<a, b>>] \in Words(FieldOf(g))
  BY DEF Agree
<1>1. FieldKnown(g) /\ Built(g)
  BY DEF Layer
<1>2. a \in SUBSET Nat /\ b \in SUBSET Nat
  BY <1>1, WordsAreBits
<1>3. MultOn(g, m)[<<a, b>>] = MultiplyWith(g, PowersOf(FieldOf(g)), m, a, b)
  BY <1>2 DEF MultOn, Binary, Bits
<1>4. RefOn(g, r)[<<a, b>>] = RefOver(g, r, a, b)
  BY <1>2 DEF RefOn, Binary, Bits
<1>5. RefOver(g, r, a, b) = Times(FieldOf(g), a, b)
  BY DEF RefOver
<1>6. MultiplyWith(g, PowersOf(FieldOf(g)), m, a, b) = Times(FieldOf(g), a, b)
  BY <1>1, EveryMethodIsTimes
<1>7. Times(FieldOf(g), a, b) \in Words(FieldOf(g))
  BY <1>1, FieldIsGF, WordSums
<1> QED BY <1>3, <1>4, <1>5, <1>6, <1>7

\* The halves of a word, and a word of halves.
LEMMA Halves ==
    ASSUME NEW h \in Nat \ {0}
    PROVE  /\ \A a \in SUBSET (0..(2 * h - 1)) : Cut(a, h) \in SUBSET (0..(h - 1)) /\ Shr(a, h) \in SUBSET (0..(h - 1))
           /\ \A x, y \in SUBSET (0..(h - 1)) : Xor(x, y) \in SUBSET (0..(h - 1)) /\ x \cup Shl(y, h) \in SUBSET (0..(2 * h - 1))
<1>1. ASSUME NEW a \in SUBSET (0..(2 * h - 1)) PROVE Cut(a, h) \in SUBSET (0..(h - 1)) /\ Shr(a, h) \in SUBSET (0..(h - 1))
  <2>1. \A i \in Cut(a, h) : i \in Int /\ 0 <= i /\ i <= h - 1
    BY DEF Cut
  <2>2. \A i \in Shr(a, h) : i \in Int /\ 0 <= i /\ i <= h - 1
    BY DEF Shr
  <2> QED BY <2>1, <2>2
<1>2. ASSUME NEW x \in SUBSET (0..(h - 1)), NEW y \in SUBSET (0..(h - 1))
      PROVE  Xor(x, y) \in SUBSET (0..(h - 1)) /\ x \cup Shl(y, h) \in SUBSET (0..(2 * h - 1))
  <2>1. Xor(x, y) \in SUBSET (0..(h - 1))
    BY DEF Xor
  <2>2. \A i \in Shl(y, h) : i \in Int /\ 0 <= i /\ i <= 2 * h - 1
    BY DEF Shl
  <2>3. \A i \in x : i \in Int /\ 0 <= i /\ i <= 2 * h - 1
    OBVIOUS
  <2> DEFINE d == x \cup Shl(y, h)
             n == 2 * h - 1
  <2>4. n \in Int /\ \A i \in d : i \in Int /\ 0 <= i /\ i <= n
    BY <2>2, <2>3
  <2>5. d \in SUBSET (0..n)
    <3> HIDE DEF d, n
    <3> QED BY <2>4
  <2> QED BY <2>1, <2>5
<1> QED BY <1>1, <1>2

\* m gives a COMPOSITE field the product of a and b that r gives the reference.
MultipliesAs(g, h, m, r, a, b) ==
    /\ CompositeMultiply(h, g.poly, m, a, b) = RefOver(g, r, a, b)
    /\ CompositeMultiply(h, g.poly, m, a, b) \in SUBSET (0..(2 * h - 1))

\* The multiplication of a COMPOSITE field with two multiplications below it
\* that are the same is the reference's.
LEMMA SameHalves ==
    ASSUME NEW g, NEW h \in Nat \ {0}, g.w = 2 * h, g.w \div 2 = h, g.mult = "COMPOSITE",
           g.poly \in SUBSET (0..(h - 1)), NEW m, NEW r,
           \A x, y \in SUBSET (0..(h - 1)) : m[<<x, y>>] = r[<<x, y>>] /\ m[<<x, y>>] \in SUBSET (0..(h - 1)),
           NEW a \in SUBSET (0..(2 * h - 1)), NEW b \in SUBSET (0..(2 * h - 1))
    PROVE  MultipliesAs(g, h, m, r, a, b)
<1> DEFINE W == SUBSET (0..(h - 1))
           a0 == Cut(a, h)
           a1 == Shr(a, h)
           b0 == Cut(b, h)
           b1 == Shr(b, h)
           s == g.poly
           high == m[<<a1, b1>>]
           low == Xor(m[<<a0, b0>>], high)
           mid == Xor(Xor(m[<<a1, b0>>], m[<<a0, b1>>]), m[<<high, s>>])
           mid2 == Xor(Xor(r[<<a0, b1>>], r[<<a1, b0>>]), r[<<high, s>>])
<1>1. a0 \in W /\ a1 \in W /\ b0 \in W /\ b1 \in W /\ s \in W
  BY Halves
<1>2. CompositeMultiply(h, s, m, a, b) = low \cup Shl(mid, h)
  BY DEF CompositeMultiply
<1>3. RefOver(g, r, a, b) = Xor(r[<<a0, b0>>], r[<<a1, b1>>])
                              \cup Shl(Xor(Xor(r[<<a0, b1>>], r[<<a1, b0>>]), r[<<r[<<a1, b1>>], s>>]), h)
  BY DEF RefOver
<1> HIDE DEF a0, a1, b0, b1, s
<1>4. m[<<a1, b1>>] = r[<<a1, b1>>] /\ high \in W
  BY <1>1
<1>5. m[<<a0, b0>>] = r[<<a0, b0>>] /\ m[<<a0, b0>>] \in W
  BY <1>1
<1>6. m[<<a1, b0>>] = r[<<a1, b0>>] /\ m[<<a1, b0>>] \in W
  BY <1>1
<1>7. m[<<a0, b1>>] = r[<<a0, b1>>] /\ m[<<a0, b1>>] \in W
  BY <1>1
<1>8. m[<<high, s>>] = r[<<high, s>>] /\ m[<<high, s>>] \in W
  BY <1>1, <1>4
<1>9. \A x, y : Xor(x, y) = Xor(y, x)
  BY DEF Xor
<1>10. mid = mid2
  BY <1>6, <1>7, <1>8, <1>9
<1>11. low \in W /\ mid \in W
  <2>1. low \in W
    BY <1>4, <1>5, Halves
  <2>2. Xor(m[<<a1, b0>>], m[<<a0, b1>>]) \in W
    BY <1>6, <1>7, Halves
  <2>3. mid \in W
    BY <1>8, <2>2, Halves
  <2> QED BY <2>1, <2>3
<1>12. low = Xor(r[<<a0, b0>>], r[<<a1, b1>>])
  BY <1>4, <1>5
<1>13. low \cup Shl(mid, h) \in SUBSET (0..(2 * h - 1))
  <2> HIDE DEF low, mid, W
  <2> QED BY <1>11, Halves DEF W
<1>14. RefOver(g, r, a, b) = low \cup Shl(mid2, h)
  <2>1. r[<<a1, b1>>] = high
    BY <1>4
  <2> QED BY <1>3, <1>12, <2>1
<1> HIDE DEF low, mid, mid2
<1>15. CompositeMultiply(h, s, m, a, b) = RefOver(g, r, a, b)
  BY <1>2, <1>10, <1>14
<1>16. CompositeMultiply(h, s, m, a, b) \in SUBSET (0..(2 * h - 1))
  BY <1>2, <1>13
<1> QED BY <1>15, <1>16 DEF MultipliesAs, s

\* A base with a table is one that is made by itself, and its table holds the
\* products.
LEMMA BaseTableIs ==
    ASSUME NEW b, Layer(b), ~WrongProduct(b), BaseTable(b) = "table", NEW q,
           NEW x \in Words(FieldOf(b)), NEW y \in Words(FieldOf(b))
    PROVE  /\ b.w = 4 => GfW4SingleTable(FieldOf(b))[<<x, y>>] = RefOn(b, q)[<<x, y>>]
           /\ b.w = 8 => Binary(LAMBDA u, v : GfW8TableMultiply(FieldOf(b), u, v))[<<x, y>>] = RefOn(b, q)[<<x, y>>]
<1>1. FieldKnown(b) /\ IsGF(FieldOf(b)) /\ FieldOf(b).w = b.w
  BY FieldIsGF DEF Layer
<1>2. x \in SUBSET Nat /\ y \in SUBSET Nat
  BY <1>1, WordsAreBits
<1>3. b.mult # "COMPOSITE"
  <2>1. b.mult = "COMPOSITE" => b.w \in {8, 16} /\ b.f.multiply \in {"composite_recursive", "composite_inline"}
    BY DEF Layer, OnTopOf
  <2>2. \/ b.w = 4 /\ b.f.multiply = "single_table"
        \/ b.w = 8 /\ b.f.multiply \in {"default", "table"}
    BY DEF BaseTable
  <2> QED BY <2>1, <2>2
<1>4. RefOn(b, q)[<<x, y>>] = RefOver(b, q, x, y)
  BY <1>2 DEF RefOn, Binary, Bits
<1>5. RefOver(b, q, x, y) = Times(FieldOf(b), x, y)
  BY <1>3 DEF RefOver
<1>6. ASSUME b.w = 4 PROVE GfW4SingleTable(FieldOf(b))[<<x, y>>] = Times(FieldOf(b), x, y)
  <2>1. GfW4SingleTableMultiply(GfW4SingleTable(FieldOf(b)), x, y) = Times(FieldOf(b), x, y)
    BY <1>1, <1>6, TablesAreTimes
  <2> QED BY <2>1 DEF GfW4SingleTableMultiply
<1>7. ASSUME b.w = 8
      PROVE  Binary(LAMBDA u, v : GfW8TableMultiply(FieldOf(b), u, v))[<<x, y>>] = Times(FieldOf(b), x, y)
  <2>1. GfW8TableMultiply(FieldOf(b), x, y) = Times(FieldOf(b), x, y)
    BY <1>1, <1>7, TablesAreTimes
  <2>2. Binary(LAMBDA u, v : GfW8TableMultiply(FieldOf(b), u, v))[<<x, y>>] = GfW8TableMultiply(FieldOf(b), x, y)
    BY <1>2 DEF Binary, Bits
  <2> QED BY <2>1, <2>2
<1> QED BY <1>4, <1>5, <1>6, <1>7

\* A COMPOSITE field whose base multiplies as the reference does.
LEMMA CompositeIsRef ==
    ASSUME NEW g, Layer(g), g.mult = "COMPOSITE", Layer(g.base), ~WrongProduct(g.base), NEW P, NEW m, NEW q,
           Agree(g.base, m, RefOn(g.base, q)), NEW a \in Words(FieldOf(g)), NEW b \in Words(FieldOf(g))
    PROVE  /\ MultiplyWith(g, P, m, a, b) = RefOver(g, RefOn(g.base, q), a, b)
           /\ MultiplyWith(g, P, m, a, b) \in Words(FieldOf(g))
<1> DEFINE h == g.w \div 2
           r == RefOn(g.base, q)
           B == FieldOf(g.base)
<1>1. /\ g.w \in {8, 16} /\ g.base.w = h /\ g.poly \subseteq 0..(h - 1)
      /\ g.f.multiply \in {"composite_recursive", "composite_inline"}
      /\ g.f.multiply = "composite_inline" => BaseTable(g.base) = "table"
  BY DEF Layer, OnTopOf
<1>2. h \in Nat \ {0} /\ g.w = 2 * h
  BY <1>1
<1>3. Words(B) = SUBSET (0..(h - 1)) /\ Words(FieldOf(g)) = SUBSET (0..(2 * h - 1))
  BY <1>1, <1>2, FieldIsGF DEF Words, Layer
<1>4. \A x, y \in Words(B) : m[<<x, y>>] = r[<<x, y>>] /\ m[<<x, y>>] \in Words(B)
  BY DEF Agree
<1>5. ASSUME NEW t, \A x, y \in Words(B) : t[<<x, y>>] = r[<<x, y>>]
      PROVE  /\ CompositeMultiply(h, g.poly, t, a, b) = RefOver(g, r, a, b)
             /\ CompositeMultiply(h, g.poly, t, a, b) \in Words(FieldOf(g))
  <2>1. \A x, y \in SUBSET (0..(h - 1)) : t[<<x, y>>] = r[<<x, y>>] /\ t[<<x, y>>] \in SUBSET (0..(h - 1))
    BY <1>3, <1>4, <1>5
  <2>2. a \in SUBSET (0..(2 * h - 1)) /\ b \in SUBSET (0..(2 * h - 1)) /\ g.poly \in SUBSET (0..(h - 1)) /\ g.w \div 2 = h
    BY <1>1, <1>3
  <2> HIDE DEF h, r
  <2>3. h \in Nat \ {0} /\ g.w = 2 * h /\ g.mult = "COMPOSITE"
    BY <1>2
  <2>4. MultipliesAs(g, h, t, r, a, b)
    BY ONLY <2>1, <2>2, <2>3, SameHalves
  <2> QED BY <1>3, <2>4 DEF MultipliesAs
<1>6. CASE g.f.multiply = "composite_recursive"
  <2>1. MultiplyWith(g, P, m, a, b) = CompositeMultiply(h, g.poly, m, a, b)
    <3>1. CASE g.w = 8
      BY <1>6, <3>1 DEF MultiplyWith, W8Multiply, GfW8CompositeMultiplyRecursive
    <3>2. CASE g.w = 16
      BY <1>6, <3>2 DEF MultiplyWith, W16Multiply, GfW16CompositeMultiplyRecursive
    <3> QED BY <1>1, <3>1, <3>2
  <2> QED BY <1>4, <1>5, <2>1
<1>7. CASE g.f.multiply = "composite_inline" /\ g.w = 8
  <2> DEFINE t == GfW4SingleTable(B)
  <2>1. MultiplyWith(g, P, m, a, b) = CompositeMultiply(h, g.poly, t, a, b)
    BY <1>7 DEF MultiplyWith, W8Multiply, GfW8CompositeMultiplyInline
  <2>2. \A x, y \in Words(B) : t[<<x, y>>] = r[<<x, y>>]
    <3> SUFFICES ASSUME NEW x \in Words(B), NEW y \in Words(B) PROVE t[<<x, y>>] = r[<<x, y>>]
      OBVIOUS
    <3>1. g.base.w = 4 /\ BaseTable(g.base) = "table"
      BY <1>1, <1>7
    <3> QED BY <3>1, BaseTableIs, ZenonT(30)
  <2> HIDE DEF t, r, B
  <2> QED BY <1>5, <2>1, <2>2 DEF r
<1>8. CASE g.f.multiply = "composite_inline" /\ g.w = 16
  <2> DEFINE t == Binary(LAMBDA u, v : GfW8TableMultiply(FieldOf(g.base), u, v))
  <2>1. MultiplyWith(g, P, m, a, b) = CompositeMultiply(h, g.poly, t, a, b)
    BY <1>8 DEF MultiplyWith, W16Multiply, GfW16CompositeMultiplyInline
  <2>2. \A x, y \in Words(B) : t[<<x, y>>] = r[<<x, y>>]
    <3> SUFFICES ASSUME NEW x \in Words(B), NEW y \in Words(B) PROVE t[<<x, y>>] = r[<<x, y>>]
      OBVIOUS
    <3>1. g.base.w = 8 /\ BaseTable(g.base) = "table"
      BY <1>1, <1>8
    <3> QED BY <3>1, BaseTableIs, ZenonT(30)
  <2> HIDE DEF t, r, B
  <2> QED BY <1>5, <2>1, <2>2 DEF r
<1> QED BY <1>1, <1>6, <1>7, <1>8

\* One layer more.
LEMMA CompositeAgrees ==
    ASSUME NEW g, Layer(g), g.mult = "COMPOSITE", Layer(g.base), ~WrongProduct(g.base), NEW m, NEW q,
           Agree(g.base, m, RefOn(g.base, q))
    PROVE  Agree(g, MultOn(g, m), RefOn(g, RefOn(g.base, q)))
<1> SUFFICES ASSUME NEW a \in Words(FieldOf(g)), NEW b \in Words(FieldOf(g))
             PROVE  /\ MultOn(g, m)[<<a, b>>] = RefOn(g, RefOn(g.base, q))[<<a, b>>]
                    /\ MultOn(g, m)[<<a, b>>] \in Words(FieldOf(g))
  BY DEF Agree
<1> DEFINE r == RefOn(g.base, q)
<1> HIDE DEF r
<1>2. a \in SUBSET Nat /\ b \in SUBSET Nat
  BY WordsAreBits DEF Layer
<1>3. MultOn(g, m)[<<a, b>>] = MultiplyWith(g, PowersOf(FieldOf(g)), m, a, b)
  BY <1>2 DEF MultOn, Binary, Bits
<1>4. RefOn(g, r)[<<a, b>>] = RefOver(g, r, a, b)
  BY <1>2 DEF RefOn, Binary, Bits
<1>5. /\ MultiplyWith(g, PowersOf(FieldOf(g)), m, a, b) = RefOver(g, r, a, b)
      /\ MultiplyWith(g, PowersOf(FieldOf(g)), m, a, b) \in Words(FieldOf(g))
  BY CompositeIsRef DEF r
<1> QED BY <1>3, <1>4, <1>5 DEF r

\* What lies below a COMPOSITE field multiplies as the reference does.
LEMMA BelowAgrees ==
    ASSUME NEW g, Chain(g), g.mult = "COMPOSITE", Computes(g)
    PROVE  \E q : Mult(g.base) = MultOn(g.base, q) /\ \E p : /\ Over(RefOn, g.base) = RefOn(g.base, p)
                                                         /\ Agree(g.base, Mult(g.base), RefOn(g.base, p))
<1> DEFINE b == g.base
           c == g.base.base
           q2 == MultOn(c.base, MultOn(c.base.base, MultOn(c.base.base.base, <<>>)))
           p2 == RefOn(c.base, RefOn(c.base.base, RefOn(c.base.base.base, <<>>)))
<1>1. Mult(b) = MultOn(b, MultOn(c, q2))
  BY DEF Mult, Over
<1>2. Over(RefOn, b) = RefOn(b, RefOn(c, p2))
  BY DEF Over
<1>3. Layer(g) /\ Layer(b) /\ (b.mult = "COMPOSITE" => Layer(c))
  BY DEF Chain
<1>4. ~WrongProduct(b) /\ (b.mult = "COMPOSITE" => ~WrongProduct(c))
  BY DEF Computes, Layers, Lower
<1> HIDE DEF q2, p2
<1>5. CASE b.mult # "COMPOSITE"
  <2>1. Agree(b, MultOn(b, MultOn(c, q2)), RefOn(b, RefOn(c, p2)))
    BY <1>3, <1>4, <1>5, PlainAgrees
  <2> QED BY <1>1, <1>2, <2>1
<1>6. CASE b.mult = "COMPOSITE"
  <2>1. b.w \in {4, 8} /\ c.w = b.w \div 2 /\ b.w \in {8, 16}
    BY <1>3, <1>6 DEF Layer, OnTopOf
  <2>2. c.mult # "COMPOSITE"
    BY <1>3, <1>6, <2>1 DEF Layer, FieldKnown
  <2>3. Agree(c, MultOn(c, q2), RefOn(c, p2))
    BY <1>3, <1>4, <1>6, <2>2, PlainAgrees
  <2>4. Agree(b, MultOn(b, MultOn(c, q2)), RefOn(b, RefOn(c, p2)))
    BY <1>3, <1>4, <1>6, <2>3, CompositeAgrees
  <2> QED BY <1>1, <1>2, <2>4
<1> QED BY <1>5, <1>6

\* Whatever is made of fields on top of each other, multiply returns the product:
\* polynomials reduced by the field's own, or of polynomials over the base.
THEOREM EveryFieldMultiplies ==
    ASSUME NEW g, Chain(g), Computes(g), NEW a \in Words(FieldOf(g)), NEW b \in Words(FieldOf(g))
    PROVE  Multiply(g, a, b) = Ref(g, a, b) /\ Ref(g, a, b) \in Words(FieldOf(g))
<1> DEFINE P == PowersOf(FieldOf(g))
<1>1. Layer(g) /\ FieldKnown(g)
  BY DEF Chain, Layer
<1>2. Multiply(g, a, b) = MultiplyWith(g, P, Mult(g.base), a, b)
  BY DEF Multiply
<1>3. Ref(g, a, b) = RefOver(g, Over(RefOn, g.base), a, b)
  BY DEF Ref
<1>4. CASE g.mult # "COMPOSITE"
  <2>1. ~WrongProduct(g)
    BY DEF Computes, Layers
  <2>2. Built(g)
    BY <1>1, <1>4 DEF Layer
  <2>3. MultiplyWith(g, P, Mult(g.base), a, b) = Times(FieldOf(g), a, b)
    BY <1>1, <1>4, <2>1, <2>2, EveryMethodIsTimes
  <2>4. RefOver(g, Over(RefOn, g.base), a, b) = Times(FieldOf(g), a, b)
    BY <1>4 DEF RefOver
  <2>5. Times(FieldOf(g), a, b) \in Words(FieldOf(g))
    BY <1>1, FieldIsGF, WordSums
  <2> QED BY <1>2, <1>3, <2>3, <2>4, <2>5
<1>5. CASE g.mult = "COMPOSITE"
  <2>1. PICK q : /\ Over(RefOn, g.base) = RefOn(g.base, q)
                 /\ Agree(g.base, Mult(g.base), RefOn(g.base, q))
    BY <1>5, BelowAgrees
  <2>2. Layer(g.base) /\ ~WrongProduct(g.base)
    BY <1>5 DEF Chain, Computes, Layers, Lower
  <2>3. /\ MultiplyWith(g, P, Mult(g.base), a, b) = RefOver(g, RefOn(g.base, q), a, b)
        /\ MultiplyWith(g, P, Mult(g.base), a, b) \in Words(FieldOf(g))
    BY <1>1, <1>5, <2>1, <2>2, CompositeIsRef
  <2> QED BY <1>2, <1>3, <2>1, <2>3
<1> QED BY <1>4, <1>5

-----------------------------------------------------------------------------
(* What gf_init_hard gives a field is what its multiplication needs. *)

\* A field that can be multiplied in, and on top of which there can be another.
Multiplies(g) == g # NoField /\ g.f.ok /\ g.f.multiply # "NULL"

\* The multiplications depend on the width, the method and its arguments alone.
LEMMA SameNames ==
    ASSUME NEW m, NEW g, g.w = m.w, g.mult = m.mult, g.arg1 = m.arg1, g.arg2 = m.arg2, NEW F, NEW P, NEW q
    PROVE  Names(g, F, P, q) = Names(m, F, P, q)
<1>1. W4Names(g, P) = W4Names(m, P)
  BY DEF W4Names
<1>2. W8Names(g, F, P) = W8Names(m, F, P)
  BY DEF W8Names
<1>3. W16Names(g, F, q) = W16Names(m, F, q)
  BY DEF W16Names
<1>4. WgenNames(g, q) = WgenNames(m, q)
  BY DEF WgenNames
<1> QED BY <1>1, <1>2, <1>3, <1>4 DEF Names

\* CARRY_FREE of 4 bits: gf_error_check refuses x^2 and x^3.
LEMMA CarryFreeOfFour ==
    ASSUME NEW m, m.w = 4, m.mult = "CARRY_FREE", NEW poly, NEW base, NEW build,
           GfErrorCheck(m, poly, base, build)
    PROVE  PolyField(m, poly, base).poly \cap (2..3) = {}
<1> DEFINE F == PolyField(m, poly, base)
<1>1. MethodAllowed(m, poly, base, build)
  BY DEF GfErrorCheck, TableFlagsAllowed
<1>2. poly \cap HighTerms(m.w) = {}
  BY <1>1 DEF MethodAllowed
<1>3. HighTerms(4) = 2..3
  BY DEF HighTerms
<1>4. F.poly = IF poly = {} THEN {0, 1} ELSE {i \in poly : i < 4}
  BY DEF PolyField, PolyOf, DefaultPoly, GfW4DefaultPoly, Cut, Zero
<1>5. {0, 1} \cap (2..3) = {}
  OBVIOUS
<1>6. {i \in poly : i < 4} \cap (2..3) = {}
  BY <1>2, <1>3
<1> QED BY <1>4, <1>5, <1>6

\* GROUP: gf_error_check lets through no more bits than the word has.
LEMMA GroupWithin ==
    ASSUME NEW m, m.w \in 1..31, m.mult = "GROUP", m.arg1 \in Nat, m.arg2 \in Nat, NEW poly, NEW base, NEW build,
           GfErrorCheck(m, poly, base, build)
    PROVE  m.arg1 \in 1..m.w /\ m.arg2 \in 1..m.w
<1>1. MethodAllowed(m, poly, base, build)
  BY DEF GfErrorCheck, TableFlagsAllowed
<1>2. GroupAllowed(m)
  BY <1>1 DEF MethodAllowed
<1>3. m.arg1 > 0 /\ m.arg2 > 0 /\ m.arg1 <= m.w /\ m.arg2 <= m.w
  BY <1>2 DEF GroupAllowed
<1> QED BY <1>3

\* COMPOSITE: the base is half as wide, and s one of its words.
LEMMA CompositePolyWithin ==
    ASSUME NEW m, m.w \in 1..31, m.mult = "COMPOSITE", NEW poly \in Bits, NEW base, base # NoField, NEW build,
           GfErrorCheck(m, poly, base, build)
    PROVE  /\ m.w \in {8, 16} /\ base.w = m.w \div 2
           /\ PolyField(m, poly, base).poly \subseteq 0..(m.w \div 2 - 1)
<1>1. MethodAllowed(m, poly, base, build)
  BY DEF GfErrorCheck, TableFlagsAllowed
<1>2. CompositeAllowed(m, poly, base)
  BY <1>1 DEF MethodAllowed
<1>3. m.w \in {8, 16} /\ base.w = m.w \div 2 /\ Shr(poly, m.w \div 2) = Zero
  BY <1>2 DEF CompositeAllowed
<1>4. base.w \in {4, 8}
  BY <1>3
<1>5. GfCompositeGetDefaultPoly(base) \subseteq 0..(base.w - 1)
  BY <1>4, CompositeWithin
<1>6. \A i \in poly : i \in Nat /\ ~(i >= m.w \div 2)
  BY <1>3 DEF Shr, Zero, Bits
<1>7. poly \subseteq 0..(m.w \div 2 - 1)
  BY <1>3, <1>6
<1>8. PolyField(m, poly, base).poly = IF poly = Zero THEN GfCompositeGetDefaultPoly(base) ELSE poly
  BY DEF PolyField, PolyOf, DefaultPoly
<1> QED BY <1>3, <1>5, <1>7, <1>8

\* COMPOSITE: which multiplication the init functions choose.
LEMMA CompositeIsInit ==
    ASSUME NEW m, m.w \in {8, 16}, m.mult = "COMPOSITE", m.divide \in Divisions, NEW F, NEW base, base # NoField,
           NEW build, NEW P, NEW q
    PROVE  Complete(WidthInit(m, F, base, build, P, q),
                    IF BaseTable(base) = "table" THEN "composite_inline" ELSE "composite_recursive", "composite")
<1> DEFINE mu == IF BaseTable(base) = "table" THEN "composite_inline" ELSE "composite_recursive"
           f == WidthInit(m, F, base, build, P, q)
<1>1. BaseTable(base) # "NULL"
  BY DEF BaseTable
<1>2. CASE m.w = 8
  <2>1. f = Completed(m, GfW8CompositeInit(m, BaseTable(base)))
    BY <1>2 DEF WidthInit, GfW8Init
  <2>2. \E r : GfW8CompositeInit(m, BaseTable(base)) = Chosen(mu, "NULL", "composite", r, "composite")
    BY <1>1 DEF GfW8CompositeInit
  <2> HIDE DEF mu, f
  <2>3. Complete(f, mu, "composite")
    BY <2>1, <2>2, ChosenIsComplete
  <2> QED BY <2>3 DEF mu, f
<1>3. CASE m.w = 16
  <2>1. f = Completed(m, GfW16CompositeInit(m, BaseTable(base)))
    BY <1>3 DEF WidthInit, GfW16Init
  <2>2. \E r : GfW16CompositeInit(m, BaseTable(base)) = Chosen(mu, "NULL", "composite", r, "composite")
    BY <1>1 DEF GfW16CompositeInit
  <2> HIDE DEF mu, f
  <2>3. Complete(f, mu, "composite")
    BY <2>1, <2>2, ChosenIsComplete
  <2> QED BY <2>3 DEF mu, f
<1> QED BY <1>2, <1>3

\* A settled field with a multiplication has one of the names.
LEMMA SettledIsNamed ==
    ASSUME NEW f, NEW z, NEW fails, NEW names, Settled(f, z, fails, names), f.ok, f.multiply # "NULL"
    PROVE  f.multiply \in names
<1>1. f # Failed
  BY FailedIs
<1> QED BY <1>1 DEF Settled, Complete

\* gf_init_hard: a field that can be multiplied in has what that needs.
LEMMA MadeIsLayer ==
    ASSUME NEW m \in Settings, NEW poly \in Bits, NEW base, NEW build, FieldAssumption,
           GfErrorCheck(m, poly, base, build), Asked(m, poly, base)
    PROVE  LET F == PolyField(m, poly, base)
               g == GfInitHard(m, poly, base, build, PowersOf(F), Primitive(F))
           IN  Multiplies(g) => Layer(g) /\ g.mult = m.mult /\ g.base = base
<1> DEFINE F == PolyField(m, poly, base)
           f == WidthInit(m, F, base, build, PowersOf(F), Primitive(F))
           z == GfScratchSize(m, build)
           g == GfInitHard(m, poly, base, build, PowersOf(F), Primitive(F))
<1> SUFFICES ASSUME Multiplies(g) PROVE Layer(g) /\ g.mult = m.mult /\ g.base = base
  OBVIOUS
<1>1. m.w \in 1..31 /\ m.mult \in Multiplications /\ m.arg1 \in Nat /\ m.arg2 \in Nat
  BY DEF FieldAssumption
<1>2. m.mult = "COMPOSITE" => base # NoField
  BY DEF Asked
<1>3. F.w = m.w /\ F.poly \subseteq 0..(m.w - 1) /\ F = [w |-> m.w, poly |-> F.poly]
  <2>1. F.w = m.w /\ F.poly \subseteq 0..(m.w - 1)
    BY <1>1, <1>2, PolyWithin
  <2> QED BY <2>1 DEF PolyField
<1>4. IsGF(F)
  BY <1>1, <1>3 DEF IsGF
<1>5. FieldKnown(g)
  BY MadeIsReady DEF Multiplies
<1>6. g = [w |-> m.w, mult |-> m.mult, arg1 |-> m.arg1, arg2 |-> m.arg2,
           poly |-> F.poly, alt |-> "ALTMAP" \in m.region, base |-> base, f |-> f]
  BY DEF GfInitHard, Multiplies
<1> HIDE DEF f, g, F
<1>7. g.w = m.w /\ g.mult = m.mult /\ g.arg1 = m.arg1 /\ g.arg2 = m.arg2 /\ g.poly = F.poly /\ g.base = base /\ g.f = f
  BY <1>6
<1>8. FieldOf(g) = F
  BY <1>3, <1>7 DEF FieldOf
<1>9. f.ok /\ f.multiply # "NULL"
  BY <1>7 DEF Multiplies
<1>10. ASSUME m.mult # "COMPOSITE" PROVE Built(g)
  <2>1. F \in KnownFields
    <3>1. PICK Q \in Polys : Q.w = m.w /\ Q.poly = poly /\ base = NoField
      BY <1>10 DEF Asked
    <3> QED BY <1>1, <1>10, <3>1, MadeIsKnown DEF F
  <2> DEFINE q == XHasFullOrder(F)
             fails == MethodFails(m, F, PowersOf(F), q, build)
             names == Names(m, F, PowersOf(F), q)
  <2>2. Primitive(F) = q
    BY <1>1, <1>3, <1>4, <2>1, KnownArePlain
  <2>3. q \in BOOLEAN
    BY DEF XHasFullOrder
  <2>4. Settled(WidthInit(m, F, base, build, PowersOf(F), q), z, fails, names)
    BY <1>1, <1>2, <2>3, Chooses DEF F
  <2>5. Settled(f, z, fails, names)
    BY <2>2, <2>4 DEF f
  <2>6. f.multiply \in names
    <3> HIDE DEF z, fails, names
    <3> QED BY <1>9, <2>5, SettledIsNamed
  <2>7. Names(g, F, PowersOf(F), q) = names
    BY <1>7, SameNames
  <2>8. g.mult = "CARRY_FREE" /\ g.w = 4 => F.poly \cap (2..3) = {}
    BY <1>7, CarryFreeOfFour DEF F
  <2>9. g.mult = "GROUP" => g.arg1 \in 1..g.w /\ g.arg2 \in 1..g.w
    BY <1>1, <1>7, GroupWithin
  <2>10. g.f.multiply \in Names(g, FieldOf(g), PowersOf(FieldOf(g)), XHasFullOrder(FieldOf(g)))
    BY <1>7, <1>8, <2>6, <2>7
  <2> QED BY <1>8, <2>8, <2>9, <2>10 DEF Built
<1>11. ASSUME m.mult = "COMPOSITE" PROVE OnTopOf(g)
  <2>1. base # NoField
    BY <1>2, <1>11
  <2>2. m.w \in {8, 16} /\ base.w = m.w \div 2 /\ F.poly \subseteq 0..(m.w \div 2 - 1)
    BY <1>1, <1>11, <2>1, CompositePolyWithin DEF F
  <2>3. m.divide \in Divisions
    BY DEF GfErrorCheck, Divisions
  <2>4. Complete(f, IF BaseTable(base) = "table" THEN "composite_inline" ELSE "composite_recursive", "composite")
    BY <1>11, <2>1, <2>2, <2>3, CompositeIsInit DEF f
  <2>5. f.multiply = IF BaseTable(base) = "table" THEN "composite_inline" ELSE "composite_recursive"
    BY <2>4 DEF Complete
  <2> QED BY <1>7, <2>1, <2>2, <2>5 DEF OnTopOf
<1>12. Layer(g)
  BY <1>5, <1>7, <1>10, <1>11 DEF Layer
<1> QED BY <1>7, <1>12

\* The inductive invariant of a program that multiplies in the fields it makes:
\* the field it has, and those below it, are as gf_init_hard leaves them.
ProductInv ==
    /\ FieldInv
    /\ Multiplies(field) => Chain(field)
    /\ multiplier # NotYet => Multiplies(field)

\* A field by itself, or on top of one that multiplies, has all below it.
LEMMA MadeIsChain ==
    ASSUME NEW m \in Settings, NEW poly \in Bits, NEW base, NEW build, FieldAssumption,
           GfErrorCheck(m, poly, base, build), Asked(m, poly, base), m.mult = "COMPOSITE" => Chain(base)
    PROVE  LET F == PolyField(m, poly, base)
               g == GfInitHard(m, poly, base, build, PowersOf(F), Primitive(F))
           IN  Multiplies(g) => Chain(g)
<1> DEFINE F == PolyField(m, poly, base)
           g == GfInitHard(m, poly, base, build, PowersOf(F), Primitive(F))
<1> SUFFICES ASSUME Multiplies(g) PROVE Chain(g)
  OBVIOUS
<1>1. Layer(g) /\ g.mult = m.mult /\ g.base = base
  BY MadeIsLayer
<1> HIDE DEF g
<1> QED BY <1>1 DEF Chain

\* What a call of gf_init_hard keeps.
LEMMA MakeKeepsProducts ==
    ASSUME FieldAssumption, FieldInv, multiplier = NotYet,
           NEW build, NEW m \in Settings, NEW poly \in Bits, NEW base, m.mult = "COMPOSITE" => Chain(base),
           Asked(m, poly, base), Make(build, m, poly, base)
    PROVE  ProductInv'
<1> DEFINE F == PolyField(m, poly, base)
           g == GfInitHard(m, poly, base, build, PowersOf(F), Primitive(F))
<1>1. FieldInv'
  BY MakeKeeps
<1>2. GfErrorCheck(m, poly, base, build) /\ field' = g /\ multiplier' = NotYet
  BY DEF Make
<1>3. Multiplies(g) => Chain(g)
  BY <1>2, MadeIsChain
<1> HIDE DEF g
<1>4. Multiplies(field') => Chain(field')
  BY <1>2, <1>3
<1> QED BY <1>1, <1>2, <1>4 DEF ProductInv

\* Every call keeps it.
LEMMA ProductStepInv == FieldAssumption /\ ProductInv /\ [FieldNext]_FieldVars => ProductInv'
<1> SUFFICES ASSUME FieldAssumption, ProductInv, [FieldNext]_FieldVars PROVE ProductInv'
  OBVIOUS
<1>0. /\ FieldInv
      /\ Multiplies(field) => Chain(field)
      /\ multiplier # NotYet => Multiplies(field)
      /\ multiplier # NotYet => asked = NoCall /\ field # NoField
  BY DEF ProductInv, FieldInv
<1>1. CASE MakeField
  <2>1. PICK build \in Builds, m \in Settings : \E P \in Polys :
            m.mult # "COMPOSITE" /\ P.w = m.w /\ Make(build, m, P.poly, NoField)
    BY <1>1 DEF MakeField
  <2>2. PICK P \in Polys : m.mult # "COMPOSITE" /\ P.w = m.w /\ Make(build, m, P.poly, NoField)
    BY <2>1
  <2>3. P.poly \in Bits /\ Asked(m, P.poly, NoField)
    BY <2>2 DEF Asked, FieldAssumption, Bits
  <2>4. multiplier = NotYet
    BY <1>0, <1>1 DEF MakeField
  <2> QED BY <1>0, <2>2, <2>3, <2>4, MakeKeepsProducts
<1>2. CASE MakeComposite
  <2>1. PICK m \in Settings, poly \in CompositePolys : m.mult = "COMPOSITE" /\ Make(asked.build, m, poly, field)
    BY <1>2 DEF MakeComposite
  <2>2. poly \in Bits /\ Asked(m, poly, field)
    BY <1>2, <2>1 DEF Asked, FieldAssumption, MakeComposite
  <2>3. multiplier = NotYet
    BY <1>0, <1>2 DEF MakeComposite
  <2>4. Chain(field)
    BY <1>0, <1>2 DEF MakeComposite, Multiplies
  <2> QED BY <1>0, <2>1, <2>2, <2>3, <2>4, MakeKeepsProducts
<1>3. CASE TakeFirst
  <2>1. FieldInv'
    BY <1>0, FieldStepInv
  <2>2. field' = field /\ Multiplies(field)
    BY <1>3 DEF TakeFirst, Multiplies
  <2> QED BY <1>0, <2>1, <2>2 DEF ProductInv
<1>4. CASE TakeSecond
  <2>1. FieldInv'
    BY <1>0, FieldStepInv
  <2>2. field' = field /\ multiplier' = multiplier
    BY <1>4 DEF TakeSecond
  <2> QED BY <1>0, <2>1, <2>2 DEF ProductInv
<1>5. CASE UNCHANGED FieldVars
  <2>1. FieldInv'
    BY <1>0, FieldStepInv
  <2>2. field' = field /\ multiplier' = multiplier
    BY <1>5 DEF FieldVars
  <2> QED BY <1>0, <2>1, <2>2 DEF ProductInv
<1> QED BY <1>1, <1>2, <1>3, <1>4, <1>5 DEF FieldNext

\* Through whichever function gf_init_hard stored, multiply returns the product
\* of its two words: in every field of up to 31 bits, with every polynomial,
\* method, table and instruction set that gf_error_check lets through, and in
\* every field on top of it, the documented mistakes (WrongProduct) apart.
THEOREM ProductsAlwaysAgree == FieldSpec => []ProductsAgree
<1>1. ProductInv => ProductsAgree
  <2> SUFFICES ASSUME ProductInv, operand # NotYet, Computes(field)
               PROVE  Multiply(field, multiplier, operand) = Ref(field, multiplier, operand)
    BY DEF ProductsAgree
  <2>1. multiplier # NotYet /\ Chain(field) /\ FieldTypeOK
    BY DEF ProductInv, FieldInv, AcceptedIsReady
  <2>2. FieldOf(field).w = field.w
    BY DEF FieldOf
  <2>3. multiplier \in Words(FieldOf(field)) /\ operand \in Words(FieldOf(field))
    BY <2>1, <2>2 DEF FieldTypeOK, Words
  <2> QED BY <2>1, <2>3, EveryFieldMultiplies
<1>2. FieldInit => ProductInv
  <2> SUFFICES ASSUME FieldInit PROVE ProductInv
    OBVIOUS
  <2>1. FieldInv /\ field = NoField /\ multiplier = NotYet
    BY FieldInitInv DEF FieldInit
  <2> QED BY <2>1 DEF ProductInv, Multiplies
<1>3. ProductInv /\ [FieldNext]_FieldVars => ProductInv'
  BY FieldAssumption, ProductStepInv
<1> QED BY <1>1, <1>2, <1>3, PTL DEF FieldSpec


-----------------------------------------------------------------------------
(* Regions: words that consist of smaller words. *)

\* The words of a word c times as wide are the next c words.
LEMMA NestedWords ==
    ASSUME NEW w \in Nat \ {0}, NEW c \in Nat \ {0}, NEW v, v = c * w, NEW x \in SUBSET Nat, NEW k \in Nat,
           NEW j \in 0..(c - 1)
    PROVE  /\ WordAt(v, x, k) \in SUBSET Nat
           /\ WordAt(w, WordAt(v, x, k), j) = WordAt(w, x, c * k + j)
<1> DEFINE a == WordAt(v, x, k)
           b == WordAt(w, a, j)
           d == WordAt(w, x, c * k + j)
<1>1. v \in Nat \ {0}
  OBVIOUS
<1> DEFINE jw == j * w
           kv == k * v
           n == c * k + j
           nw == n * w
<1>2. jw \in Nat /\ kv \in Nat /\ jw + w <= v /\ n \in Nat /\ nw = kv + jw
  <2>1. jw \in Nat /\ n \in Nat /\ kv \in Nat
    BY <1>1
  <2>2. (j + 1) * w <= c * w /\ (j + 1) * w = jw + w
    OBVIOUS
  <2>3. nw = (c * k) * w + jw
    OBVIOUS
  <2>4. (c * k) * w = k * (c * w)
    OBVIOUS
  <2> QED BY <2>1, <2>2, <2>3, <2>4
<1>3. a \in SUBSET (0..(v - 1)) /\ \A i \in 0..(v - 1) : i \in a <=> kv + i \in x
  BY <1>1, InWordAt
<1>4. a \in SUBSET Nat
  BY <1>1, <1>3
<1> HIDE DEF a
<1>j. j \in Nat
  OBVIOUS
<1>5. b \in SUBSET (0..(w - 1)) /\ \A i \in 0..(w - 1) : i \in b <=> jw + i \in a
  <2>1. \A y \in SUBSET Nat : \A l \in Nat : WordAt(w, y, l) \in SUBSET (0..(w - 1))
                                    /\ \A i \in 0..(w - 1) : i \in WordAt(w, y, l) <=> l * w + i \in y
    BY InWordAt
  <2> QED BY <1>4, <1>j, <2>1, Zenon DEF b, jw
<1>6. d \in SUBSET (0..(w - 1)) /\ \A i \in 0..(w - 1) : i \in d <=> nw + i \in x
  BY <1>2, InWordAt
<1> HIDE DEF jw, kv, n, nw, b, d
<1>7. \A i \in 0..(w - 1) : jw + i \in 0..(v - 1) /\ kv + (jw + i) = nw + i
  BY <1>1, <1>2
<1>8. \A i \in 0..(w - 1) : i \in b <=> i \in d
  BY <1>3, <1>5, <1>6, <1>7
<1>9. b = d
  BY <1>5, <1>6, <1>8, SameWord
<1> QED BY <1>1, <1>4, <1>9 DEF a, b, d, n

\* The words of y are what op makes of those of x.
WordsBecome(w, op, x, y) == y \in SUBSET Nat /\ \A k \in Nat : WordAt(w, y, k) = op[WordAt(w, x, k)]

\* The words of what PerWord yields, for every operation on words.
LEMMA PerWordIs ==
    \A w \in Nat \ {0} : \A x \in SUBSET Nat : \A op : WordOp(w, op) => WordsBecome(w, op, x, PerWord(w, x, op))
<1> SUFFICES ASSUME NEW w \in Nat \ {0}, NEW x \in SUBSET Nat, NEW op, WordOp(w, op)
             PROVE  /\ PerWord(w, x, op) \in SUBSET Nat
                    /\ \A k \in Nat : WordAt(w, PerWord(w, x, op), k) = op[WordAt(w, x, k)]
  BY Zenon DEF WordsBecome
<1>1. op[{}] = {} /\ \A s \in SUBSET (0..(w - 1)) : op[s] \in SUBSET (0..(w - 1))
  BY DEF WordOp
<1>2. 0 \in Nat
  OBVIOUS
<1> QED BY <1>1, <1>2, WordOfPerWord

\* What wide does to a word is what op does to each of the c words in it.
Widely(w, c, op, wide) ==
    \A s \in SUBSET (0..(c * w - 1)) :
        /\ wide[s] \in SUBSET (0..(c * w - 1))
        /\ \A j \in 0..(c - 1) : WordAt(w, wide[s], j) = op[WordAt(w, s, j)]

\* Every number is one of c that follow each other.
LEMMA InGroups ==
    ASSUME NEW c \in Nat \ {0}, NEW n \in Nat
    PROVE  \E k \in Nat : \E j \in 0..(c - 1) : n = c * k + j
BY DivMod

\* The words in a region whose wider words become what wide makes of them.
LEMMA WordsInWider ==
    ASSUME NEW w \in Nat \ {0}, NEW c \in Nat \ {0}, NEW v, v = c * w, NEW x \in SUBSET Nat, NEW op, NEW wide,
           Widely(w, c, op, wide), NEW y, WordsBecome(v, wide, x, y)
    PROVE  WordsBecome(w, op, x, y)
<1>1. v \in Nat \ {0}
  OBVIOUS
<1>4. y \in SUBSET Nat /\ \A k \in Nat : WordAt(v, y, k) = wide[WordAt(v, x, k)]
  BY DEF WordsBecome
<1>5. ASSUME NEW n \in Nat
      PROVE  WordAt(w, y, n) = op[WordAt(w, x, n)]
  <2>1. PICK k \in Nat, j \in 0..(c - 1) : n = c * k + j
    BY InGroups
  <2>2. \A z \in SUBSET Nat : WordAt(w, WordAt(v, z, k), j) = WordAt(w, z, n)
    BY <2>1, NestedWords
  <2>3. WordAt(v, x, k) \in SUBSET (0..(v - 1))
    BY <1>1, InWordAt
  <2>4. WordAt(w, wide[WordAt(v, x, k)], j) = op[WordAt(w, WordAt(v, x, k), j)]
    BY <2>3 DEF Widely
  <2> QED BY <1>4, <2>2, <2>4
<1> QED BY <1>4, <1>5, Zenon DEF WordsBecome

\* Nothing becomes nothing.
LEMMA WidelyOfNone ==
    ASSUME NEW w \in Nat \ {0}, NEW c \in Nat \ {0}, NEW op, op[{}] = {}, NEW wide, Widely(w, c, op, wide)
    PROVE  wide[{}] = {}
<1>1. c * w - 1 \in Int /\ {} \in SUBSET (0..(c * w - 1))
  OBVIOUS
<1>2. wide[{}] \in SUBSET (0..(c * w - 1)) /\ \A j \in 0..(c - 1) : WordAt(w, wide[{}], j) = op[WordAt(w, {}, j)]
  BY <1>1 DEF Widely
<1>3. \A j : WordAt(w, {}, j) = {}
  BY DEF WordAt
<1>4. ASSUME NEW i \in wide[{}]
      PROVE  FALSE
  <2>1. i \in Nat /\ i < c * w /\ wide[{}] \in SUBSET Nat
    BY <1>1, <1>2
  <2>2. i = w * (i \div w) + (i % w) /\ i % w \in 0..(w - 1) /\ i \div w \in Nat
    BY <2>1, DivMod
  <2> DEFINE q == i \div w
             r == i % w
  <2> HIDE DEF q, r
  <2>3. i = w * q + r /\ r \in 0..(w - 1) /\ q \in Nat
    BY <2>2 DEF q, r
  <2>4. q \in 0..(c - 1)
    <3>1. ~(q >= c)
      <4> SUFFICES ASSUME q >= c PROVE FALSE
        OBVIOUS
      <4>1. w * q >= w * c
        BY <2>3
      <4> QED BY <2>1, <2>3, <4>1
    <3> QED BY <2>3, <3>1
  <2>5. r \in WordAt(w, wide[{}], q) <=> q * w + r \in wide[{}]
    BY <2>1, <2>3, InWordAt
  <2>6. q * w + r = i
    BY <2>3
  <2> QED BY <1>2, <1>3, <2>4, <2>5, <2>6
<1> QED BY <1>4

\* The words of a region done several words at a time.
LEMMA WideWords ==
    ASSUME NEW w \in Nat \ {0}, NEW c \in Nat \ {0}, NEW v, v = c * w, NEW x \in SUBSET Nat, NEW op, NEW wide,
           Widely(w, c, op, wide), op[{}] = {}
    PROVE  WordsBecome(w, op, x, PerWord(v, x, wide))
<1>1. v \in Nat \ {0}
  OBVIOUS
<1>2. WordOp(v, wide)
  BY WidelyOfNone DEF Widely, WordOp
<1>3. WordsBecome(v, wide, x, PerWord(v, x, wide))
  BY <1>1, <1>2, PerWordIs, Zenon
<1> QED BY <1>3, WordsInWider

-----------------------------------------------------------------------------
(* Every multiplication of a region whose words follow each other. *)

\* A call for a region that suits vectors of every size the library has.
Regular(w, rd) == \A align \in {1, 2, 8, 16, 32} : align % WordBytes(w) = 0 => RegionCall(w, rd, align)

\* Of a field of F's width and polynomial: what the call leaves in the
\* destination is the product, word by word, written or added.
Multiplied(F, rd, out) ==
    out \in SUBSET Nat /\ \A k \in Nat : WordAt(F.w, out, k) = ProductStored(F, rd, k)

\* A call for a multiplication by a word of the field.
Multiplying(F, rd) == IsGF(F) /\ F.w \in {4, 8, 16} /\ Regular(F.w, rd) /\ rd.val \in Words(F)

\* What is known of such a call.
LEMMA MultiplyingIs ==
    ASSUME NEW F, NEW rd, Multiplying(F, rd)
    PROVE  /\ IsGF(F) /\ F.w \in {4, 8, 16} /\ rd.val \in Words(F) /\ F.w \in Nat \ {0}
           /\ rd.src \in SUBSET Nat /\ rd.dest \in SUBSET Nat /\ rd.xor \in BOOLEAN
           /\ RegionCall(F.w, rd, 16) /\ RegionCall(F.w, rd, 32) /\ RegionCall(F.w, rd, 8)
           /\ RegionCall(F.w, rd, 2) /\ (F.w # 16 => RegionCall(F.w, rd, 1))
<1>1. IsGF(F) /\ F.w \in {4, 8, 16} /\ rd.val \in Words(F) /\ F.w \in Nat \ {0} /\ Regular(F.w, rd)
  BY DEF Multiplying
<1>2. WordBytes(F.w) \in {1, 2} /\ (F.w # 16 => WordBytes(F.w) = 1)
  BY <1>1 DEF WordBytes
<1>3. 16 % WordBytes(F.w) = 0 /\ 32 % WordBytes(F.w) = 0 /\ 8 % WordBytes(F.w) = 0 /\ 2 % WordBytes(F.w) = 0
        /\ (F.w # 16 => 1 % WordBytes(F.w) = 0)
  BY <1>2
<1>4. /\ RegionCall(F.w, rd, 16) /\ RegionCall(F.w, rd, 32) /\ RegionCall(F.w, rd, 8)
      /\ RegionCall(F.w, rd, 2) /\ (F.w # 16 => RegionCall(F.w, rd, 1))
  BY <1>1, <1>3, Zenon DEF Regular
<1>5. rd.src \in SUBSET Nat /\ rd.dest \in SUBSET Nat /\ rd.xor \in BOOLEAN
  <2>1. rd.src \in SUBSET (0..(8 * rd.bytes - 1)) /\ rd.bytes \in Nat /\ rd.dest \in SUBSET Nat /\ rd.xor \in BOOLEAN
    BY <1>4 DEF RegionCall
  <2> QED BY <2>1
<1> QED BY <1>1, <1>4, <1>5, Zenon

\* A region of products, written or added.
LEMMA StoredIsTimes ==
    ASSUME NEW F, NEW rd, Multiplying(F, rd), NEW y, IsProduct(F, rd.val, rd.src, y)
    PROVE  Multiplied(F, rd, Stored(rd, y))
<1>1. IsGF(F) /\ F.w \in Nat \ {0} /\ rd.dest \in SUBSET Nat /\ rd.xor \in BOOLEAN
  BY MultiplyingIs
<1>2. y \in SUBSET Nat /\ \A k \in Nat : WordAt(F.w, y, k) = Times(F, rd.val, WordAt(F.w, rd.src, k))
  BY DEF IsProduct
<1>3. \A k \in Nat : WordAt(F.w, Xor(rd.dest, y), k) = Xor(WordAt(F.w, rd.dest, k), WordAt(F.w, y, k))
  BY <1>1, <1>2, WordAtXor
<1>4. ASSUME NEW k \in Nat
      PROVE  WordAt(F.w, Stored(rd, y), k) = ProductStored(F, rd, k)
  BY <1>1, <1>2, <1>3, Zenon DEF Stored, ProductStored
<1>5. Stored(rd, y) \in SUBSET Nat
  <2>1. Xor(rd.dest, y) \in SUBSET Nat
    BY <1>1, <1>2 DEF Xor
  <2> QED BY <1>2, <2>1 DEF Stored
<1> QED BY <1>4, <1>5, Zenon DEF Multiplied

\* A loop over the words that multiplies each by the field's rule.
LEMMA PerWordIsProduct ==
    ASSUME NEW F, IsGF(F), NEW v \in Words(F), NEW x \in SUBSET Nat, NEW op,
           \A s \in Words(F) : op[s] = Times(F, v, s)
    PROVE  IsProduct(F, v, x, PerWord(F.w, x, op))
<1>1. F.w \in Nat \ {0} /\ F.w \in Nat
  BY DEF IsGF
<1>2. \A s \in SUBSET (0..(F.w - 1)) : op[s] \in SUBSET (0..(F.w - 1))
  <2>1. \A s \in Words(F) : Times(F, v, s) \in Words(F)
    BY TimesOpIs
  <2> QED BY <2>1 DEF Words
<1>3. op[{}] = {}
  <2>1. {} \in Words(F) /\ Times(F, v, {}) = {}
    BY TimesOpIs DEF Words
  <2> QED BY <2>1
<1>4. WordsBecome(F.w, op, x, PerWord(F.w, x, op))
  <2>1. WordOp(F.w, op)
    BY <1>2, <1>3 DEF WordOp
  <2> QED BY <1>1, <2>1, PerWordIs, Zenon
<1>5. \A k \in Nat : WordAt(F.w, x, k) \in Words(F)
  BY WordIsWord
<1> QED BY <1>4, <1>5, Zenon DEF IsProduct, WordsBecome

\* The loop over all words of the region, after a test for 0.
LEMMA PlainIsTimes ==
    ASSUME NEW F, NEW rd, Multiplying(F, rd), NEW op, \A s \in Words(F) : op[s] = Times(F, rd.val, s)
    PROVE  /\ Multiplied(F, rd, Stored(rd, PerWord(F.w, rd.src, op)))
           /\ Multiplied(F, rd, PlainRegion(F.w, rd, op))
<1>1. IsGF(F) /\ F.w \in Nat \ {0} /\ rd.dest \in SUBSET Nat /\ rd.xor \in BOOLEAN /\ rd.src \in SUBSET Nat
        /\ rd.val \in Words(F)
  BY MultiplyingIs
<1>2. Multiplied(F, rd, Stored(rd, PerWord(F.w, rd.src, op)))
  BY <1>1, PerWordIsProduct, StoredIsTimes
<1>3. CASE rd.val = Zero
  <2>1. ASSUME NEW k \in Nat
        PROVE  WordAt(F.w, PlainRegion(F.w, rd, op), k) = ProductStored(F, rd, k)
    <3>1. WordAt(F.w, rd.src, k) \in Words(F) /\ WordAt(F.w, Zero, k) = Zero
      BY <1>1, WordIsWord
    <3>2. Times(F, rd.val, WordAt(F.w, rd.src, k)) = Zero
      BY <1>1, <1>3, <3>1, TimesIs
    <3>3. Xor(WordAt(F.w, rd.dest, k), Zero) = WordAt(F.w, rd.dest, k)
      BY XorAlgebra DEF Zero
    <3> QED BY <1>1, <1>3, <3>1, <3>2, <3>3, Zenon DEF PlainRegion, ProductStored
  <2>2. PlainRegion(F.w, rd, op) \in SUBSET Nat
    BY <1>1, <1>3 DEF PlainRegion, Zero
  <2> QED BY <1>2, <2>1, <2>2, Zenon DEF Multiplied
<1>4. CASE rd.val # Zero
  BY <1>2, <1>4, Zenon DEF PlainRegion
<1> QED BY <1>3, <1>4

\* A loop over pairs or more words at a time.
LEMMA WideIsProduct ==
    ASSUME NEW F, IsGF(F), NEW v \in Words(F), NEW x \in SUBSET Nat, NEW c \in Nat \ {0}, NEW u, u = c * F.w,
           NEW wide, Widely(F.w, c, TimesOp(F, v), wide)
    PROVE  IsProduct(F, v, x, PerWord(u, x, wide))
<1>1. F.w \in Nat \ {0}
  BY DEF IsGF
<1>2. WordsBecome(F.w, TimesOp(F, v), x, PerWord(u, x, wide))
  <2>1. TimesOp(F, v)[{}] = {}
    BY TimesOpIs DEF WordOp
  <2> QED BY <1>1, <2>1, WideWords
<1>3. \A k \in Nat : TimesOp(F, v)[WordAt(F.w, x, k)] = Times(F, v, WordAt(F.w, x, k))
  <2>1. \A k \in Nat : WordAt(F.w, x, k) \in Words(F)
    BY WordIsWord
  <2> QED BY <2>1, TimesOpIs
<1> QED BY <1>2, <1>3, Zenon DEF IsProduct, WordsBecome

\* A word is cut out of the bits from its place on.
LEMMA WordIsCut ==
    ASSUME NEW w \in Nat \ {0}, NEW x \in SUBSET Nat, NEW k \in Nat, NEW n, n = k * w
    PROVE  WordAt(w, x, k) = Cut(Shr(x, n), w)
<1>1. n \in Nat
  OBVIOUS
<1>2. WordAt(w, x, k) \in SUBSET (0..(w - 1)) /\ \A i \in 0..(w - 1) : i \in WordAt(w, x, k) <=> n + i \in x
  BY InWordAt
<1>3. Cut(Shr(x, n), w) \in SUBSET (0..(w - 1))
  <2>1. Shr(x, n) \in SUBSET Nat
    BY <1>1, HighAndLow
  <2> QED BY <2>1, HighAndLow
<1>4. \A i \in 0..(w - 1) : i \in Cut(Shr(x, n), w) <=> n + i \in x
  <2>1. \A i \in 0..(w - 1) : i \in Shr(x, n) <=> i + n \in x
    BY <1>1, BitOfShr
  <2> QED BY <1>1, <2>1 DEF Cut
<1> QED BY <1>2, <1>3, <1>4, SameWord

\* A word put in front of those of p.
LEMMA OneMoreWord ==
    ASSUME NEW w \in Nat \ {0}, NEW p \in SUBSET Nat, NEW t \in SUBSET (0..(w - 1))
    PROVE  /\ Xor(Shl(p, w), t) \in SUBSET Nat /\ WordAt(w, Xor(Shl(p, w), t), 0) = t
           /\ \A j \in Nat : WordAt(w, Xor(Shl(p, w), t), j + 1) = WordAt(w, p, j)
           /\ \A m \in Nat : p \in SUBSET (0..(m - 1)) => Xor(Shl(p, w), t) \in SUBSET (0..(m + w - 1))
           /\ t \cup Shl(p, w) = Xor(Shl(p, w), t)
<1>1. Shl(p, w) \in SUBSET Nat /\ \A k \in Nat : WordAt(w, Shl(p, w), k) = IF 1 <= k THEN WordAt(w, p, k - 1) ELSE {}
  <2>1. w = 1 * w /\ 1 \in Nat /\ w \in Nat
    OBVIOUS
  <2>2. \A n : n = 1 * w => Shl(p, n) \in SUBSET Nat
                         /\ \A k \in Nat : WordAt(w, Shl(p, n), k) = IF 1 <= k THEN WordAt(w, p, k - 1) ELSE {}
    BY <2>1, WordMovedUp
  <2> QED BY <2>1, <2>2
<1>2. t \in SUBSET Nat /\ t \in SUBSET (0..(w - 1))
  OBVIOUS
<1>3. WordAt(w, t, 0) = t /\ \A j \in Nat : WordAt(w, t, j + 1) = {}
  <2>1. WordAt(w, t, 0) = t
    <3>1. WordAt(w, t, 0) \in SUBSET (0..(w - 1)) /\ \A i \in 0..(w - 1) : i \in WordAt(w, t, 0) <=> 0 * w + i \in t
      BY <1>2, InWordAt
    <3>2. \A i \in 0..(w - 1) : 0 * w + i = i
      OBVIOUS
    <3>3. \A i \in 0..(w - 1) : i \in WordAt(w, t, 0) <=> i \in t
      BY <3>1, <3>2
    <3> QED BY <3>1, <3>3, SameWord
  <2>2. ASSUME NEW j \in Nat
        PROVE  WordAt(w, t, j + 1) = {}
    <3>j. j + 1 \in Nat
      OBVIOUS
    <3>1. \A i \in 0..(w - 1) : i \in WordAt(w, t, j + 1) <=> (j + 1) * w + i \in t
      BY <1>2, <3>j, InWordAt
    <3>2. \A i \in 0..(w - 1) : (j + 1) * w + i \notin 0..(w - 1)
      <4>1. (j + 1) * w = j * w + w /\ j * w \in Nat
        OBVIOUS
      <4> QED BY <4>1
    <3>3. WordAt(w, t, j + 1) \in SUBSET (0..(w - 1))
      BY <1>2, <3>j, InWordAt
    <3> QED BY <3>1, <3>2, <3>3
  <2> QED BY <2>1, <2>2
<1>4. \A k \in Nat : WordAt(w, Xor(Shl(p, w), t), k) = Xor(WordAt(w, Shl(p, w), k), WordAt(w, t, k))
  BY <1>1, <1>2, WordAtXor
<1>5. Xor(Shl(p, w), t) \in SUBSET Nat
  BY <1>1, <1>2 DEF Xor
<1>6. WordAt(w, Xor(Shl(p, w), t), 0) = t
  <2>1. WordAt(w, Shl(p, w), 0) = {}
    BY <1>1
  <2>2. Xor({}, t) = t
    BY XorAlgebra
  <2> QED BY <1>3, <1>4, <2>1, <2>2
<1>7. ASSUME NEW j \in Nat
      PROVE  WordAt(w, Xor(Shl(p, w), t), j + 1) = WordAt(w, p, j)
  <2>1. WordAt(w, Shl(p, w), j + 1) = WordAt(w, p, j)
    <3>1. 1 <= j + 1 /\ j + 1 \in Nat /\ (j + 1) - 1 = j
      OBVIOUS
    <3> QED BY <1>1, <3>1
  <2>2. Xor(WordAt(w, p, j), {}) = WordAt(w, p, j)
    BY XorAlgebra
  <2> QED BY <1>3, <1>4, <2>1, <2>2
<1>8. ASSUME NEW m \in Nat, p \in SUBSET (0..(m - 1))
      PROVE  Xor(Shl(p, w), t) \in SUBSET (0..(m + w - 1))
  <2>1. Shl(p, w) \in SUBSET (0..(m + w - 1))
    BY <1>8 DEF Shl
  <2>2. t \in SUBSET (0..(m + w - 1))
    OBVIOUS
  <2> QED BY <2>1, <2>2, Zenon DEF Xor
<1>9. t \cup Shl(p, w) = Xor(Shl(p, w), t)
  <2>1. \A i \in Shl(p, w) : i \notin t
    BY DEF Shl
  <2> QED BY <2>1 DEF Xor
<1> QED BY <1>5, <1>6, <1>7, <1>8, <1>9

\* 64 bits through the table for 16, as gf_two_byte_region_table_multiply does.
FourLookUps(table, a) ==
    Repeat(4, Zero, LAMBDA prod, k : Xor(Shl(prod, 16), table[Cut(Shr(a, 48 - 16 * k), 16)]))

\* The four turns.
LEMMA FourLookUpsAre ==
    ASSUME NEW table, NEW a, NEW t, \A i \in 0..3 : t[i] = table[Cut(Shr(a, 48 - 16 * i), 16)]
    PROVE  FourLookUps(table, a)
             = Xor(Shl(Xor(Shl(Xor(Shl(Xor(Shl(Zero, 16), t[0]), 16), t[1]), 16), t[2]), 16), t[3])
<1> DEFINE Turn(p, k) == Xor(Shl(p, 16), table[Cut(Shr(a, 48 - 16 * k), 16)])
           Value(f, i) == IF i = 0 THEN Zero ELSE Turn(f[i - 1], i - 1)
           after == CHOOSE f : f = [i \in 0..4 |-> Value(f, i)]
           one == Turn(Zero, 0)
           two == Turn(one, 1)
           three == Turn(two, 2)
           four == Turn(three, 3)
           v == [i \in 0..4 |-> IF i = 0 THEN Zero ELSE IF i = 1 THEN one ELSE IF i = 2 THEN two
                                ELSE IF i = 3 THEN three ELSE four]
<1>1. FourLookUps(table, a) = after[4]
  BY DEF FourLookUps, Repeat
<1>2. v[0] = Zero /\ v[4] = four
  OBVIOUS
<1>3. \A i \in 0..3 : v[i + 1] = Turn(v[i], i)
  <2> HIDE DEF Turn
  <2>1. v[1] = Turn(v[0], 0) /\ v[2] = Turn(v[1], 1) /\ v[3] = Turn(v[2], 2) /\ v[4] = Turn(v[3], 3)
    OBVIOUS
  <2> HIDE DEF v
  <2> QED BY <2>1
<1>4. v = [i \in 0..4 |-> Value(v, i)]
  <2>1. \A i \in 0..4 : i # 0 => i - 1 \in 0..3 /\ (i - 1) + 1 = i
    OBVIOUS
  <2>2. \A i \in 0..4 : v[i] = Value(v, i)
    <3> HIDE DEF v, Turn
    <3> QED BY <1>2, <1>3, <2>1
  <2> HIDE DEF Value
  <2> QED BY <2>2
<1>5. after = [i \in 0..4 |-> Value(after, i)]
  <2> HIDE DEF Value, v
  <2> QED BY <1>4
<1> HIDE DEF after, v, Turn, four
<1>6. after[4] = v[4]
  <2>1. after[0] = v[0]
    BY <1>2, <1>5
  <2>2. ASSUME NEW i \in 0..(4 - 1), after[i] = v[i] PROVE after[i + 1] = v[i + 1]
    <3>1. i \in 0..3 /\ i + 1 \in 0..4 /\ i + 1 # 0 /\ (i + 1) - 1 = i
      OBVIOUS
    <3>2. after[i + 1] = Turn(after[i], i)
      BY <1>5, <3>1
    <3> QED BY <1>3, <2>2, <3>1, <3>2
  <2> QED BY <2>1, <2>2, LoopsAgree
<1>7. \A p : \A i \in 0..3 : Turn(p, i) = Xor(Shl(p, 16), t[i])
  BY DEF Turn
<1>8. four = Xor(Shl(Xor(Shl(Xor(Shl(Xor(Shl(Zero, 16), t[0]), 16), t[1]), 16), t[2]), 16), t[3])
  <2>1. one = Xor(Shl(Zero, 16), t[0])
    BY <1>7
  <2> HIDE DEF one
  <2>2. two = Xor(Shl(one, 16), t[1])
    BY <1>7
  <2> HIDE DEF two
  <2>3. three = Xor(Shl(two, 16), t[2])
    BY <1>7
  <2> HIDE DEF three
  <2>4. four = Xor(Shl(three, 16), t[3])
    BY <1>7 DEF four
  <2> QED BY <2>1, <2>2, <2>3, <2>4
<1> QED BY <1>1, <1>2, <1>6, <1>8

\* Each of the four gets what the table has for it.
LEMMA FourLookUpsAreWide ==
    ASSUME NEW table, WordOp(16, table), NEW wide, \A a \in Bits : wide[a] = FourLookUps(table, a)
    PROVE  Widely(16, 4, table, wide)
<1> SUFFICES ASSUME NEW a \in SUBSET (0..(4 * 16 - 1))
             PROVE  /\ wide[a] \in SUBSET (0..(4 * 16 - 1))
                    /\ \A j \in 0..(4 - 1) : WordAt(16, wide[a], j) = table[WordAt(16, a, j)]
  BY DEF Widely
<1> DEFINE t == [i \in 0..3 |-> table[WordAt(16, a, 3 - i)]]
<1>1. a \in SUBSET Nat /\ a \in Bits
  BY DEF Bits
<1>2. \A i \in 0..3 : WordAt(16, a, 3 - i) = Cut(Shr(a, 48 - 16 * i), 16)
  <2>1. \A i \in 0..3 : 3 - i \in Nat /\ 48 - 16 * i = (3 - i) * 16
    OBVIOUS
  <2>2. 16 \in Nat \ {0}
    OBVIOUS
  <2> QED BY <1>1, <2>1, <2>2, WordIsCut
<1>3. \A i \in 0..3 : t[i] \in SUBSET (0..15) /\ t[i] = table[Cut(Shr(a, 48 - 16 * i), 16)]
  <2>1. \A i \in 0..3 : WordAt(16, a, 3 - i) \in SUBSET (0..15)
    <3>1. \A k \in Nat : WordAt(16, a, k) \in SUBSET (0..(16 - 1))
      <4>1. 16 \in Nat \ {0}
        OBVIOUS
      <4> QED BY ONLY <1>1, <4>1, InWordAt
    <3>2. \A i \in 0..3 : 3 - i \in Nat
      OBVIOUS
    <3>3. 16 - 1 = 15
      OBVIOUS
    <3> QED BY <3>1, <3>2, <3>3
  <2>2. \A s \in SUBSET (0..15) : table[s] \in SUBSET (0..15)
    BY DEF WordOp
  <2> QED BY <1>2, <2>1, <2>2
<1>t. t[0] = table[WordAt(16, a, 3)] /\ t[1] = table[WordAt(16, a, 2)]
        /\ t[2] = table[WordAt(16, a, 1)] /\ t[3] = table[WordAt(16, a, 0)]
  OBVIOUS
<1> HIDE DEF t
<1> DEFINE one == Xor(Shl(Zero, 16), t[0])
           two == Xor(Shl(one, 16), t[1])
           three == Xor(Shl(two, 16), t[2])
           four == Xor(Shl(three, 16), t[3])
<1>4. wide[a] = four
  BY <1>1, <1>3, FourLookUpsAre
<1>5. Zero \in SUBSET Nat /\ Zero \in SUBSET (0..(0 - 1))
  BY DEF Zero
<1>6. \A p \in SUBSET Nat, s \in SUBSET (0..15) :
        /\ Xor(Shl(p, 16), s) \in SUBSET Nat /\ WordAt(16, Xor(Shl(p, 16), s), 0) = s
        /\ \A j \in Nat : WordAt(16, Xor(Shl(p, 16), s), j + 1) = WordAt(16, p, j)
        /\ \A m \in Nat : p \in SUBSET (0..(m - 1)) => Xor(Shl(p, 16), s) \in SUBSET (0..(m + 16 - 1))
  <2>1. 16 \in Nat \ {0} /\ 16 - 1 = 15
    OBVIOUS
  <2> QED BY <2>1, OneMoreWord
<1> HIDE DEF four
<1>7. one \in SUBSET Nat /\ one \in SUBSET (0..(16 - 1)) /\ WordAt(16, one, 0) = t[0]
  <2>1. t[0] \in SUBSET (0..15)
    BY <1>3
  <2>2. Xor(Shl(Zero, 16), t[0]) \in SUBSET (0..(0 + 16 - 1))
    BY <1>5, <1>6, <2>1
  <2> QED BY <1>5, <1>6, <2>1, <2>2
<1> HIDE DEF one
<1>8. two \in SUBSET Nat /\ two \in SUBSET (0..(32 - 1)) /\ WordAt(16, two, 0) = t[1] /\ WordAt(16, two, 1) = t[0]
  <2>1. t[1] \in SUBSET (0..15)
    BY <1>3
  <2>2. two \in SUBSET Nat /\ WordAt(16, two, 0) = t[1] /\ \A j \in Nat : WordAt(16, two, j + 1) = WordAt(16, one, j)
    BY <1>6, <1>7, <2>1
  <2>3. two \in SUBSET (0..(16 + 16 - 1))
    BY <1>6, <1>7, <2>1
  <2> HIDE DEF two
  <2>4. WordAt(16, two, 0 + 1) = WordAt(16, one, 0)
    BY <2>2
  <2> QED BY <1>7, <2>2, <2>3, <2>4
<1> HIDE DEF two
<1>9. three \in SUBSET Nat /\ three \in SUBSET (0..(48 - 1)) /\ WordAt(16, three, 0) = t[2]
        /\ WordAt(16, three, 1) = t[1] /\ WordAt(16, three, 2) = t[0]
  <2>1. t[2] \in SUBSET (0..15)
    BY <1>3
  <2>2. three \in SUBSET Nat /\ WordAt(16, three, 0) = t[2] /\ \A j \in Nat : WordAt(16, three, j + 1) = WordAt(16, two, j)
    BY <1>6, <1>8, <2>1
  <2>3. three \in SUBSET (0..(32 + 16 - 1))
    BY <1>6, <1>8, <2>1
  <2> HIDE DEF three
  <2>4. WordAt(16, three, 0 + 1) = WordAt(16, two, 0) /\ WordAt(16, three, 1 + 1) = WordAt(16, two, 1)
    BY <2>2
  <2> QED BY <1>8, <2>2, <2>3, <2>4
<1> HIDE DEF three
<1>10. four \in SUBSET (0..(64 - 1)) /\ WordAt(16, four, 0) = t[3]
        /\ WordAt(16, four, 1) = t[2] /\ WordAt(16, four, 2) = t[1] /\ WordAt(16, four, 3) = t[0]
  <2>1. t[3] \in SUBSET (0..15)
    BY <1>3
  <2>2. WordAt(16, four, 0) = t[3] /\ \A j \in Nat : WordAt(16, four, j + 1) = WordAt(16, three, j)
    BY <1>6, <1>9, <2>1 DEF four
  <2>3. four \in SUBSET (0..(48 + 16 - 1))
    BY <1>6, <1>9, <2>1 DEF four
  <2>4. WordAt(16, four, 0 + 1) = WordAt(16, three, 0) /\ WordAt(16, four, 1 + 1) = WordAt(16, three, 1)
          /\ WordAt(16, four, 2 + 1) = WordAt(16, three, 2)
    BY <2>2
  <2> QED BY <1>9, <2>2, <2>3, <2>4
<1>11. \A j \in 0..(4 - 1) : j = 0 \/ j = 1 \/ j = 2 \/ j = 3
  OBVIOUS
<1>12. \A j \in 0..(4 - 1) : WordAt(16, four, j) = table[WordAt(16, a, j)]
  BY <1>t, <1>10, <1>11
<1> QED BY <1>4, <1>10, <1>12

\* What gf_two_byte_region_table_multiply does: every 16 bits of a region become
\* what the table has for them.
LEMMA TwoBytesAre ==
    ASSUME NEW table, WordOp(16, table), NEW x \in SUBSET Nat
    PROVE  WordsBecome(16, table, x, GfTwoByteRegionTableMultiply(x, table))
<1> DEFINE wide == [a \in Bits |-> FourLookUps(table, a)]
<1>1. GfTwoByteRegionTableMultiply(x, table) = PerWord(64, x, wide)
  BY Zenon DEF GfTwoByteRegionTableMultiply, FourLookUps
<1>2. \A a \in Bits : wide[a] = FourLookUps(table, a)
  OBVIOUS
<1> HIDE DEF wide
<1>3. Widely(16, 4, table, wide)
  BY <1>2, FourLookUpsAreWide
<1>4. 16 \in Nat \ {0} /\ 4 \in Nat \ {0} /\ 64 = 4 * 16 /\ table[{}] = {}
  BY DEF WordOp
<1> QED BY <1>1, <1>3, <1>4, WideWords

\* Words that become products.
LEMMA BecomeProducts ==
    ASSUME NEW F, IsGF(F), NEW v \in Words(F), NEW x \in SUBSET Nat, NEW y, WordsBecome(F.w, TimesOp(F, v), x, y)
    PROVE  IsProduct(F, v, x, y)
<1>1. \A k \in Nat : TimesOp(F, v)[WordAt(F.w, x, k)] = Times(F, v, WordAt(F.w, x, k))
  <2>1. \A k \in Nat : WordAt(F.w, x, k) \in Words(F)
    BY WordIsWord
  <2> QED BY <2>1, TimesOpIs
<1> QED BY <1>1, Zenon DEF IsProduct, WordsBecome

\* What is done to each of the words in a wider one, put side by side.
LEMMA EachWord ==
    ASSUME NEW w \in Nat \ {0}, NEW c \in Nat \ {0}, NEW op, WordOp(w, op), NEW wide,
           \A s \in SUBSET (0..(c * w - 1)) : wide[s] = UNION {Shl(op[WordAt(w, s, k)], k * w) : k \in 0..(c - 1)}
    PROVE  Widely(w, c, op, wide)
<1> SUFFICES ASSUME NEW s \in SUBSET (0..(c * w - 1))
             PROVE  /\ wide[s] \in SUBSET (0..(c * w - 1))
                    /\ \A j \in 0..(c - 1) : WordAt(w, wide[s], j) = op[WordAt(w, s, j)]
  BY DEF Widely
<1>1. s \in SUBSET Nat
  OBVIOUS
<1>2. wide[s] = UNION {Shl(op[WordAt(w, s, k)], k * w) : k \in 0..(c - 1)}
  OBVIOUS
<1>3. op[{}] = {} /\ \A a \in SUBSET (0..(w - 1)) : op[a] \in SUBSET (0..(w - 1))
  BY DEF WordOp
<1>4. \A k \in Nat : WordAt(w, s, k) \in SUBSET (0..(w - 1))
  BY <1>1, InWordAt
<1>5. \A i \in s : i \div w \in 0..(c - 1)
  <2>1. \A i \in s : i \in Nat /\ i < c * w
    OBVIOUS
  <2>2. \A i \in s : i = w * (i \div w) + (i % w) /\ i % w \in 0..(w - 1) /\ i \div w \in Nat
    BY <2>1, DivMod
  <2>3. \A q, r \in Nat : w * q + r < c * w => q <= c - 1
    <3>1. \A q, r \in Nat : q >= c => w * q >= c * w
      OBVIOUS
    <3> QED BY <3>1
  <2> QED BY <2>1, <2>2, <2>3
<1>6. \A k \in Nat : k \notin {i \div w : i \in s} => WordAt(w, s, k) = {}
  BY DEF WordAt
<1>7. wide[s] = PerWord(w, s, op)
  <2>1. \A k \in 0..(c - 1) : k \notin {i \div w : i \in s} => Shl(op[WordAt(w, s, k)], k * w) = {}
    <3>1. ASSUME NEW k \in 0..(c - 1), k \notin {i \div w : i \in s} PROVE Shl(op[WordAt(w, s, k)], k * w) = {}
      <4>1. k \in Nat
        OBVIOUS
      <4>2. WordAt(w, s, k) = {}
        BY <1>6, <3>1, <4>1
      <4>3. op[WordAt(w, s, k)] = {}
        BY <1>3, <4>2
      <4> QED BY <4>3 DEF Shl
    <3> QED BY <3>1
  <2>2. {i \div w : i \in s} \subseteq 0..(c - 1)
    BY <1>5
  <2> QED BY <1>2, <2>1, <2>2 DEF PerWord
<1>8. \A j \in Nat : WordAt(w, wide[s], j) = op[WordAt(w, s, j)]
  <2>1. WordsBecome(w, op, s, PerWord(w, s, op))
    BY <1>1, PerWordIs
  <2> QED BY <1>7, <2>1 DEF WordsBecome
<1>9. ASSUME NEW k \in 0..(c - 1)
      PROVE  Shl(op[WordAt(w, s, k)], k * w) \in SUBSET (0..(c * w - 1))
  <2>1. op[WordAt(w, s, k)] \in SUBSET (0..(w - 1))
    BY <1>3, <1>4
  <2> DEFINE kw == k * w
  <2>2. kw \in Nat /\ kw + w <= c * w
    <3>1. (k + 1) * w <= c * w /\ (k + 1) * w = k * w + w /\ k * w \in Nat
      OBVIOUS
    <3> QED BY <3>1
  <2> HIDE DEF kw
  <2>3. Shl(op[WordAt(w, s, k)], kw) \in SUBSET (0..(c * w - 1))
    BY <2>1, <2>2 DEF Shl
  <2> QED BY <2>3 DEF kw
<1>10. wide[s] \in SUBSET (0..(c * w - 1))
  BY <1>2, <1>9
<1> QED BY <1>8, <1>10

\* Two words side by side.
LEMMA PairsAreWide ==
    ASSUME NEW w \in Nat \ {0}, NEW op, WordOp(w, op), NEW wide,
           \A s \in SUBSET (0..(2 * w - 1)) : wide[s] = op[Cut(s, w)] \cup Shl(op[Shr(s, w)], w)
    PROVE  Widely(w, 2, op, wide)
<1> SUFFICES ASSUME NEW s \in SUBSET (0..(2 * w - 1))
             PROVE  wide[s] = UNION {Shl(op[WordAt(w, s, k)], k * w) : k \in 0..(2 - 1)}
  <2>1. 2 \in Nat \ {0}
    OBVIOUS
  <2> QED BY <2>1, EachWord
<1>1. s \in SUBSET Nat
  OBVIOUS
<1>2. WordAt(w, s, 0) = Cut(s, w) /\ WordAt(w, s, 1) = Shr(s, w)
  <2>1. \A i \in Nat : /\ i < w => i \div w = 0
                       /\ w <= i /\ i < 2 * w => i \div w = 1
    <3>1. \A i \in Nat : i = w * (i \div w) + (i % w) /\ i % w \in 0..(w - 1) /\ i \div w \in Nat
      BY DivMod
    <3>2. \A q \in Nat : q >= 2 => w * q >= 2 * w
      OBVIOUS
    <3>3. \A q \in Nat : q >= 1 => w * q >= w
      OBVIOUS
    <3>4. \A i \in Nat : i < w => i \div w = 0
      BY <3>1, <3>3
    <3>5. ASSUME NEW i \in Nat, w <= i, i < 2 * w PROVE i \div w = 1
      <4> DEFINE q == i \div w
      <4>1. i = w * q + (i % w) /\ i % w \in 0..(w - 1) /\ q \in Nat
        BY <3>1
      <4> HIDE DEF q
      <4>2. q < 2
        BY <3>2, <3>5, <4>1
      <4>3. q # 0
        BY <3>5, <4>1
      <4> QED BY <4>1, <4>2, <4>3 DEF q
    <3> QED BY <3>4, <3>5
  <2>2. \A i \in s : i \in Nat /\ i < 2 * w
    OBVIOUS
  <2>3. \A i \in s : (i \div w = 0 <=> i < w) /\ (i \div w = 1 <=> w <= i)
    BY <2>1, <2>2
  <2>4. WordAt(w, s, 0) = Cut(s, w)
    <3>1. {j \in s : j \div w = 0} = {j \in s : j < w}
      BY <2>3
    <3>2. \A j \in s : j - 0 * w = j
      BY <2>2
    <3> QED BY <3>1, <3>2 DEF WordAt, Cut
  <2>5. WordAt(w, s, 1) = Shr(s, w)
    <3>1. {j \in s : j \div w = 1} = {j \in s : w <= j}
      BY <2>3
    <3>2. 1 * w = w
      OBVIOUS
    <3> QED BY <3>1, <3>2 DEF WordAt, Shr
  <2> QED BY <2>4, <2>5
<1>3. 0..(2 - 1) = {0, 1} /\ 1 * w = w /\ 0 * w = 0
  OBVIOUS
<1>4. Shl(op[Cut(s, w)], 0) = op[Cut(s, w)]
  <2>1. op[Cut(s, w)] \in SUBSET (0..(w - 1))
    <3>1. Cut(s, w) \in SUBSET (0..(w - 1))
      BY <1>1, HighAndLow
    <3> QED BY <3>1 DEF WordOp
  <2>2. \A i \in op[Cut(s, w)] : i + 0 = i
    BY <2>1
  <2> QED BY <2>2 DEF Shl
<1>5. UNION {Shl(op[WordAt(w, s, k)], k * w) : k \in 0..(2 - 1)}
        = Shl(op[WordAt(w, s, 0)], 0 * w) \cup Shl(op[WordAt(w, s, 1)], 1 * w)
  BY <1>3
<1> QED BY <1>2, <1>3, <1>4, <1>5

-----------------------------------------------------------------------------
(* GF(2^4): the tables for two and for four words at once. *)

\* A row of the table of products.
LEMMA RowIsTimes ==
    ASSUME NEW F, IsGF(F), F.w = 4, NEW v \in Words(F), NEW T, T = GfW4SingleTable(F)
    PROVE  /\ \A s \in Words(F) : T[<<v, s>>] = Times(F, v, s) /\ T[<<v, s>>] \in Words(F)
           /\ Words(F) = SUBSET (0..3) /\ T[<<v, {}>>] = {} /\ WordOp(4, TimesOp(F, v))
<1>1. \A s \in Words(F) : T[<<v, s>>] = Times(F, v, s)
  BY TablesAreTimes DEF GfW4SingleTableMultiply
<1>2. \A s \in Words(F) : TimesOp(F, v)[s] = Times(F, v, s) /\ Times(F, v, s) \in Words(F)
  BY TimesOpIs
<1>3. Words(F) = SUBSET (0..3)
  BY DEF Words
<1>4. T[<<v, {}>>] = {}
  <2>1. {} \in Words(F) /\ Times(F, v, {}) = {}
    BY <1>3, TimesOpIs
  <2> QED BY <1>1, <2>1
<1>5. WordOp(4, TimesOp(F, v))
  BY TimesOpIs
<1> QED BY <1>1, <1>2, <1>3, <1>4, <1>5

\* A byte in two halves.
LEMMA HalvesOfByte ==
    \A s \in SUBSET (0..7) : s \in Bits /\ Cut(s, 4) \in SUBSET (0..3) /\ Shr(s, 4) \in SUBSET (0..3)
<1>1. 4 \in Nat \ {0} /\ 2 * 4 - 1 = 7 /\ 4 - 1 = 3
  OBVIOUS
<1>2. \A s \in SUBSET (0..7) : Cut(s, 4) \in SUBSET (0..3) /\ Shr(s, 4) \in SUBSET (0..3)
  BY <1>1, Halves
<1>3. \A s \in SUBSET (0..7) : s \in Bits
  BY DEF Bits
<1> QED BY <1>2, <1>3

\* The double table has the products of both words, the quad table of all four.
LEMMA DoubleAndQuadAreWide ==
    ASSUME NEW F, IsGF(F), F.w = 4, NEW v \in Words(F), NEW T, T = GfW4SingleTable(F)
    PROVE  /\ Widely(4, 2, TimesOp(F, v), [s \in Bits |-> GfW4DoubleTable(T, v, s)])
           /\ Widely(4, 4, TimesOp(F, v), [s \in Bits |-> GfW4QuadTable(T, v, s)])
<1>0. Words(F) = SUBSET (0..3) /\ WordOp(4, TimesOp(F, v))
        /\ \A s \in Words(F) : T[<<v, s>>] = TimesOp(F, v)[s] /\ T[<<v, s>>] \in Words(F)
  <2>1. Words(F) = SUBSET (0..3)
    BY RowIsTimes
  <2>2. WordOp(4, TimesOp(F, v))
    BY RowIsTimes
  <2>3. ASSUME NEW s \in Words(F) PROVE T[<<v, s>>] = TimesOp(F, v)[s]
    <3>1. T[<<v, s>>] = Times(F, v, s)
      BY TablesAreTimes DEF GfW4SingleTableMultiply
    <3>2. TimesOp(F, v)[s] = Times(F, v, s)
      BY TimesOpIs
    <3> QED BY <3>1, <3>2
  <2>4. ASSUME NEW s \in Words(F) PROVE T[<<v, s>>] \in Words(F)
    BY RowIsTimes
  <2> QED BY <2>1, <2>2, <2>3, <2>4
<1> DEFINE op == TimesOp(F, v)
           two == [s \in Bits |-> GfW4DoubleTable(T, v, s)]
           four == [s \in Bits |-> GfW4QuadTable(T, v, s)]
<1>1. \A s \in SUBSET (0..3) : T[<<v, s>>] = op[s]
  BY <1>0
<1>2. WordOp(4, op)
  BY <1>0
<1> HIDE DEF op
<1>3. \A s \in SUBSET (0..7) : two[s] = op[Cut(s, 4)] \cup Shl(op[Shr(s, 4)], 4)
  <2>1. \A s \in SUBSET (0..7) : s \in Bits
    BY DEF Bits
  <2>2. \A s \in SUBSET (0..7) : Cut(s, 4) \in SUBSET (0..3) /\ Shr(s, 4) \in SUBSET (0..3)
    BY HalvesOfByte
  <2> QED BY <1>1, <2>1, <2>2 DEF GfW4DoubleTable
<1>4. \A s \in SUBSET (0..15) : four[s] = UNION {Shl(op[WordAt(4, s, k)], k * 4) : k \in 0..3}
  <2>1. \A s \in SUBSET (0..15) : s \in Bits /\ s \in SUBSET Nat
    BY DEF Bits
  <2>4. 4 \in Nat \ {0}
    OBVIOUS
  <2>2. \A s \in SUBSET (0..15), k \in 0..3 : WordAt(4, s, k) = Cut(Shr(s, 4 * k), 4)
    <3>1. \A k \in 0..3 : k \in Nat /\ 4 * k = k * 4
      OBVIOUS
    <3> QED BY <2>1, <2>4, <3>1, WordIsCut
  <2>3. \A s \in SUBSET (0..15), k \in 0..3 : WordAt(4, s, k) \in SUBSET (0..3)
    <3>1. \A s \in SUBSET Nat : \A k \in Nat : WordAt(4, s, k) \in SUBSET (0..(4 - 1))
      BY <2>4, InWordAt
    <3> QED BY <2>1, <3>1
  <2>5. \A s \in SUBSET (0..15), k \in 0..3 : T[<<v, Cut(Shr(s, 4 * k), 4)>>] = op[WordAt(4, s, k)]
    BY <1>1, <2>2, <2>3
  <2>6. \A k \in 0..3 : 4 * k = k * 4
    OBVIOUS
  <2>7. ASSUME NEW s \in SUBSET (0..15)
        PROVE  four[s] = UNION {Shl(op[WordAt(4, s, k)], k * 4) : k \in 0..3}
    <3>1. four[s] = UNION {Shl(T[<<v, Cut(Shr(s, 4 * k), 4)>>], 4 * k) : k \in 0..3}
      BY <2>1 DEF GfW4QuadTable
    <3> HIDE DEF four
    <3>2. \A k \in 0..3 : Shl(T[<<v, Cut(Shr(s, 4 * k), 4)>>], 4 * k) = Shl(op[WordAt(4, s, k)], k * 4)
      BY <2>5, <2>6
    <3> QED BY <3>1, <3>2
  <2> QED BY <2>7
<1> HIDE DEF two, four
<1>5. Widely(4, 2, op, two)
  <2>1. 2 * 4 - 1 = 7 /\ 4 \in Nat \ {0}
    OBVIOUS
  <2> QED BY <1>2, <1>3, <2>1, PairsAreWide
<1>6. Widely(4, 4, op, four)
  <2>1. 4 * 4 - 1 = 15 /\ 4 - 1 = 3 /\ 4 \in Nat \ {0}
    OBVIOUS
  <2> QED BY <1>2, <1>4, <2>1, EachWord
<1> QED BY <1>5, <1>6 DEF op, two, four

\* The look-ups of vectors: the low words of all bytes, then the high ones.
LEMMA SseTableIsProduct ==
    ASSUME NEW F, IsGF(F), F.w = 4, NEW v \in Words(F), NEW T, T = GfW4SingleTable(F), NEW x \in SUBSET Nat
    PROVE  IsProduct(F, v, x, SseTableRegion(T, x, v))
<1> DEFINE lo == [s \in Bits |-> T[<<v, Cut(s, 4)>>]]
           hi == [s \in Bits |-> Shl(T[<<v, Shr(s, 4)>>], 4)]
           two == [s \in Bits |-> GfW4DoubleTable(T, v, s)]
           y == SseTableRegion(T, x, v)
<1>1. \A s \in SUBSET (0..3) : T[<<v, s>>] \in SUBSET (0..3)
  BY RowIsTimes
<1>2. T[<<v, {}>>] = {}
  BY RowIsTimes
<1>3. \A s \in SUBSET (0..7) : /\ s \in Bits /\ Cut(s, 4) \in SUBSET (0..3) /\ Shr(s, 4) \in SUBSET (0..3)
  BY HalvesOfByte
<1>4. \A a, b \in SUBSET (0..3) : /\ a \in SUBSET (0..7) /\ Shl(b, 4) \in SUBSET (0..7)
                                  /\ Xor(a, Shl(b, 4)) = a \cup Shl(b, 4)
  BY DEF Shl, Xor
<1>5. Cut({}, 4) = {} /\ Shr({}, 4) = {} /\ Shl({}, 4) = {} /\ {} \in SUBSET (0..7)
  BY DEF Cut, Shr, Shl
<1>6. WordOp(8, lo) /\ WordOp(8, hi)
  <2>1. lo[{}] = {} /\ hi[{}] = {}
    <3>1. {} \in Bits
      BY DEF Bits
    <3>2. lo[{}] = T[<<v, Cut({}, 4)>>] /\ hi[{}] = Shl(T[<<v, Shr({}, 4)>>], 4)
      BY <3>1
    <3> HIDE DEF lo, hi
    <3> QED BY <1>2, <1>5, <3>2
  <2>2. \A s \in SUBSET (0..7) : lo[s] \in SUBSET (0..7) /\ hi[s] \in SUBSET (0..7)
    <3>1. \A s \in SUBSET (0..7) : lo[s] = T[<<v, Cut(s, 4)>>] /\ hi[s] = Shl(T[<<v, Shr(s, 4)>>], 4)
      BY <1>3
    <3> HIDE DEF lo, hi
    <3>2. ASSUME NEW s \in SUBSET (0..7) PROVE lo[s] \in SUBSET (0..7) /\ hi[s] \in SUBSET (0..7)
      <4>1. T[<<v, Cut(s, 4)>>] \in SUBSET (0..3) /\ T[<<v, Shr(s, 4)>>] \in SUBSET (0..3)
        BY <1>1, <1>3
      <4>2. T[<<v, Cut(s, 4)>>] \in SUBSET (0..7) /\ Shl(T[<<v, Shr(s, 4)>>], 4) \in SUBSET (0..7)
        BY <1>4, <4>1
      <4> QED BY <3>1, <4>2
    <3> QED BY <3>2
  <2>3. 8 - 1 = 7
    OBVIOUS
  <2> QED BY <2>1, <2>2, <2>3 DEF WordOp
<1>7. \A s \in SUBSET (0..7) : Xor(lo[s], hi[s]) = two[s]
  BY <1>1, <1>3, <1>4 DEF GfW4DoubleTable
<1>8. y = Xor(PerWord(8, x, lo), PerWord(8, x, hi))
  BY DEF SseTableRegion
<1> HIDE DEF lo, hi, two, y
<1>9. WordsBecome(8, two, x, y)
  <2>0. 8 \in Nat \ {0} /\ 8 - 1 = 7
    OBVIOUS
  <2>1. WordsBecome(8, lo, x, PerWord(8, x, lo)) /\ WordsBecome(8, hi, x, PerWord(8, x, hi))
    BY <1>6, <2>0, PerWordIs
  <2>2. y \in SUBSET Nat
    BY <1>8, <2>1 DEF WordsBecome, Xor
  <2>3. \A k \in Nat : WordAt(8, y, k) = Xor(WordAt(8, PerWord(8, x, lo), k), WordAt(8, PerWord(8, x, hi), k))
    BY <1>8, <2>0, <2>1, WordAtXor DEF WordsBecome
  <2>4. \A k \in Nat : WordAt(8, x, k) \in SUBSET (0..7)
    BY <2>0, InWordAt
  <2>5. \A k \in Nat : WordAt(8, y, k) = two[WordAt(8, x, k)]
    BY <1>7, <2>1, <2>3, <2>4 DEF WordsBecome
  <2> QED BY <2>2, <2>5 DEF WordsBecome
<1>10. Widely(4, 2, TimesOp(F, v), two)
  BY DoubleAndQuadAreWide DEF two
<1>11. WordsBecome(4, TimesOp(F, v), x, y)
  <2>1. 4 \in Nat \ {0} /\ 2 \in Nat \ {0} /\ 8 = 2 * 4
    OBVIOUS
  <2> QED BY <1>9, <1>10, <2>1, WordsInWider
<1> QED BY <1>11, BecomeProducts DEF y

\* Two bytes at a time through a table of all products of so many words.
LEMMA TwoByteTableIsProduct ==
    ASSUME NEW F, IsGF(F), NEW v \in Words(F), NEW c \in Nat \ {0}, c * F.w = 16, NEW table,
           Widely(F.w, c, TimesOp(F, v), table), NEW x \in SUBSET Nat
    PROVE  IsProduct(F, v, x, GfTwoByteRegionTableMultiply(x, table))
<1>1. F.w \in Nat \ {0} /\ TimesOp(F, v)[{}] = {}
  BY TimesOpIs DEF WordOp, IsGF
<1>2. WordOp(16, table)
  <2>1. table[{}] = {}
    BY <1>1, WidelyOfNone
  <2>2. \A s \in SUBSET (0..(16 - 1)) : table[s] \in SUBSET (0..(16 - 1))
    BY DEF Widely
  <2> QED BY <2>1, <2>2 DEF WordOp
<1>3. WordsBecome(16, table, x, GfTwoByteRegionTableMultiply(x, table))
  BY <1>2, TwoBytesAre
<1>4. WordsBecome(F.w, TimesOp(F, v), x, GfTwoByteRegionTableMultiply(x, table))
  <2>1. 16 = c * F.w
    OBVIOUS
  <2> QED BY <1>1, <1>3, <2>1, WordsInWider
<1> QED BY <1>4, BecomeProducts

-----------------------------------------------------------------------------
(* Words in pieces: SPLIT tables. *)

\* n bits of a word from bit m on, and the word as far as they go.
LEMMA PieceOfWord ==
    ASSUME NEW F, IsGF(F), NEW x \in Words(F), NEW m \in Nat, NEW n \in Nat
    PROVE  /\ Cut(x, m) \in Words(F) /\ Cut(Shr(x, m), n) \in Words(F)
           /\ Shl(Cut(Shr(x, m), n), m) \in Words(F)
           /\ Cut(x, m + n) = Xor(Cut(x, m), Shl(Cut(Shr(x, m), n), m))
<1>1. x \in SUBSET Nat /\ x \in SUBSET (0..(F.w - 1)) /\ F.w \in Nat
  BY WordsAre DEF IsGF
<1>2. Cut(x, m) \in Words(F)
  BY <1>1 DEF Cut, Words
<1>3. \A i \in Shr(x, m) : i \in Nat /\ i + m \in x
  BY <1>1, BitOfShr
<1>4. Cut(Shr(x, m), n) \in Words(F)
  <2>1. \A i \in Cut(Shr(x, m), n) : i \in 0..(F.w - 1)
    BY <1>1, <1>3 DEF Cut
  <2> QED BY <2>1 DEF Words
<1>5. Shl(Cut(Shr(x, m), n), m) = {i \in x : m <= i /\ i < m + n}
  <2>1. \A i \in Shr(x, m) : i < n => i + m \in x /\ m <= i + m /\ i + m < m + n
    BY <1>3
  <2>2. ASSUME NEW i \in x, m <= i, i < m + n
        PROVE  \E j \in Shr(x, m) : j < n /\ i = j + m
    <3>1. i \in Nat /\ i - m \in Nat /\ i - m < n /\ i = (i - m) + m
      BY <1>1, <2>2
    <3>2. i - m \in Shr(x, m)
      BY <1>1, <3>1, BitOfShr
    <3> QED BY <3>1, <3>2
  <2> QED BY <2>1, <2>2 DEF Shl, Cut
<1>6. {i \in x : m <= i /\ i < m + n} \in Words(F)
  BY <1>1 DEF Words
<1>7. Cut(x, m + n) = Xor(Cut(x, m), {i \in x : m <= i /\ i < m + n})
  <2>1. \A i \in x : i < m + n <=> ~(i < m <=> (m <= i /\ i < m + n))
    BY <1>1
  <2> QED BY <2>1 DEF Cut, Xor
<1> QED BY <1>2, <1>4, <1>5, <1>6, <1>7

\* What one more piece adds to the product.
LEMMA PieceAdds ==
    ASSUME NEW F, IsGF(F), NEW x \in Words(F), NEW val \in Words(F), NEW m \in Nat, NEW n \in Nat
    PROVE  Times(F, Cut(x, m + n), val) = Xor(Times(F, Cut(x, m), val), Times(F, Shl(Cut(Shr(x, m), n), m), val))
<1>1. /\ Cut(x, m) \in Words(F) /\ Shl(Cut(Shr(x, m), n), m) \in Words(F)
      /\ Cut(x, m + n) = Xor(Cut(x, m), Shl(Cut(Shr(x, m), n), m))
  BY PieceOfWord
<1> QED BY <1>1, TimesOfSum

\* So many pieces of n bits are the word.
Pieces(F, n, turns) == n \in Nat \ {0} /\ turns \in Nat /\ F.w \div n = turns /\ n * turns = F.w

\* The sum of the products of the pieces, each in its place.
LEMMA SplitIsTimes ==
    ASSUME NEW F, IsGF(F), NEW n, NEW turns, Pieces(F, n, turns), NEW mult,
           \A a, b \in Words(F) : Called(mult, a, b) = Times(F, a, b), NEW val \in Words(F), NEW x \in Words(F)
    PROVE  SplitProduct(F.w, n, mult, val, x) = Times(F, val, x)
<1>0. n \in Nat \ {0} /\ turns \in Nat /\ F.w \div n = turns /\ n * turns = F.w
  BY DEF Pieces
<1> DEFINE Turn(p, k) == Xor(p, mult[<<Shl(Piece(n, x, k), n * k), val>>])
           Value(f, i) == IF i = 0 THEN Zero ELSE Turn(f[i - 1], i - 1)
           after == CHOOSE f : f = [i \in 0..turns |-> Value(f, i)]
           v == [i \in 0..turns |-> Times(F, Cut(x, n * i), val)]
<1>1. SplitProduct(F.w, n, mult, val, x) = after[turns]
  BY <1>0 DEF SplitProduct, Repeat
<1>2. v[0] = Zero /\ v[turns] = Times(F, val, x)
  <2>1. Cut(x, n * 0) = Zero
    <3>1. n * 0 = 0 /\ x \in SUBSET Nat
      BY <1>0, WordsAre
    <3>2. \A i \in x : ~(i < 0)
      BY <3>1
    <3> QED BY <3>1, <3>2 DEF Cut, Zero
  <2>2. Times(F, Zero, val) = Zero
    BY TimesZero
  <2>3. Cut(x, n * turns) = x
    BY <1>0, WordParts
  <2>4. Times(F, x, val) = Times(F, val, x)
    BY TimesIsRing
  <2>5. 0 \in 0..turns /\ turns \in 0..turns
    BY <1>0
  <2> HIDE DEF after
  <2> QED BY <2>1, <2>2, <2>3, <2>4, <2>5
<1>3. \A i \in 0..(turns - 1) : v[i + 1] = Turn(v[i], i)
  <2> SUFFICES ASSUME NEW i \in 0..(turns - 1) PROVE v[i + 1] = Turn(v[i], i)
    OBVIOUS
  <2> DEFINE m == n * i
  <2>1. m \in Nat /\ n * (i + 1) = m + n /\ i \in 0..turns /\ i + 1 \in 0..turns
    BY <1>0
  <2>2. v[i] = Times(F, Cut(x, m), val) /\ v[i + 1] = Times(F, Cut(x, m + n), val)
    BY <2>1
  <2>3. Piece(n, x, i) = Cut(Shr(x, m), n)
    BY DEF Piece
  <2> HIDE DEF v, m, after
  <2>4. Shl(Cut(Shr(x, m), n), m) \in Words(F)
    BY <1>0, <2>1, PieceOfWord
  <2>5. mult[<<Shl(Piece(n, x, i), m), val>>] = Times(F, Shl(Cut(Shr(x, m), n), m), val)
    BY <2>3, <2>4 DEF Called
  <2>6. Turn(v[i], i) = Xor(v[i], mult[<<Shl(Piece(n, x, i), m), val>>])
    BY DEF m
  <2> HIDE DEF Turn
  <2>7. v[i + 1] = Xor(v[i], Times(F, Shl(Cut(Shr(x, m), n), m), val))
    BY <1>0, <2>1, <2>2, PieceAdds
  <2> QED BY <2>5, <2>6, <2>7
<1>4. v = [i \in 0..turns |-> Value(v, i)]
  <2>1. \A i \in 0..turns : i # 0 => i - 1 \in 0..(turns - 1) /\ (i - 1) + 1 = i
    BY <1>0
  <2>2. \A i \in 0..turns : v[i] = Value(v, i)
    <3> HIDE DEF v, Turn, after
    <3> QED BY <1>2, <1>3, <2>1
  <2> HIDE DEF Value, after
  <2> QED BY <2>2
<1>5. after = [i \in 0..turns |-> Value(after, i)]
  <2> HIDE DEF Value, v
  <2> QED BY <1>4
<1> HIDE DEF after, v, Turn
<1>6. after[turns] = v[turns]
  <2>1. after[0] = v[0]
    BY <1>0, <1>2, <1>5
  <2>2. ASSUME NEW i \in 0..(turns - 1), after[i] = v[i] PROVE after[i + 1] = v[i + 1]
    <3>1. i + 1 \in 0..turns /\ i + 1 # 0 /\ (i + 1) - 1 = i
      BY <1>0
    <3>2. after[i + 1] = Turn(after[i], i)
      BY <1>5, <3>1
    <3> QED BY <1>3, <2>2, <3>2
  <2> QED BY <1>0, <2>1, <2>2, LoopsAgree
<1> QED BY <1>1, <1>2, <1>6

\* A piece of the row of doublings adds the product with the piece in its place.
LEMMA DoubledPiece ==
    ASSUME NEW F, IsGF(F), NEW val \in Words(F), NEW m \in Nat, m < F.w, NEW s \in Words(F),
           Shl(s, m) \in Words(F), NEW f, \A i \in s : f[i] = Doublings(F, val, F.w)[m + i]
    PROVE  SumOver(s, f) = Times(F, Shl(s, m), val)
<1>1. s \in SUBSET Nat /\ s \in Polynomial /\ F.w \in Nat \ {0}
  BY WordsAre DEF IsGF
<1>2. XP(F, m) = {m} /\ {m} \in Words(F)
  <2>1. m \in 0..(F.w - 1)
    BY <1>1
  <2> QED BY <2>1, PowerIsBit
<1> DEFINE c == Times(F, {m}, val)
<1>3. c \in Words(F)
  BY <1>2, TimesIsRing
<1>4. ASSUME NEW i \in s PROVE f[i] = Times(F, {i}, c)
  <2>1. i \in Nat /\ m + i \in 0..(F.w - 1) /\ i \in 0..(F.w - 1)
    <3>1. i \in Nat /\ i + m \in Shl(s, m)
      BY <1>1 DEF Shl
    <3>2. i + m \in 0..(F.w - 1)
      BY <3>1 DEF Words
    <3> QED BY <1>1, <3>1, <3>2
  <2>2. Doublings(F, val, F.w)[m + i] = Times(F, XP(F, m + i), val)
    BY <1>1, <2>1, DoublingsAre
  <2>3. XP(F, m + i) = Times(F, {i}, {m})
    <3>1. XP(F, i + m) = Times(F, XP(F, i), XP(F, m)) /\ i + m = m + i
      BY <2>1, XPIs
    <3>2. XP(F, i) = {i}
      BY <2>1, PowerIsBit
    <3> QED BY <1>2, <3>1, <3>2
  <2>4. {i} \in Words(F)
    BY <2>1, PowerIsBit
  <2>5. Times(F, Times(F, {i}, {m}), val) = Times(F, {i}, Times(F, {m}, val))
    BY <1>2, <2>4, TimesIsRing
  <2> QED BY <2>2, <2>3, <2>5
<1> HIDE DEF c
<1>5. SumOver(s, f) = Times(F, s, c)
  BY <1>3, <1>4, SumIsTimes
<1>6. Times(F, s, c) = Times(F, Times(F, s, {m}), val)
  <2>1. Times(F, Times(F, s, {m}), val) = Times(F, s, Times(F, {m}, val))
    BY <1>2, TimesIsRing
  <2> QED BY <2>1 DEF c
<1>7. Times(F, s, {m}) = Shl(s, m)
  <2>1. Product(s, {m}) = Shl(s, m)
    BY <1>1, ProductOfPower
  <2> QED BY <2>1, WordsAre DEF Times
<1> QED BY <1>5, <1>6, <1>7

\* The same by doublings.
LEMMA DoubledIsTimes ==
    ASSUME NEW F, IsGF(F), NEW n, NEW turns, Pieces(F, n, turns), NEW val \in Words(F), NEW x \in Words(F)
    PROVE  DoubledProduct(F, n, val, x) = Times(F, val, x)
<1>0. n \in Nat \ {0} /\ turns \in Nat /\ F.w \div n = turns /\ n * turns = F.w
  BY DEF Pieces
<1> DEFINE doubled == Doublings(F, val, F.w)
           Turn(p, k) == Xor(p, SumOver(Piece(n, x, k), [i \in Piece(n, x, k) |-> doubled[n * k + i]]))
           Value(f, i) == IF i = 0 THEN Zero ELSE Turn(f[i - 1], i - 1)
           after == CHOOSE f : f = [i \in 0..turns |-> Value(f, i)]
           v == [i \in 0..turns |-> Times(F, Cut(x, n * i), val)]
<1>1. DoubledProduct(F, n, val, x) = after[turns]
  BY <1>0 DEF DoubledProduct, Repeat
<1>2. v[0] = Zero /\ v[turns] = Times(F, val, x)
  <2>1. Cut(x, n * 0) = Zero
    <3>1. n * 0 = 0 /\ x \in SUBSET Nat
      BY <1>0, WordsAre
    <3>2. \A i \in x : ~(i < 0)
      BY <3>1
    <3> QED BY <3>1, <3>2 DEF Cut, Zero
  <2>2. Times(F, Zero, val) = Zero
    BY TimesZero
  <2>3. Cut(x, n * turns) = x
    BY <1>0, WordParts
  <2>4. Times(F, x, val) = Times(F, val, x)
    BY TimesIsRing
  <2>5. 0 \in 0..turns /\ turns \in 0..turns
    BY <1>0
  <2> HIDE DEF after
  <2> QED BY <2>1, <2>2, <2>3, <2>4, <2>5
<1>3. \A i \in 0..(turns - 1) : v[i + 1] = Turn(v[i], i)
  <2> SUFFICES ASSUME NEW i \in 0..(turns - 1) PROVE v[i + 1] = Turn(v[i], i)
    OBVIOUS
  <2> DEFINE m == n * i
             s == Cut(Shr(x, m), n)
             f == [j \in Piece(n, x, i) |-> doubled[m + j]]
  <2>1. m \in Nat /\ n * (i + 1) = m + n /\ i \in 0..turns /\ i + 1 \in 0..turns /\ m < F.w
    <3>1. n * (i + 1) <= n * turns /\ n * (i + 1) = n * i + n
      BY <1>0
    <3> QED BY <1>0, <3>1
  <2>2. v[i] = Times(F, Cut(x, m), val) /\ v[i + 1] = Times(F, Cut(x, m + n), val)
    BY <2>1
  <2>3. Piece(n, x, i) = s
    BY DEF Piece
  <2>4. s \in Words(F) /\ Shl(s, m) \in Words(F)
    BY <1>0, <2>1, PieceOfWord
  <2>5. \A j \in s : f[j] = Doublings(F, val, F.w)[m + j]
    BY <2>3
  <2>6. Turn(v[i], i) = Xor(v[i], SumOver(s, f))
    BY <2>3
  <2> HIDE DEF v, after, f, Turn
  <2>7. SumOver(s, f) = Times(F, Shl(s, m), val)
    <3> HIDE DEF s, m
    <3> QED BY <2>1, <2>4, <2>5, DoubledPiece
  <2>8. v[i + 1] = Xor(v[i], Times(F, Shl(s, m), val))
    <3> HIDE DEF m
    <3> QED BY <1>0, <2>1, <2>2, PieceAdds
  <2> QED BY <2>6, <2>7, <2>8
<1>4. v = [i \in 0..turns |-> Value(v, i)]
  <2>1. \A i \in 0..turns : i # 0 => i - 1 \in 0..(turns - 1) /\ (i - 1) + 1 = i
    BY <1>0
  <2>2. \A i \in 0..turns : v[i] = Value(v, i)
    <3> HIDE DEF v, Turn, after
    <3> QED BY <1>2, <1>3, <2>1
  <2> HIDE DEF Value, after
  <2> QED BY <2>2
<1>5. after = [i \in 0..turns |-> Value(after, i)]
  <2> HIDE DEF Value, v
  <2> QED BY <1>4
<1> HIDE DEF after, v, Turn
<1>6. after[turns] = v[turns]
  <2>1. after[0] = v[0]
    BY <1>0, <1>2, <1>5
  <2>2. ASSUME NEW i \in 0..(turns - 1), after[i] = v[i] PROVE after[i + 1] = v[i + 1]
    <3>1. i + 1 \in 0..turns /\ i + 1 # 0 /\ (i + 1) - 1 = i
      BY <1>0
    <3>2. after[i + 1] = Turn(after[i], i)
      BY <1>5, <3>1
    <3> QED BY <1>3, <2>2, <3>2
  <2> QED BY <1>0, <2>1, <2>2, LoopsAgree
<1> QED BY <1>1, <1>2, <1>6

-----------------------------------------------------------------------------
(* What each function for regions leaves. *)

\* What an operation on a region leaves is a region, whatever the multiplier.
LEMMA RegionOpWithin ==
    ASSUME NEW w, NEW rd, NEW align, RegionCall(w, rd, align), NEW mult, WordOp(w, SlowOp(mult, rd.val)),
           NEW fast, \A x \in SUBSET Nat : fast[x] \in SUBSET Nat
    PROVE  RegionOp(w, rd, align, mult, fast) \in SUBSET Nat
<1> DEFINE span == GfSetRegionData(rd, align)
           a == 8 * span.start
           b == 8 * span.top
           x == Middle(rd.src, span)
           f == SlowOp(mult, rd.val)
           before == {i \in rd.src : 8 * 0 <= i /\ i < a}
           after == {i \in rd.src : b <= i /\ i < 8 * rd.bytes}
           p1 == PerWord(w, before, f)
           p2 == Shl(fast[Shr(x, a)], a)
           p3 == PerWord(w, after, f)
<1>0. w \in Nat \ {0} /\ rd.src \in SUBSET Nat /\ rd.bytes \in Nat /\ rd.dest \in SUBSET Nat
  BY DEF RegionCall
<1>1. a \in Nat
  BY <1>0, SpanOfWords
<1>2. InParts(w, rd, align, mult, fast) = Stored(rd, UNION {p1, p2, p3})
  <2>1. /\ GfSlowMultiplyRegion(w, rd, 0, span.start, mult) = p1
        /\ GfSlowMultiplyRegion(w, rd, span.top, rd.bytes, mult) = p3
    BY SlowRegion
  <2>2. Aligned(w, rd, align)
    BY DEF RegionCall
  <2> QED BY <2>1, <2>2 DEF InParts
<1>3. before \in SUBSET Nat /\ after \in SUBSET Nat /\ x \in SUBSET Nat
  BY <1>0 DEF Middle
<1> HIDE DEF a, b, x, before, after, f
<1>4. p1 \in SUBSET Nat /\ p3 \in SUBSET Nat
  <2>1. WordOp(w, f)
    BY DEF f
  <2> QED BY <1>0, <1>3, <2>1, PerWordIs, Zenon DEF WordsBecome
<1>5. p2 \in SUBSET Nat
  <2>1. Shr(x, a) \in SUBSET Nat
    BY <1>1, <1>3 DEF Shr
  <2>2. fast[Shr(x, a)] \in SUBSET Nat
    BY <2>1
  <2> QED BY <1>1, <2>2 DEF Shl
<1>6. UNION {p1, p2, p3} \in SUBSET Nat
  BY <1>4, <1>5
<1> HIDE DEF p1, p2, p3, span
<1>7. Stored(rd, UNION {p1, p2, p3}) \in SUBSET Nat /\ Stored(rd, rd.src) \in SUBSET Nat
  BY <1>0, <1>6 DEF Stored, Xor
<1> QED BY <1>0, <1>2, <1>7 DEF RegionOp, Zero

\* A multiplication of two words that is the field's.
Multiplier(F, mult) == \A a, b \in Words(F) : Called(mult, a, b) = Times(F, a, b)

\* The product by a word, as what is done to the words of a region.
LEMMA FieldsWordOp ==
    ASSUME NEW F, IsGF(F), NEW v \in Words(F), NEW op, \A s \in Words(F) : op[s] = Times(F, v, s)
    PROVE  WordOp(F.w, op)
<1>1. Words(F) = SUBSET (0..(F.w - 1)) /\ {} \in Words(F)
  BY DEF Words
<1>2. (\A s \in Words(F) : Times(F, v, s) \in Words(F)) /\ Times(F, v, {}) = {}
  BY TimesOpIs
<1>3. \A s \in Words(F) : op[s] \in Words(F)
  BY <1>2
<1> QED BY <1>1, <1>2, <1>3, Zenon DEF WordOp

\* A loop over words, with initial and final ones.
LEMMA ByWords ==
    ASSUME NEW F, NEW rd, Multiplying(F, rd), NEW mult, Multiplier(F, mult), NEW align, RegionCall(F.w, rd, align),
           NEW op, \A s \in Words(F) : op[s] = Times(F, rd.val, s)
    PROVE  Multiplied(F, rd, WordRegion(F.w, rd, align, mult, op))
<1>1. IsGF(F) /\ rd.val \in Words(F)
  BY MultiplyingIs
<1>2. \A s \in Words(F) : SlowOp(mult, rd.val)[s] = Times(F, rd.val, s)
  BY <1>1 DEF SlowOp, Multiplier, Called, Words, Bits, IsGF
<1> DEFINE fast == [x \in Bits |-> PerWord(F.w, x, op)]
<1>3. \A x \in SUBSET Nat : fast[x] = PerWord(F.w, x, op)
  BY DEF Bits
<1>4. WordRegion(F.w, rd, align, mult, op) = RegionOp(F.w, rd, align, mult, fast)
  BY DEF WordRegion
<1> HIDE DEF fast
<1>5. WordOp(F.w, SlowOp(mult, rd.val)) /\ WordOp(F.w, op)
  BY <1>1, <1>2, FieldsWordOp
<1>6. \A x \in SUBSET Nat : fast[x] \in SUBSET Nat
  <2>1. F.w \in Nat \ {0}
    BY <1>1 DEF IsGF
  <2>2. ASSUME NEW x \in SUBSET Nat PROVE PerWord(F.w, x, op) \in SUBSET Nat
    BY <1>5, <2>1, PerWordIs, Zenon DEF WordsBecome
  <2> QED BY <1>3, <2>2
<1>7. WordRegion(F.w, rd, align, mult, op) \in SUBSET Nat
  <2>1. RegionOp(F.w, rd, align, mult, fast) \in SUBSET Nat
    BY ONLY RegionCall(F.w, rd, align), <1>5, <1>6, RegionOpWithin
  <2> QED BY <1>4, <2>1
<1> QED BY <1>1, <1>2, <1>7, WordRegionIsTimes DEF Multiplied

\* A middle that multiplies many words at once, with initial and final words.
LEMMA ByMiddle ==
    ASSUME NEW F, NEW rd, Multiplying(F, rd), NEW mult, Multiplier(F, mult), NEW align, RegionCall(F.w, rd, align),
           NEW fast, \A x \in SUBSET Nat : IsProduct(F, rd.val, x, fast[x])
    PROVE  Multiplied(F, rd, RegionOp(F.w, rd, align, mult, fast))
<1>1. IsGF(F) /\ rd.val \in Words(F)
  BY MultiplyingIs
<1>2. \A s \in Words(F) : SlowOp(mult, rd.val)[s] = Times(F, rd.val, s)
  BY <1>1 DEF SlowOp, Multiplier, Called, Words, Bits, IsGF
<1>3. \A x \in SUBSET Nat : fast[x] \in SUBSET Nat
  BY DEF IsProduct
<1>4. WordOp(F.w, SlowOp(mult, rd.val))
  BY <1>1, <1>2, FieldsWordOp
<1>5. RegionOp(F.w, rd, align, mult, fast) \in SUBSET Nat
  BY <1>3, <1>4, RegionOpWithin, Zenon
<1> QED BY <1>1, <1>2, <1>5, RegionIsTimes DEF Multiplied

\* The middles of BYTWO.
LEMMA ByDoublings ==
    ASSUME NEW F, NEW rd, Multiplying(F, rd), NEW mult, Multiplier(F, mult), NEW align, RegionCall(F.w, rd, align),
           NEW fast \in BytwoMiddles(F, rd.val)
    PROVE  Multiplied(F, rd, RegionOp(F.w, rd, align, mult, fast))
<1>1. IsGF(F) /\ rd.val \in Words(F)
  BY MultiplyingIs
<1>2. \A s \in Words(F) : SlowOp(mult, rd.val)[s] = Times(F, rd.val, s)
  BY <1>1 DEF SlowOp, Multiplier, Called, Words, Bits, IsGF
<1>3. \A x \in SUBSET Nat : IsProduct(F, rd.val, x, fast[x])
  <2>1. F.w >= 4
    BY MultiplyingIs
  <2> QED BY <1>1, <2>1, BytwoMiddlesAreProducts
<1> QED BY <1>3, ByMiddle

\* The multiplications by doubling, which are the field's.
TimesByP(F) == Binary(LAMBDA a, b : BytwoPMultiply(F, a, b))
TimesByB(F) == Binary(LAMBDA a, b : BytwoBMultiply(F, a, b))

LEMMA BytwoMultipliers ==
    ASSUME NEW F, IsGF(F)
    PROVE  Multiplier(F, TimesByP(F)) /\ Multiplier(F, TimesByB(F))
<1>1. \A a \in Words(F) : a \in Bits
  BY DEF Words, Bits, IsGF
<1>2. \A a, b \in Words(F) : BytwoPMultiply(F, a, b) = Times(F, a, b) /\ BytwoBMultiply(F, a, b) = Times(F, a, b)
  BY BytwoPIsTimes, BytwoBIsTimes
<1>3. \A a, b \in Words(F) : TimesByP(F)[<<a, b>>] = BytwoPMultiply(F, a, b) /\ TimesByB(F)[<<a, b>>] = BytwoBMultiply(F, a, b)
  BY <1>1 DEF Binary, TimesByP, TimesByB
<1> QED BY <1>2, <1>3 DEF Multiplier, Called


-----------------------------------------------------------------------------
(* GF(2^4): the regions. *)

\* The formulas and the tables for words, bytes and pairs of bytes.
LEMMA TablesOfFourBits ==
    ASSUME NEW F, NEW rd, Multiplying(F, rd), F.w = 4, NEW mult, Multiplier(F, mult), NEW T, T = GfW4SingleTable(F),
           Multiplier(F, T)
    PROVE  /\ Multiplied(F, rd, GfW4MultiplyRegionFromSingle(rd, mult))
           /\ Multiplied(F, rd, GfW4SingleTableRegion(T, rd))
           /\ Multiplied(F, rd, GfW4SingleTableSseRegion(T, rd))
           /\ Multiplied(F, rd, GfW4SingleTableRegionNeon(T, rd))
           /\ Multiplied(F, rd, GfW4DoubleTableRegion(T, rd))
           /\ Multiplied(F, rd, GfW4QuadTableRegion(T, rd))
<1>1. /\ IsGF(F) /\ rd.val \in Words(F) /\ rd.src \in SUBSET Nat
      /\ RegionCall(F.w, rd, 16) /\ RegionCall(F.w, rd, 8) /\ RegionCall(F.w, rd, 1)
  BY MultiplyingIs
<1>2. \A s \in Words(F) : s \in Bits
  BY <1>1 DEF Words, Bits, IsGF
<1> DEFINE one == [s \in Bits |-> mult[<<rd.val, s>>]]
           single == [s \in Bits |-> T[<<rd.val, s>>]]
           two == [s \in Bits |-> GfW4DoubleTable(T, rd.val, s)]
           four == [s \in Bits |-> GfW4QuadTable(T, rd.val, s)]
           rows == [x \in Bits |-> SseTableRegion(T, x, rd.val)]
           quads == [x \in Bits |-> GfTwoByteRegionTableMultiply(x, four)]
<1>3. \A s \in Words(F) : one[s] = Times(F, rd.val, s)
  BY <1>1, <1>2 DEF Multiplier, Called
<1>4. \A s \in Words(F) : single[s] = Times(F, rd.val, s)
  BY <1>1, <1>2 DEF Multiplier, Called
<1>5. GfW4MultiplyRegionFromSingle(rd, mult) = WordRegion(F.w, rd, 1, mult, one)
  BY DEF GfW4MultiplyRegionFromSingle
<1>6. GfW4SingleTableRegion(T, rd) = Stored(rd, PerWord(F.w, rd.src, single))
  BY DEF GfW4SingleTableRegion
<1>7. GfW4SingleTableSseRegion(T, rd) = RegionOp(F.w, rd, 16, T, rows)
  BY DEF GfW4SingleTableSseRegion
<1>8. GfW4SingleTableRegionNeon(T, rd) = RegionOp(F.w, rd, 16, T, rows)
  BY DEF GfW4SingleTableRegionNeon
<1>9. Aligned(F.w, rd, 8)
  BY <1>1 DEF RegionCall
<1>10. GfW4DoubleTableRegion(T, rd) = Stored(rd, PerWord(8, rd.src, two))
  BY <1>9 DEF GfW4DoubleTableRegion
<1>11. GfW4QuadTableRegion(T, rd) = RegionOp(F.w, rd, 8, T, quads)
  BY DEF GfW4QuadTableRegion
<1>12. Widely(F.w, 2, TimesOp(F, rd.val), two) /\ Widely(F.w, 4, TimesOp(F, rd.val), four)
  BY <1>1, DoubleAndQuadAreWide
<1>13. \A x \in SUBSET Nat : IsProduct(F, rd.val, x, rows[x])
  BY <1>1, SseTableIsProduct DEF Bits
<1>14. 2 \in Nat \ {0} /\ 4 \in Nat \ {0} /\ 8 = 2 * F.w /\ 4 * F.w = 16
  OBVIOUS
<1> HIDE DEF two, four, one, single, rows
<1>15. \A x \in SUBSET Nat : IsProduct(F, rd.val, x, quads[x])
  <2> SUFFICES ASSUME NEW x \in SUBSET Nat PROVE IsProduct(F, rd.val, x, quads[x])
    OBVIOUS
  <2>1. quads[x] = GfTwoByteRegionTableMultiply(x, four)
    BY DEF Bits
  <2>2. IsProduct(F, rd.val, x, GfTwoByteRegionTableMultiply(x, four))
    BY <1>1, <1>12, <1>14, TwoByteTableIsProduct
  <2> QED BY <2>1, <2>2
<1>16. IsProduct(F, rd.val, rd.src, PerWord(8, rd.src, two))
  BY <1>1, <1>12, <1>14, WideIsProduct
<1> HIDE DEF quads
<1>17. Multiplied(F, rd, WordRegion(F.w, rd, 1, mult, one))
  BY <1>1, <1>3, ByWords
<1>18. Multiplied(F, rd, Stored(rd, PerWord(F.w, rd.src, single)))
  BY <1>4, PlainIsTimes
<1>19. Multiplied(F, rd, RegionOp(F.w, rd, 16, T, rows))
  BY <1>1, <1>13, ByMiddle
<1>20. Multiplied(F, rd, Stored(rd, PerWord(8, rd.src, two)))
  BY <1>16, StoredIsTimes
<1>21. Multiplied(F, rd, RegionOp(F.w, rd, 8, T, quads))
  BY <1>1, <1>15, ByMiddle
<1> QED BY <1>5, <1>6, <1>7, <1>8, <1>10, <1>11, <1>17, <1>18, <1>19, <1>20, <1>21

\* CARRY_FREE with NEON, and logarithms.
LEMMA OthersOfFourBits ==
    ASSUME NEW F, NEW rd, Multiplying(F, rd), F.w = 4, NEW mult, Multiplier(F, mult), NEW P
    PROVE  /\ F.poly \cap (2..3) = {} => Multiplied(F, rd, GfW4NeonClmRegion(F, rd, mult))
           /\ (\A a, b \in Words(F) : GfW4LogMultiply(P, a, b) = Times(F, a, b)) =>
                Multiplied(F, rd, GfW4LogMultiplyRegion(P, rd))
<1>1. IsGF(F) /\ rd.val \in Words(F) /\ rd.src \in SUBSET Nat /\ RegionCall(F.w, rd, 16)
  BY MultiplyingIs
<1>2. \A s \in Words(F) : s \in Bits
  BY <1>1 DEF Words, Bits, IsGF
<1> DEFINE clm == [s \in Bits |-> ClmMultiply(F, 1, rd.val, s)]
           log == [s \in Bits |-> GfW4LogMultiply(P, rd.val, s)]
<1>3. ASSUME F.poly \cap (2..3) = {} PROVE Multiplied(F, rd, GfW4NeonClmRegion(F, rd, mult))
  <2>1. GfW4NeonClmRegion(F, rd, mult) = WordRegion(F.w, rd, 16, mult, clm)
    BY DEF GfW4NeonClmRegion
  <2>2. \A s \in Words(F) : GfW4ClmMultiply(F, rd.val, s) = Times(F, rd.val, s)
    BY <1>1, <1>3, ReductionsSuffice
  <2>3. \A s \in Words(F) : clm[s] = Times(F, rd.val, s)
    BY <1>2, <2>2 DEF GfW4ClmMultiply
  <2> HIDE DEF clm
  <2> QED BY <1>1, <2>1, <2>3, ByWords
<1>4. ASSUME \A a, b \in Words(F) : GfW4LogMultiply(P, a, b) = Times(F, a, b)
      PROVE  Multiplied(F, rd, GfW4LogMultiplyRegion(P, rd))
  <2>1. GfW4LogMultiplyRegion(P, rd) = PlainRegion(F.w, rd, log)
    BY DEF GfW4LogMultiplyRegion, PlainRegion
  <2>2. \A s \in Words(F) : log[s] = Times(F, rd.val, s)
    BY <1>1, <1>2, <1>4
  <2> HIDE DEF log
  <2> QED BY <2>1, <2>2, PlainIsTimes
<1> QED BY <1>3, <1>4

\* The loop of gf_w4.c that skips words: BYTWO_b, the multiplier 9, no xor.
Skips(rd) == rd.val = {0, 3} /\ ~rd.xor

\* BYTWO.
LEMMA BytwoOfFourBits ==
    ASSUME NEW F, NEW rd, Multiplying(F, rd), F.w = 4
    PROVE  /\ Multiplied(F, rd, GfW4BytwoPNosseRegion(F, rd)) /\ Multiplied(F, rd, GfW4BytwoPSseRegion(F, rd))
           /\ Multiplied(F, rd, GfW4BytwoBSseRegion(F, rd))
           /\ ~Skips(rd) => Multiplied(F, rd, GfW4BytwoBNosseRegion(F, rd))
<1>1. IsGF(F) /\ rd.val \in Words(F) /\ RegionCall(F.w, rd, 16) /\ RegionCall(F.w, rd, 8)
  BY MultiplyingIs
<1> DEFINE p == TimesByP(F)
           b2 == TimesByB(F)
           ps == [x \in Bits |-> PackedBytwoP(F, rd.val, x)]
           bs == [x \in Bits |-> PackedBytwoB(F, rd.val, x)]
           cs == [x \in Bits |->
                    CASE rd.val = {1}       -> GfW4BytwoBSseRegion2(F, x)
                      [] rd.val = {0, 1}    -> GfW4BytwoBSseRegion3(F, x)
                      [] rd.val = {2}       -> GfW4BytwoBSseRegion4(F, x)
                      [] rd.val = {0, 2}    -> GfW4BytwoBSseRegion5(F, x)
                      [] rd.val = {1, 2}    -> GfW4BytwoBSseRegion6(F, x)
                      [] rd.val = {0, 1, 2} -> GfW4BytwoBSseRegion7(F, x)
                      [] OTHER              -> PackedBytwoB(F, rd.val, x)]
<1>2. Multiplier(F, p) /\ Multiplier(F, b2)
  BY <1>1, BytwoMultipliers
<1>3. ps \in BytwoMiddles(F, rd.val) /\ bs \in BytwoMiddles(F, rd.val) /\ cs \in BytwoMiddles(F, rd.val)
  BY DEF BytwoMiddles
<1>4. GfW4BytwoPNosseRegion(F, rd) = RegionOp(F.w, rd, 8, p, ps)
  BY Zenon DEF GfW4BytwoPNosseRegion, TimesByP
<1>5. GfW4BytwoPSseRegion(F, rd) = RegionOp(F.w, rd, 16, p, ps)
  BY Zenon DEF GfW4BytwoPSseRegion, TimesByP
<1>6. GfW4BytwoBSseRegion(F, rd) = RegionOp(F.w, rd, 16, b2, cs)
  BY Zenon DEF GfW4BytwoBSseRegion, TimesByB
<1>7. ~Skips(rd) => GfW4BytwoBNosseRegion(F, rd) = RegionOp(F.w, rd, 16, b2, bs)
  BY Zenon DEF GfW4BytwoBNosseRegion, Skips, TimesByB
<1> HIDE DEF p, b2, ps, bs, cs
<1> QED BY <1>1, <1>2, <1>3, <1>4, <1>5, <1>6, <1>7, ByDoublings


-----------------------------------------------------------------------------
(* GF(2^8): the regions. *)

\* The formulas and tables.
LEMMA TablesOfEightBits ==
    ASSUME NEW F, NEW rd, Multiplying(F, rd), F.w = 8, NEW mult, Multiplier(F, mult)
    PROVE  /\ Multiplied(F, rd, GfW8MultiplyRegionFromSingle(rd, mult))
           /\ Multiplied(F, rd, GfW8TableMultiplyRegion(F, rd))
           /\ Multiplied(F, rd, GfW8DoubleTableMultiplyRegion(F, rd))
           /\ Multiplied(F, rd, GfW8SplitMultiplyRegion(F, rd))
           /\ Multiplied(F, rd, GfW8SplitMultiplyRegionSse(F, rd, mult))
           /\ Multiplied(F, rd, GfW8SplitMultiplyRegionNeon(F, rd, mult))
<1>1. /\ IsGF(F) /\ rd.val \in Words(F) /\ rd.src \in SUBSET Nat /\ F.w \in Nat \ {0}
      /\ RegionCall(F.w, rd, 16) /\ RegionCall(F.w, rd, 8) /\ RegionCall(F.w, rd, 1)
  BY MultiplyingIs
<1>2. \A s \in Words(F) : s \in Bits
  BY <1>1 DEF Words, Bits, IsGF
<1>3. \A a, b \in Words(F) : /\ GfW8TableMultiply(F, a, b) = Times(F, a, b) /\ GfW8SplitMultiply(F, a, b) = Times(F, a, b)
                             /\ Times(F, a, b) = Times(F, b, a)
  <2> SUFFICES ASSUME NEW a \in Words(F), NEW b \in Words(F)
               PROVE  /\ GfW8TableMultiply(F, a, b) = Times(F, a, b) /\ GfW8SplitMultiply(F, a, b) = Times(F, a, b)
                      /\ Times(F, a, b) = Times(F, b, a)
    OBVIOUS
  <2>1. Times(F, a, b) = Times(F, b, a)
    BY <1>1, WordSums
  <2>2. GfW8TableMultiply(F, a, b) = Times(F, a, b) /\ GfW8SplitMultiply(F, a, b) = Times(F, a, b)
    BY <1>1, TablesAreTimes
  <2> QED BY <2>1, <2>2
<1> DEFINE one == [s \in Bits |-> mult[<<rd.val, s>>]]
           table == [s \in Bits |-> GfW8TableMultiply(F, s, rd.val)]
           tables == Binary(LAMBDA a, b : GfW8TableMultiply(F, a, b))
           two == [s \in Bits |-> GfW8DoubleTable(F, rd.val, s)]
           twos == [x \in Bits |-> GfTwoByteRegionTableMultiply(x, two)]
           split == [s \in Bits |-> Xor(SplitHigh(F, rd.val, Shr(s, 4)), SplitLow(F, rd.val, Cut(s, 4)))]
<1>4. \A s \in Words(F) : one[s] = Times(F, rd.val, s)
  BY <1>1, <1>2 DEF Multiplier, Called
<1>5. \A s \in Words(F) : table[s] = Times(F, rd.val, s)
  BY <1>1, <1>2, <1>3
<1>6. \A s \in Words(F) : split[s] = GfW8SplitMultiply(F, s, rd.val)
  BY <1>2 DEF GfW8SplitMultiply
<1>7. \A s \in Words(F) : split[s] = Times(F, rd.val, s)
  BY <1>1, <1>3, <1>6
<1>8. \A a, b \in Words(F) : tables[<<a, b>>] = GfW8TableMultiply(F, a, b)
  BY <1>2 DEF Binary
<1>9. GfW8MultiplyRegionFromSingle(rd, mult) = WordRegion(F.w, rd, 1, mult, one)
  BY DEF GfW8MultiplyRegionFromSingle
<1>10. GfW8TableMultiplyRegion(F, rd) = PlainRegion(F.w, rd, table)
  BY DEF GfW8TableMultiplyRegion
<1>11. GfW8DoubleTableMultiplyRegion(F, rd) = RegionOp(F.w, rd, 8, tables, twos)
  BY Zenon DEF GfW8DoubleTableMultiplyRegion
<1>12. GfW8SplitMultiplyRegion(F, rd) = PlainRegion(F.w, rd, split)
  BY DEF GfW8SplitMultiplyRegion
<1>13. GfW8SplitMultiplyRegionSse(F, rd, mult) = WordRegion(F.w, rd, 16, mult, split)
  BY DEF GfW8SplitMultiplyRegionSse
<1>14. \A s \in SUBSET (0..15) : two[s] = GfW8TableMultiply(F, rd.val, Cut(s, 8)) \cup Shl(GfW8TableMultiply(F, rd.val, Shr(s, 8)), 8)
  BY DEF GfW8DoubleTable, Bits
<1> HIDE DEF tables, one, table, split, two
<1>15. Multiplier(F, tables)
  BY <1>3, <1>8 DEF Multiplier, Called
<1>16. Widely(8, 2, TimesOp(F, rd.val), two)
  <2> DEFINE op == TimesOp(F, rd.val)
  <2>1. WordOp(8, op) /\ \A s \in Words(F) : op[s] = Times(F, rd.val, s)
    BY <1>1, TimesOpIs
  <2>2. Words(F) = SUBSET (0..7)
    BY DEF Words
  <2>3. \A s \in SUBSET (0..15) : Cut(s, 8) \in SUBSET (0..7) /\ Shr(s, 8) \in SUBSET (0..7)
    <3>1. 8 \in Nat \ {0} /\ 2 * 8 - 1 = 15 /\ 8 - 1 = 7
      OBVIOUS
    <3> QED BY <3>1, Halves
  <2>4. \A s \in SUBSET (0..7) : GfW8TableMultiply(F, rd.val, s) = op[s]
    BY <1>1, <1>3, <2>1, <2>2
  <2> HIDE DEF op
  <2>5. \A s \in SUBSET (0..15) : two[s] = op[Cut(s, 8)] \cup Shl(op[Shr(s, 8)], 8)
    BY <1>14, <2>3, <2>4
  <2>6. 8 \in Nat \ {0} /\ 2 * 8 - 1 = 15
    OBVIOUS
  <2>7. Widely(8, 2, op, two)
    BY <2>1, <2>5, <2>6, PairsAreWide
  <2> QED BY <2>7 DEF op
<1>17. \A x \in SUBSET Nat : IsProduct(F, rd.val, x, twos[x])
  <2> SUFFICES ASSUME NEW x \in SUBSET Nat PROVE IsProduct(F, rd.val, x, twos[x])
    OBVIOUS
  <2>1. twos[x] = GfTwoByteRegionTableMultiply(x, two)
    BY DEF Bits
  <2>2. 2 \in Nat \ {0} /\ 2 * F.w = 16
    OBVIOUS
  <2>3. IsProduct(F, rd.val, x, GfTwoByteRegionTableMultiply(x, two))
    BY <1>1, <1>16, <2>2, TwoByteTableIsProduct
  <2> QED BY <2>1, <2>3
<1> HIDE DEF twos
<1>18. Multiplied(F, rd, GfW8MultiplyRegionFromSingle(rd, mult))
  BY <1>1, <1>4, <1>9, ByWords
<1>19. Multiplied(F, rd, GfW8TableMultiplyRegion(F, rd))
  BY <1>5, <1>10, PlainIsTimes
<1>20. Multiplied(F, rd, GfW8DoubleTableMultiplyRegion(F, rd))
  BY <1>1, <1>11, <1>15, <1>17, ByMiddle
<1>21. Multiplied(F, rd, GfW8SplitMultiplyRegion(F, rd))
  BY <1>7, <1>12, PlainIsTimes
<1>22. Multiplied(F, rd, GfW8SplitMultiplyRegionSse(F, rd, mult))
  BY <1>1, <1>7, <1>13, ByWords
<1> QED BY <1>18, <1>19, <1>20, <1>21, <1>22 DEF GfW8SplitMultiplyRegionNeon

\* CARRY_FREE.
LEMMA CarryFreeOfEightBits ==
    ASSUME NEW F, NEW rd, Multiplying(F, rd), F.w = 8, NEW mult, Multiplier(F, mult)
    PROVE  /\ Reductions(F) = 2 => Multiplied(F, rd, GfW8ClmRegion2(F, rd, mult))
           /\ Reductions(F) = 3 => Multiplied(F, rd, GfW8ClmRegion3(F, rd, mult))
           /\ Reductions(F) = 4 => Multiplied(F, rd, GfW8ClmRegion4(F, rd, mult))
           /\ Reductions(F) = 2 => Multiplied(F, rd, GfW8NeonClmRegion(F, 2, rd, mult))
<1>1. /\ IsGF(F) /\ rd.val \in Words(F) /\ RegionCall(F.w, rd, 16) /\ RegionCall(F.w, rd, 1)
  BY MultiplyingIs
<1>2. \A s \in Words(F) : s \in Bits
  BY <1>1 DEF Words, Bits, IsGF
<1> DEFINE clm(n) == [s \in Bits |-> ClmMultiply(F, n, rd.val, s)]
           neon == [s \in Bits |-> GfW8NeonClmMultiplyX(F, 2, rd.val, s)]
<1>3. \A n : \A s \in Words(F) : clm(n)[s] = ClmMultiply(F, n, rd.val, s)
  BY <1>2
<1>4. \A s \in Words(F) : neon[s] = GfW8NeonClmMultiplyX(F, 2, rd.val, s)
  BY <1>2
<1>5. GfW8ClmRegion2(F, rd, mult) = WordRegion(F.w, rd, 1, mult, clm(2))
  BY DEF GfW8ClmRegion2
<1>6. GfW8ClmRegion3(F, rd, mult) = WordRegion(F.w, rd, 1, mult, clm(3))
  BY DEF GfW8ClmRegion3
<1>7. GfW8ClmRegion4(F, rd, mult) = WordRegion(F.w, rd, 1, mult, clm(4))
  BY DEF GfW8ClmRegion4
<1>8. GfW8NeonClmRegion(F, 2, rd, mult) = WordRegion(F.w, rd, 16, mult, neon)
  BY DEF GfW8NeonClmRegion
<1> HIDE DEF clm, neon
<1>9. Reductions(F) # 0 => F.poly \cap {7} = {} /\ (Reductions(F) = 2 => F.poly \cap {5, 6, 7} = {})
  BY ReductionsAre
<1>10. F.poly \cap {7} = {} => \A s \in Words(F) : ClmMultiply(F, Reductions(F), rd.val, s) = Times(F, rd.val, s)
  BY <1>1, ReductionsSuffice
<1>11. ASSUME NEW n \in {2, 3, 4}, Reductions(F) = n
       PROVE  Multiplied(F, rd, WordRegion(F.w, rd, 1, mult, clm(n)))
  <2>1. \A s \in Words(F) : clm(n)[s] = Times(F, rd.val, s)
    BY <1>3, <1>9, <1>10, <1>11
  <2> QED BY <1>1, <2>1, ByWords
<1>12. ASSUME Reductions(F) = 2
       PROVE  Multiplied(F, rd, WordRegion(F.w, rd, 16, mult, neon))
  <2>1. \A s \in Words(F) : neon[s] = Times(F, rd.val, s)
    BY <1>1, <1>4, <1>9, <1>12, NeonTwiceIsTimes
  <2> QED BY <1>1, <2>1, ByWords
<1> QED BY <1>5, <1>6, <1>7, <1>8, <1>11, <1>12

\* Logarithms, with and without a test for 0.
LEMMA LogsOfEightBits ==
    ASSUME NEW F, NEW rd, Multiplying(F, rd), F.w = 8, Cycle(F), NEW P, AreLogs(F, P)
    PROVE  /\ Multiplied(F, rd, GfW8LogMultiplyRegion(P, rd))
           /\ Multiplied(F, rd, GfW8LogzeroMultiplyRegion(rd, [i \in Nat |-> SmallAntilog(P, i)],
                                                              [x \in Bits |-> SmallLog(P, x)]))
           /\ Multiplied(F, rd, GfW8LogzeroMultiplyRegion(rd, [i \in Nat |-> ExtAntilog(P, i)],
                                                              [x \in Bits |-> ExtLog(P, x)]))
<1>1. IsGF(F) /\ rd.val \in Words(F)
  BY MultiplyingIs
<1>2. \A s \in Words(F) : s \in Bits
  BY <1>1 DEF Words, Bits, IsGF
<1> DEFINE smallAnti == [i \in Nat |-> SmallAntilog(P, i)]
           smallLog == [x \in Bits |-> SmallLog(P, x)]
           extAnti == [i \in Nat |-> ExtAntilog(P, i)]
           extLog == [x \in Bits |-> ExtLog(P, x)]
           log == [s \in Bits |-> GfW8LogMultiply(P, rd.val, s)]
           small == [s \in Bits |-> smallAnti[smallLog[rd.val] + smallLog[s]]]
           ext == [s \in Bits |-> extAnti[extLog[rd.val] + extLog[s]]]
<1>3. \A s \in Words(F) : /\ GfW8LogMultiply(P, rd.val, s) = Times(F, rd.val, s)
                          /\ GfW8LogzeroSmallMultiply(P, rd.val, s) = Times(F, rd.val, s)
                          /\ GfW8LogzeroMultiply(P, rd.val, s) = Times(F, rd.val, s)
  BY <1>1, LogsAreTimes
<1>4. \A s \in Words(F) \ {Zero} : P.log[s] \in Nat
  <2>1. \A s \in Words(F) \ {Zero} : P.log[s] \in Turns(F)
    BY DEF AreLogs
  <2>2. Turns(F) \subseteq Nat
    BY DEF Turns
  <2> QED BY <2>1, <2>2
<1>5. \A s \in Words(F) : SmallLog(P, s) \in Nat /\ ExtLog(P, s) \in Nat
  BY <1>4 DEF SmallLog, ExtLog
<1>6. \A s \in Words(F) : smallLog[s] = SmallLog(P, s) /\ extLog[s] = ExtLog(P, s)
  BY <1>2
<1>7. \A i \in Nat : smallAnti[i] = SmallAntilog(P, i) /\ extAnti[i] = ExtAntilog(P, i)
  OBVIOUS
<1>8. \A s \in Words(F) : /\ log[s] = GfW8LogMultiply(P, rd.val, s)
                          /\ small[s] = smallAnti[smallLog[rd.val] + smallLog[s]]
                          /\ ext[s] = extAnti[extLog[rd.val] + extLog[s]]
  BY <1>2
<1>9. GfW8LogMultiplyRegion(P, rd) = PlainRegion(F.w, rd, log)
  BY DEF GfW8LogMultiplyRegion
<1>10. GfW8LogzeroMultiplyRegion(rd, smallAnti, smallLog) = PlainRegion(F.w, rd, small)
  BY DEF GfW8LogzeroMultiplyRegion
<1>11. GfW8LogzeroMultiplyRegion(rd, extAnti, extLog) = PlainRegion(F.w, rd, ext)
  BY DEF GfW8LogzeroMultiplyRegion
<1> HIDE DEF smallAnti, smallLog, extAnti, extLog, log, small, ext
<1>12. \A s \in Words(F) : log[s] = Times(F, rd.val, s)
  BY <1>3, <1>8
<1>13. \A s \in Words(F) : small[s] = Times(F, rd.val, s)
  <2> SUFFICES ASSUME NEW s \in Words(F) PROVE small[s] = Times(F, rd.val, s)
    OBVIOUS
  <2>1. SmallLog(P, rd.val) \in Nat /\ SmallLog(P, s) \in Nat /\ SmallLog(P, rd.val) + SmallLog(P, s) \in Nat
    BY <1>1, <1>5
  <2>2. small[s] = SmallAntilog(P, SmallLog(P, rd.val) + SmallLog(P, s))
    BY <1>1, <1>6, <1>7, <1>8, <2>1
  <2>3. CASE s # Zero
    BY <1>3, <2>2, <2>3 DEF GfW8LogzeroSmallMultiply
  <2>4. CASE s = Zero
    <3>1. SmallLog(P, s) = 510
      BY <2>4 DEF SmallLog
    <3>2. small[s] = Zero
      BY <2>1, <2>2, <3>1 DEF SmallAntilog
    <3> QED BY <1>1, <2>4, <3>2, TimesZero
  <2> QED BY <2>3, <2>4
<1>14. \A s \in Words(F) : ext[s] = Times(F, rd.val, s)
  <2> SUFFICES ASSUME NEW s \in Words(F) PROVE ext[s] = Times(F, rd.val, s)
    OBVIOUS
  <2>1. ExtLog(P, rd.val) + ExtLog(P, s) \in Nat
    BY <1>1, <1>5
  <2>2. ext[s] = ExtAntilog(P, ExtLog(P, rd.val) + ExtLog(P, s))
    BY <1>1, <1>6, <1>7, <1>8, <2>1
  <2> QED BY <1>3, <2>2 DEF GfW8LogzeroMultiply
<1>15. Multiplied(F, rd, PlainRegion(F.w, rd, log))
  BY <1>12, PlainIsTimes
<1>16. Multiplied(F, rd, PlainRegion(F.w, rd, small))
  BY <1>13, PlainIsTimes
<1>17. Multiplied(F, rd, PlainRegion(F.w, rd, ext))
  BY <1>14, PlainIsTimes
<1>18. /\ Multiplied(F, rd, GfW8LogMultiplyRegion(P, rd))
       /\ Multiplied(F, rd, GfW8LogzeroMultiplyRegion(rd, smallAnti, smallLog))
       /\ Multiplied(F, rd, GfW8LogzeroMultiplyRegion(rd, extAnti, extLog))
  BY <1>9, <1>10, <1>11, <1>15, <1>16, <1>17
<1> QED BY <1>18 DEF smallAnti, smallLog, extAnti, extLog

\* BYTWO.
LEMMA BytwoOfEightBits ==
    ASSUME NEW F, NEW rd, Multiplying(F, rd), F.w = 8
    PROVE  /\ Multiplied(F, rd, GfW8BytwoPNosseRegion(F, rd)) /\ Multiplied(F, rd, GfW8BytwoPSseRegion(F, rd))
           /\ Multiplied(F, rd, GfW8BytwoBNosseRegion(F, rd)) /\ Multiplied(F, rd, GfW8BytwoBSseRegion(F, rd))
<1>1. IsGF(F) /\ rd.val \in Words(F) /\ RegionCall(F.w, rd, 16) /\ RegionCall(F.w, rd, 8)
  BY MultiplyingIs
<1> DEFINE p == TimesByP(F)
           b2 == TimesByB(F)
           ps == [x \in Bits |-> PackedBytwoP(F, rd.val, x)]
           cs == [x \in Bits |-> IF rd.val = {1} THEN PackedDouble(F, x) ELSE PackedBytwoB(F, rd.val, x)]
           Twice(x) == PackedDouble(F, PackedDouble(F, x))
           ds == [x \in Bits |->
                    CASE rd.val = {1}    -> PackedDouble(F, x)
                      [] rd.val = {0, 1} -> Xor(PackedDouble(F, x), x)
                      [] rd.val = {2}    -> Twice(x)
                      [] rd.val = {0, 2} -> Xor(Twice(x), x)
                      [] rd.val = {1, 2} -> Xor(Twice(x), PackedDouble(F, x))
                      [] rd.val = {3}    -> PackedDouble(F, Twice(x))
                      [] OTHER           -> PackedBytwoB(F, rd.val, x)]
<1>2. Multiplier(F, p) /\ Multiplier(F, b2)
  BY <1>1, BytwoMultipliers
<1>3. ps \in BytwoMiddles(F, rd.val) /\ cs \in BytwoMiddles(F, rd.val) /\ ds \in BytwoMiddles(F, rd.val)
  BY DEF BytwoMiddles
<1>4. GfW8BytwoPNosseRegion(F, rd) = RegionOp(F.w, rd, 8, p, ps)
  BY Zenon DEF GfW8BytwoPNosseRegion, TimesByP
<1>5. GfW8BytwoPSseRegion(F, rd) = RegionOp(F.w, rd, 16, p, ps)
  BY Zenon DEF GfW8BytwoPSseRegion, TimesByP
<1>6. GfW8BytwoBSseRegion(F, rd) = RegionOp(F.w, rd, 16, b2, cs)
  BY Zenon DEF GfW8BytwoBSseRegion, TimesByB
<1>7. GfW8BytwoBNosseRegion(F, rd) = RegionOp(F.w, rd, 16, b2, ds)
  BY Zenon DEF GfW8BytwoBNosseRegion, TimesByB
<1> HIDE DEF p, b2, ps, cs, ds
<1> QED BY <1>1, <1>2, <1>3, <1>4, <1>5, <1>6, <1>7, ByDoublings



-----------------------------------------------------------------------------
(* GF(2^16): the regions. *)

\* The multiplications by logarithms, which are the field's.
TimesByLogs(P) == Binary(LAMBDA a, b : GfW16LogMultiply(P.antilog, P.log, a, b))
TimesByLogsOfZero(P) == Binary(LAMBDA a, b : GfW16LogZeroMultiply(P.antilog, P.log, a, b))

\* The logarithms.
LEMMA LogsOfSixteenBits ==
    ASSUME NEW F, NEW rd, Multiplying(F, rd), F.w = 16, Cycle(F), NEW P, AreLogs(F, P)
    PROVE  /\ Multiplied(F, rd, GfW16LogMultiplyRegion(P.antilog, P.log, rd))
           /\ Multiplied(F, rd, GfW16LogZeroMultiplyRegion(P.antilog, P.log, rd))
<1>1. IsGF(F) /\ rd.val \in Words(F) /\ RegionCall(F.w, rd, 2)
  BY MultiplyingIs
<1>2. \A s \in Words(F) : s \in Bits
  BY <1>1 DEF Words, Bits, IsGF
<1>3. \A a, b \in Words(F) : /\ GfW16LogMultiply(P.antilog, P.log, a, b) = Times(F, a, b)
                             /\ GfW16LogZeroMultiply(P.antilog, P.log, a, b) = Times(F, a, b)
  BY <1>1, LogsAreTimes
<1>4. \A a, b \in Words(F) :
        /\ TimesByLogs(P)[<<a, b>>] = GfW16LogMultiply(P.antilog, P.log, a, b)
        /\ TimesByLogsOfZero(P)[<<a, b>>] = GfW16LogZeroMultiply(P.antilog, P.log, a, b)
  BY <1>2 DEF Binary, TimesByLogs, TimesByLogsOfZero
<1>5. Multiplier(F, TimesByLogs(P)) /\ Multiplier(F, TimesByLogsOfZero(P))
  BY <1>3, <1>4 DEF Multiplier, Called
<1> DEFINE one == [s \in Bits |-> TimesByLogs(P)[<<rd.val, s>>]]
           zero == [s \in Bits |-> TimesByLogsOfZero(P)[<<rd.val, s>>]]
<1>6. GfW16LogMultiplyRegion(P.antilog, P.log, rd) = WordRegion(F.w, rd, 2, TimesByLogs(P), one)
  BY Zenon DEF GfW16LogMultiplyRegion, TimesByLogs
<1>7. GfW16LogZeroMultiplyRegion(P.antilog, P.log, rd) = WordRegion(F.w, rd, 2, TimesByLogsOfZero(P), zero)
  BY Zenon DEF GfW16LogZeroMultiplyRegion, TimesByLogsOfZero
<1>8. \A s \in Words(F) : one[s] = Times(F, rd.val, s) /\ zero[s] = Times(F, rd.val, s)
  BY <1>1, <1>2, <1>5 DEF Multiplier, Called
<1> HIDE DEF one, zero
<1>9. Multiplied(F, rd, WordRegion(F.w, rd, 2, TimesByLogs(P), one))
  BY <1>1, <1>5, <1>8, ByWords
<1>10. Multiplied(F, rd, WordRegion(F.w, rd, 2, TimesByLogsOfZero(P), zero))
  BY <1>1, <1>5, <1>8, ByWords
<1> QED BY <1>6, <1>7, <1>9, <1>10

\* One by one, in groups and from the pieces of SPLIT.
LEMMA PiecesOfSixteenBits ==
    ASSUME NEW F, NEW rd, Multiplying(F, rd), F.w = 16, NEW mult, Multiplier(F, mult)
    PROVE  /\ Multiplied(F, rd, GfW16MultiplyRegionFromSingle(rd, mult))
           /\ Multiplied(F, rd, GfW16Group44RegionMultiply(F, rd, mult))
           /\ Multiplied(F, rd, GfW16Split416LazyMultiplyRegion(rd, mult))
           /\ Multiplied(F, rd, GfW16Split416LazySseMultiplyRegion(rd, mult))
           /\ Multiplied(F, rd, GfW16Split416LazyNeonMultiplyRegion(rd, FALSE, mult))
           /\ Multiplied(F, rd, GfW16Split816LazyMultiplyRegion(F, rd, mult))
<1>1. IsGF(F) /\ rd.val \in Words(F) /\ RegionCall(F.w, rd, 2) /\ RegionCall(F.w, rd, 8) /\ RegionCall(F.w, rd, 32)
  BY MultiplyingIs
<1>2. \A s \in Words(F) : s \in Bits
  BY <1>1 DEF Words, Bits, IsGF
<1> DEFINE one == [s \in Bits |-> mult[<<rd.val, s>>]]
           group == [s \in Bits |-> GfW16Group44Multiply(F, s, rd.val)]
           fours == [s \in Bits |-> SplitProduct(16, 4, mult, rd.val, s)]
           eights == [s \in Bits |-> DoubledProduct(F, 8, rd.val, s)]
<1>3. \A s \in Words(F) : one[s] = Times(F, rd.val, s)
  BY <1>1, <1>2 DEF Multiplier, Called
<1>4. \A s \in Words(F) : group[s] = Times(F, rd.val, s)
  <2> SUFFICES ASSUME NEW s \in Words(F) PROVE group[s] = Times(F, rd.val, s)
    OBVIOUS
  <2>1. GfW16Group44Multiply(F, s, rd.val) = Times(F, s, rd.val)
    BY <1>1, Group44IsTimes
  <2>2. Times(F, s, rd.val) = Times(F, rd.val, s)
    BY <1>1, WordSums
  <2> QED BY <1>2, <2>1, <2>2
<1>5. \A s \in Words(F) : fours[s] = Times(F, rd.val, s)
  <2> SUFFICES ASSUME NEW s \in Words(F) PROVE fours[s] = Times(F, rd.val, s)
    OBVIOUS
  <2>1. Pieces(F, 4, 4)
    BY DEF Pieces
  <2>2. \A a, b \in Words(F) : Called(mult, a, b) = Times(F, a, b)
    BY DEF Multiplier
  <2>3. SplitProduct(F.w, 4, mult, rd.val, s) = Times(F, rd.val, s)
    BY <1>1, <2>1, <2>2, SplitIsTimes
  <2> QED BY <1>2, <2>3
<1>6. \A s \in Words(F) : eights[s] = Times(F, rd.val, s)
  <2> SUFFICES ASSUME NEW s \in Words(F) PROVE eights[s] = Times(F, rd.val, s)
    OBVIOUS
  <2>1. Pieces(F, 8, 2)
    BY DEF Pieces
  <2>2. DoubledProduct(F, 8, rd.val, s) = Times(F, rd.val, s)
    BY <1>1, <2>1, DoubledIsTimes
  <2> QED BY <1>2, <2>2
<1>7. GfW16MultiplyRegionFromSingle(rd, mult) = WordRegion(F.w, rd, 2, mult, one)
  BY DEF GfW16MultiplyRegionFromSingle
<1>8. GfW16Group44RegionMultiply(F, rd, mult) = WordRegion(F.w, rd, 2, mult, group)
  BY DEF GfW16Group44RegionMultiply
<1>9. GfW16Split416LazyMultiplyRegion(rd, mult) = WordRegion(F.w, rd, 2, mult, fours)
  BY DEF GfW16Split416LazyMultiplyRegion
<1>10. GfW16Split416LazySseMultiplyRegion(rd, mult) = WordRegion(F.w, rd, 32, mult, fours)
  BY DEF GfW16Split416LazySseMultiplyRegion
<1>11. GfW16Split816LazyMultiplyRegion(F, rd, mult) = WordRegion(F.w, rd, 8, mult, eights)
  BY DEF GfW16Split816LazyMultiplyRegion
<1>12. GfW16Split416LazyNeonMultiplyRegion(rd, FALSE, mult) = GfW16Split416LazySseMultiplyRegion(rd, mult)
  BY DEF GfW16Split416LazyNeonMultiplyRegion
<1> HIDE DEF one, group, fours, eights
<1>13. Multiplied(F, rd, WordRegion(F.w, rd, 2, mult, one))
  BY <1>1, <1>3, ByWords
<1>14. Multiplied(F, rd, WordRegion(F.w, rd, 2, mult, group))
  BY <1>1, <1>4, ByWords
<1>15. Multiplied(F, rd, WordRegion(F.w, rd, 2, mult, fours)) /\ Multiplied(F, rd, WordRegion(F.w, rd, 32, mult, fours))
  BY <1>1, <1>5, ByWords
<1>16. Multiplied(F, rd, WordRegion(F.w, rd, 8, mult, eights))
  BY <1>1, <1>6, ByWords
<1> QED BY <1>7, <1>8, <1>9, <1>10, <1>11, <1>12, <1>13, <1>14, <1>15, <1>16

\* The table for pairs of bytes, filled for each multiplier.
LEMMA TableOfSixteenBits ==
    ASSUME NEW F, NEW rd, Multiplying(F, rd), F.w = 16, NEW mult, Multiplier(F, mult)
    PROVE  Multiplied(F, rd, GfW16TableLazyMultiplyRegion(F, rd, mult))
<1>1. IsGF(F) /\ rd.val \in Words(F) /\ RegionCall(F.w, rd, 8)
  BY MultiplyingIs
<1>2. Words(F) = SUBSET (0..15) /\ \A s \in Words(F) : s \in Bits
  BY <1>1 DEF Words, Bits, IsGF
<1> DEFINE op == TimesOp(F, rd.val)
           table == [s \in Bits |-> GfW16ShiftMultiply(F, s, rd.val)]
           fast == [x \in Bits |-> GfTwoByteRegionTableMultiply(x, table)]
<1>3. WordOp(F.w, op) /\ (\A s \in Words(F) : op[s] = Times(F, rd.val, s) /\ Times(F, rd.val, s) \in Words(F))
      /\ Times(F, rd.val, {}) = {}
  BY <1>1, TimesOpIs
<1>4. \A s \in Words(F) : table[s] = op[s]
  <2> SUFFICES ASSUME NEW s \in Words(F) PROVE table[s] = op[s]
    OBVIOUS
  <2>1. GfW16ShiftMultiply(F, s, rd.val) = Times(F, s, rd.val)
    BY <1>1, ShiftIsTimes
  <2>2. Times(F, s, rd.val) = Times(F, rd.val, s)
    BY <1>1, WordSums
  <2> QED BY <1>2, <1>3, <2>1, <2>2
<1>5. GfW16TableLazyMultiplyRegion(F, rd, mult) = RegionOp(F.w, rd, 8, mult, fast)
  BY DEF GfW16TableLazyMultiplyRegion
<1>6. \A x \in SUBSET Nat : fast[x] = GfTwoByteRegionTableMultiply(x, table)
  BY DEF Bits
<1> HIDE DEF table, fast, op
<1>7. WordOp(16, table)
  <2>1. {} \in Words(F)
    BY <1>2
  <2>2. op[{}] = {} /\ \A s \in Words(F) : op[s] \in Words(F)
    BY <1>3 DEF WordOp
  <2>3. table[{}] = {} /\ \A s \in Words(F) : table[s] \in Words(F)
    BY <1>4, <2>1, <2>2
  <2>4. \A s \in SUBSET (0..15) : table[s] \in SUBSET (0..15)
    BY <1>2, <2>3
  <2>5. 16 - 1 = 15
    OBVIOUS
  <2> QED BY <2>3, <2>4, <2>5 DEF WordOp
<1>8. \A x \in SUBSET Nat : IsProduct(F, rd.val, x, fast[x])
  <2> SUFFICES ASSUME NEW x \in SUBSET Nat PROVE IsProduct(F, rd.val, x, fast[x])
    OBVIOUS
  <2>1. WordsBecome(16, table, x, fast[x])
    BY <1>6, <1>7, TwoBytesAre
  <2>2. 16 \in Nat \ {0}
    OBVIOUS
  <2>3. \A k \in Nat : WordAt(F.w, x, k) \in Words(F)
    <3>1. \A k \in Nat : WordAt(16, x, k) \in SUBSET (0..(16 - 1))
      BY <2>2, InWordAt
    <3>2. 16 - 1 = 15
      OBVIOUS
    <3> QED BY <1>2, <3>1, <3>2
  <2>4. \A k \in Nat : WordAt(F.w, fast[x], k) = op[WordAt(F.w, x, k)]
    BY <1>4, <2>1, <2>3 DEF WordsBecome
  <2>5. WordsBecome(F.w, op, x, fast[x])
    BY <2>1, <2>4 DEF WordsBecome
  <2> QED BY <1>1, <2>5, BecomeProducts DEF op
<1> QED BY <1>1, <1>5, <1>8, ByMiddle


\* CARRY_FREE.
LEMMA CarryFreeOfSixteenBits ==
    ASSUME NEW F, NEW rd, Multiplying(F, rd), F.w = 16, NEW mult, Multiplier(F, mult)
    PROVE  /\ GfW16Reductions(F) = 2 => Multiplied(F, rd, GfW16ClmRegion2(F, rd, mult))
           /\ GfW16Reductions(F) = 3 => Multiplied(F, rd, GfW16ClmRegion3(F, rd, mult))
           /\ GfW16Reductions(F) = 4 => Multiplied(F, rd, GfW16ClmRegion4(F, rd, mult))
<1>1. IsGF(F) /\ rd.val \in Words(F) /\ RegionCall(F.w, rd, 2)
  BY MultiplyingIs
<1>2. \A s \in Words(F) : s \in Bits
  BY <1>1 DEF Words, Bits, IsGF
<1> DEFINE clm(n) == [s \in Bits |-> ClmMultiply(F, n, rd.val, s)]
<1>3. \A n : \A s \in Words(F) : clm(n)[s] = ClmMultiply(F, n, rd.val, s)
  BY <1>2
<1>4. GfW16ClmRegion2(F, rd, mult) = WordRegion(F.w, rd, 2, mult, clm(2))
  BY DEF GfW16ClmRegion2
<1>5. GfW16ClmRegion3(F, rd, mult) = WordRegion(F.w, rd, 2, mult, clm(3))
  BY DEF GfW16ClmRegion3
<1>6. GfW16ClmRegion4(F, rd, mult) = WordRegion(F.w, rd, 2, mult, clm(4))
  BY DEF GfW16ClmRegion4
<1> HIDE DEF clm
<1>7. GfW16Reductions(F) # 0 => F.poly \cap (13..15) = {}
  BY ReductionsAre16
<1>8. F.poly \cap (13..15) = {} => \A s \in Words(F) : ClmMultiply(F, GfW16Reductions(F), rd.val, s) = Times(F, rd.val, s)
  BY <1>1, ReductionsSuffice
<1>9. ASSUME NEW n \in {2, 3, 4}, GfW16Reductions(F) = n
      PROVE  Multiplied(F, rd, WordRegion(F.w, rd, 2, mult, clm(n)))
  <2>1. \A s \in Words(F) : clm(n)[s] = Times(F, rd.val, s)
    BY <1>3, <1>7, <1>8, <1>9
  <2> QED BY <1>1, <2>1, ByWords
<1> QED BY <1>4, <1>5, <1>6, <1>9

\* BYTWO.
LEMMA BytwoOfSixteenBits ==
    ASSUME NEW F, NEW rd, Multiplying(F, rd), F.w = 16
    PROVE  /\ Multiplied(F, rd, GfW16BytwoPNosseRegion(F, rd)) /\ Multiplied(F, rd, GfW16BytwoPSseRegion(F, rd))
           /\ Multiplied(F, rd, GfW16BytwoBNosseRegion(F, rd)) /\ Multiplied(F, rd, GfW16BytwoBSseRegion(F, rd))
<1>1. IsGF(F) /\ rd.val \in Words(F) /\ RegionCall(F.w, rd, 16) /\ RegionCall(F.w, rd, 8)
  BY MultiplyingIs
<1> DEFINE p == TimesByP(F)
           b2 == TimesByB(F)
           ps == [x \in Bits |-> PackedBytwoP(F, rd.val, x)]
           cs == [x \in Bits |-> IF rd.val = {1} THEN PackedDouble(F, x) ELSE PackedBytwoB(F, rd.val, x)]
           Twice(x) == PackedDouble(F, PackedDouble(F, x))
           ds == [x \in Bits |->
                    CASE rd.val = {1}    -> PackedDouble(F, x)
                      [] rd.val = {0, 1} -> Xor(PackedDouble(F, x), x)
                      [] rd.val = {2}    -> Twice(x)
                      [] rd.val = {0, 2} -> Xor(Twice(x), x)
                      [] OTHER           -> PackedBytwoB(F, rd.val, x)]
<1>2. Multiplier(F, p) /\ Multiplier(F, b2)
  BY <1>1, BytwoMultipliers
<1>3. ps \in BytwoMiddles(F, rd.val) /\ cs \in BytwoMiddles(F, rd.val) /\ ds \in BytwoMiddles(F, rd.val)
  BY DEF BytwoMiddles
<1>4. GfW16BytwoPNosseRegion(F, rd) = RegionOp(F.w, rd, 8, p, ps)
  BY Zenon DEF GfW16BytwoPNosseRegion, TimesByP
<1>5. GfW16BytwoPSseRegion(F, rd) = RegionOp(F.w, rd, 16, p, ps)
  BY Zenon DEF GfW16BytwoPSseRegion, TimesByP
<1>6. GfW16BytwoBSseRegion(F, rd) = RegionOp(F.w, rd, 16, b2, cs)
  BY Zenon DEF GfW16BytwoBSseRegion, TimesByB
<1>7. GfW16BytwoBNosseRegion(F, rd) = RegionOp(F.w, rd, 16, b2, ds)
  BY Zenon DEF GfW16BytwoBNosseRegion, TimesByB
<1> HIDE DEF p, b2, ps, cs, ds
<1> QED BY <1>1, <1>2, <1>3, <1>4, <1>5, <1>6, <1>7, ByDoublings

-----------------------------------------------------------------------------
(* Which function for regions a field has. *)

\* The function for regions that is left when a width is completed: the one
\* for CAUCHY, the one chosen, or the multiplication word by word.
RegionLeft(m, r) ==
    IF m.region = {"CAUCHY"} THEN "cauchy" ELSE IF r = "NULL" THEN "from_single" ELSE r

\* A field's multiplication and its function for regions.
Pair(f, mu, r) == f.multiply = mu /\ f.region = r

\* Completion keeps the multiplication.
LEMMA CompletedRegionIs ==
    ASSUME NEW m, m.divide \in Divisions, NEW mu, NEW d, NEW i, NEW r, NEW t
    PROVE  Pair(Completed(m, Chosen(mu, d, i, r, t)), mu, RegionLeft(m, r))
<1> DEFINE c == Chosen(mu, d, i, r, t)
           a == AskedDivision(m, c)
           b == CompletedDivision(a)
           e == CompletedRegion(m, b)
<1>1. c = [ok |-> TRUE, multiply |-> mu, divide |-> d, inverse |-> i, region |-> r, tables |-> t]
  BY DEF Chosen
<1>2. \E d2, i2 : a = [ok |-> TRUE, multiply |-> mu, divide |-> d2, inverse |-> i2, region |-> r, tables |-> t]
  <2>1. CASE m.divide = "EUCLID"
    <3>1. a = [c EXCEPT !.divide = "divide_from_inverse", !.inverse = "euclid"]
      BY <2>1 DEF AskedDivision
    <3> HIDE DEF c, a
    <3> QED BY <1>1, <3>1
  <2>2. CASE m.divide = "MATRIX"
    <3>1. a = [c EXCEPT !.divide = "divide_from_inverse", !.inverse = "matrix"]
      BY <2>2 DEF AskedDivision
    <3> HIDE DEF c, a
    <3> QED BY <1>1, <3>1
  <2>3. CASE m.divide = "DEFAULT"
    <3>1. a = c
      BY <2>3 DEF AskedDivision
    <3> HIDE DEF c, a
    <3> QED BY <1>1, <3>1
  <2> QED BY <2>1, <2>2, <2>3 DEF Divisions
<1> HIDE DEF a
<1>3. PICK d2, i2 : a = [ok |-> TRUE, multiply |-> mu, divide |-> d2, inverse |-> i2, region |-> r, tables |-> t]
  BY <1>2
<1> DEFINE i3 == IF d2 = "NULL" /\ i2 = "NULL" THEN "euclid" ELSE i2
           d4 == IF d2 = "NULL" THEN "divide_from_inverse" ELSE d2
           i4 == IF i3 = "NULL" THEN "inverse_from_divide" ELSE i3
<1>4. b = [a EXCEPT !.divide = d4, !.inverse = i4]
  BY <1>3 DEF CompletedDivision
<1> HIDE DEF b, d4, i4
<1>6. b = [ok |-> TRUE, multiply |-> mu, divide |-> d4, inverse |-> i4, region |-> r, tables |-> t]
  BY <1>3, <1>4
<1>7. Pair(e, mu, RegionLeft(m, r))
  <2>1. CASE m.region = {"CAUCHY"}
    <3>1. e = [b EXCEPT !.region = "cauchy"]
      BY <2>1 DEF CompletedRegion
    <3> HIDE DEF e
    <3> QED BY <1>6, <2>1, <3>1 DEF RegionLeft, Pair
  <2>2. CASE m.region # {"CAUCHY"} /\ b.region = "NULL"
    <3>1. e = [b EXCEPT !.region = "from_single"]
      BY <2>2 DEF CompletedRegion
    <3> HIDE DEF e
    <3> QED BY <1>6, <2>2, <3>1 DEF RegionLeft, Pair
  <2>3. CASE m.region # {"CAUCHY"} /\ b.region # "NULL"
    <3>1. e = b
      BY <1>6, <2>3 DEF CompletedRegion
    <3> HIDE DEF e
    <3> QED BY <1>6, <2>3, <3>1 DEF RegionLeft, Pair
  <2> QED BY <2>1, <2>2, <2>3
<1>8. Completed(m, c) = e
  BY <1>1 DEF Completed, b, a
<1> HIDE DEF e
<1> QED BY <1>7, <1>8

\* The same for any functions at once.
LEMMA ChosenPair ==
    ASSUME NEW m, m.divide \in Divisions
    PROVE  \A mu, d, i, r, t : Pair(Completed(m, Chosen(mu, d, i, r, t)), mu, RegionLeft(m, r))
BY CompletedRegionIs

\* The two BYTWO have regions of their own.
Bytwos(mu) == IF mu \in {"BYTWO_p", "BYTWO_b"} THEN {"bytwo_sse", "bytwo_nosse"} ELSE {}

\* GF(2^4): the functions for regions that go with a multiplication.
W4Regions(mu) ==
    {"from_single", "cauchy", "single_table", "single_table_sse", "single_table_neon", "double_table", "quad_table"}
        \cup (IF mu \in {"neon_clm", "log"} THEN {mu} ELSE {}) \cup Bytwos(mu)

\* GF(2^4): which of them its init functions leave.
LEMMA W4Fits ==
    ASSUME NEW m, m.w = 4, m.mult \in Multiplications, NEW poly, NEW base, NEW build, NEW P,
           GfErrorCheck(m, poly, base, build), NEW f, f = GfW4Init(m, P, build), f.multiply # "NULL"
    PROVE  f.region \in W4Regions(f.multiply)
<1>0. m.divide \in Divisions
  BY DEF GfErrorCheck, Divisions
<1>f. f # Failed /\ \A c : f = Completed(m, c) => c # Failed
  BY FailedIs
<1>p. ASSUME NEW mu, NEW d, NEW i, NEW r, NEW t, f = Completed(m, Chosen(mu, d, i, r, t)),
             r \in {"NULL"} \cup W4Regions(mu)
      PROVE  f.region \in W4Regions(f.multiply)
  <2>1. Pair(f, mu, RegionLeft(m, r))
    BY <1>0, <1>p, ChosenPair
  <2>2. RegionLeft(m, r) \in W4Regions(mu)
    <3>1. "from_single" \in W4Regions(mu) /\ "cauchy" \in W4Regions(mu)
      BY DEF W4Regions
    <3> QED BY <1>p, <3>1 DEF RegionLeft
  <2> QED BY <2>1, <2>2 DEF Pair
<1> HIDE DEF Pair
<1>1. CASE m.mult = "SHIFT"
  <2>1. f = Completed(m, Chosen("shift", "NULL", "NULL", "NULL", "none"))
    BY <1>1 DEF GfW4Init
  <2> QED BY <1>p, <2>1
<1>2. CASE m.mult = "CARRY_FREE"
  <2>1. f = Completed(m, GfW4CfmInit(m, build))
    BY <1>2 DEF GfW4Init
  <2>2. GfW4CfmInit(m, build) # Failed
    BY <1>f, <2>1
  <2>3. \E mu : \E r \in {"NULL"} \cup W4Regions(mu) : GfW4CfmInit(m, build) = Chosen(mu, "NULL", "NULL", r, "none")
    BY <2>2 DEF GfW4CfmInit, W4Regions
  <2> QED BY <1>p, <2>1, <2>3
<1>4. CASE m.mult \in {"BYTWO_p", "BYTWO_b"}
  <2>1. f = Completed(m, GfW4BytwoInit(m, build))
    BY <1>4 DEF GfW4Init
  <2>2. GfW4BytwoInit(m, build) # Failed
    BY <1>f, <2>1
  <2>3. \E r \in Bytwos(m.mult) : GfW4BytwoInit(m, build) = Chosen(m.mult, "NULL", "NULL", r, "bytwo")
    BY <1>4, <2>2 DEF GfW4BytwoInit, Bytwos
  <2>4. Bytwos(m.mult) \subseteq W4Regions(m.mult)
    BY DEF W4Regions
  <2> QED BY <1>p, <2>1, <2>3, <2>4
<1>5. CASE m.mult = "LOG_TABLE"
  <2>1. f = Completed(m, GfW4LogInit(P))
    BY <1>5 DEF GfW4Init
  <2>2. GfW4LogInit(P) # Failed
    BY <1>f, <2>1
  <2>3. GfW4LogInit(P) = Chosen("log", "log", "inverse_from_divide", "log", "log")
    BY <2>2 DEF GfW4LogInit
  <2>4. "log" \in W4Regions("log")
    BY DEF W4Regions
  <2> QED BY <1>p, <2>1, <2>3, <2>4
<1>6. CASE m.mult \in {"DEFAULT", "TABLE"}
  <2> DEFINE flags == IF m.mult = "DEFAULT" /\ ~Simd(build) THEN {"DOUBLE"} ELSE m.region
             c == GfW4TableInit(m, build)
  <2>1. f = Completed(m, c)
    BY <1>6 DEF GfW4Init
  <2>2. c # Failed
    BY <1>f, <2>1
  <2>3. c = CASE "DOUBLE" \in flags -> Chosen("double_table", "double_table", "NULL", "double_table", "double")
              [] "DOUBLE" \notin flags /\ "QUAD" \in flags ->
                   IF "LAZY" \in flags
                   THEN Chosen("quad_table_lazy", "quad_table_lazy", "NULL", "quad_table", "quad_lazy")
                   ELSE Chosen("quad_table", "quad_table", "NULL", "quad_table", "quad")
              [] OTHER ->
                   IF "SIMD" \in flags /\ ~Simd(build) THEN Failed
                   ELSE Chosen("single_table", "single_table", "NULL",
                               IF ~Simd(build) \/ flags \cap {"NOSIMD", "CAUCHY"} # {}
                               THEN "single_table"
                               ELSE IF "SSSE3" \in build THEN "single_table_sse"
                                    ELSE "single_table_neon",
                               "single")
    BY DEF GfW4TableInit
  <2> HIDE DEF flags, c
  <2>4. \E mu, d, t : \E r \in {"single_table", "single_table_sse", "single_table_neon", "double_table", "quad_table"} :
          c = Chosen(mu, d, "NULL", r, t)
    <3>1. CASE "DOUBLE" \in flags
      <4>1. c = Chosen("double_table", "double_table", "NULL", "double_table", "double")
        BY <2>3, <3>1
      <4> QED BY <4>1
    <3>2. CASE "DOUBLE" \notin flags /\ "QUAD" \in flags
      <4>1. c = IF "LAZY" \in flags
                THEN Chosen("quad_table_lazy", "quad_table_lazy", "NULL", "quad_table", "quad_lazy")
                ELSE Chosen("quad_table", "quad_table", "NULL", "quad_table", "quad")
        BY <2>3, <3>2
      <4> QED BY <4>1
    <3>3. CASE "DOUBLE" \notin flags /\ "QUAD" \notin flags
      <4>1. c = Chosen("single_table", "single_table", "NULL",
                               IF ~Simd(build) \/ flags \cap {"NOSIMD", "CAUCHY"} # {}
                               THEN "single_table"
                               ELSE IF "SSSE3" \in build THEN "single_table_sse"
                                    ELSE "single_table_neon",
                               "single")
        BY <2>2, <2>3, <3>3
      <4> QED BY <4>1
    <3> QED BY <3>1, <3>2, <3>3
  <2>5. \A mu : {"single_table", "single_table_sse", "single_table_neon", "double_table", "quad_table"} \subseteq W4Regions(mu)
    BY DEF W4Regions
  <2> QED BY <1>p, <2>1, <2>4, <2>5
<1>7. CASE m.mult \notin {"SHIFT", "CARRY_FREE", "BYTWO_p", "BYTWO_b", "LOG_TABLE", "DEFAULT", "TABLE"}
  <2>1. f = Completed(m, Failed)
    BY <1>7 DEF GfW4Init
  <2> QED BY <1>f, <2>1
<1> QED BY <1>1, <1>2, <1>4, <1>5, <1>6, <1>7

\* Where gf_error_check lets ALTMAP through, of up to 16 bits.
LEMMA AltMapped ==
    ASSUME NEW m, m.w \in {4, 8, 16}, m.mult \in Multiplications, NEW poly, NEW base, NEW build,
           GfErrorCheck(m, poly, base, build), "ALTMAP" \in m.region
    PROVE  /\ m.mult \in {"SPLIT", "COMPOSITE"} /\ m.region # {"CAUCHY"}
           /\ m.mult = "SPLIT" => m.w = 16 /\ {m.arg1, m.arg2} = {4, 16}
<1>1. m.mult # "DEFAULT"
  BY DEF GfErrorCheck
<1>2. MethodAllowed(m, poly, base, build)
  BY <1>1 DEF GfErrorCheck, TableFlagsAllowed, NoneOf
<1>3. m.mult \in {"SPLIT", "COMPOSITE"}
  <2>1. m.mult # "SHIFT" /\ m.mult # "CARRY_FREE" /\ m.mult # "CARRY_FREE_GK"
    BY <1>2 DEF MethodAllowed, CarryFreeAllowed, NoneOf
  <2>2. m.mult \notin {"BYTWO_p", "BYTWO_b"} /\ m.mult # "LOG_TABLE"
    BY <1>2 DEF MethodAllowed, NoneOf
  <2>3. m.mult # "LOG_ZERO" /\ m.mult # "LOG_ZERO_EXT"
    BY <1>2 DEF MethodAllowed, NoneOf
  <2>4. m.mult # "GROUP" /\ m.mult # "TABLE"
    BY <1>2 DEF MethodAllowed, NoneOf, GroupAllowed
  <2> QED BY <1>1, <2>1, <2>2, <2>3, <2>4 DEF Multiplications
<1>4. ASSUME m.mult = "SPLIT"
      PROVE  m.w = 16 /\ {m.arg1, m.arg2} = {4, 16}
  <2>1. SplitAllowed(m, build)
    BY <1>2, <1>4 DEF MethodAllowed
  <2>2. {m.arg1, m.arg2} = {4, m.w} /\ m.w # 8 /\ m.w # 4
    BY <2>1 DEF SplitAllowed, NoneOf
  <2> QED BY <2>2
<1> QED BY <1>3, <1>4

\* A COMPOSITE field is not a CAUCHY one.
LEMMA CompositeRegionLeft ==
    ASSUME NEW m, m.mult = "COMPOSITE", NEW poly, NEW base, NEW build, GfErrorCheck(m, poly, base, build),
           NEW r, r # "NULL"
    PROVE  RegionLeft(m, r) = r
BY DEF GfErrorCheck, RegionLeft

\* The functions of a COMPOSITE field.
Layouts(alt) == {IF alt THEN "composite_alt" ELSE "composite"}

\* GF(2^8): the functions for regions that go with a multiplication.
W8Regions(mult, alt, mu) ==
    IF mult = "COMPOSITE" THEN Layouts(alt)
    ELSE {"from_single", "cauchy", "table", "double_table", "split", "split_sse", "split_neon"}
           \cup (IF mu \in {"clm", "neon_clm", "log"} THEN {mu} ELSE {})
           \cup (IF mu \in {"logzero_small", "logzero"} THEN {"logzero"} ELSE {}) \cup Bytwos(mu)

\* GF(2^8): which of them its init functions leave.
LEMMA W8Fits ==
    ASSUME NEW m, m.w = 8, m.mult \in Multiplications, NEW poly, NEW base, NEW build, NEW F, NEW P, NEW t,
           GfErrorCheck(m, poly, base, build), NEW f, f = GfW8Init(m, F, P, t, build), f.multiply # "NULL"
    PROVE  f.region \in W8Regions(m.mult, "ALTMAP" \in m.region, f.multiply)
<1> DEFINE alt == "ALTMAP" \in m.region
<1>0. m.divide \in Divisions
  BY DEF GfErrorCheck, Divisions
<1>f. f # Failed /\ \A c : f = Completed(m, c) => c # Failed
  BY FailedIs
<1>p. ASSUME NEW mu, NEW d, NEW i, NEW r, NEW u, f = Completed(m, Chosen(mu, d, i, r, u)),
             r \in {"NULL"} \cup W8Regions(m.mult, alt, mu), m.mult # "COMPOSITE"
      PROVE  f.region \in W8Regions(m.mult, alt, f.multiply)
  <2>1. Pair(f, mu, RegionLeft(m, r))
    BY <1>0, <1>p, ChosenPair
  <2>2. RegionLeft(m, r) \in W8Regions(m.mult, alt, mu)
    <3>1. "from_single" \in W8Regions(m.mult, alt, mu) /\ "cauchy" \in W8Regions(m.mult, alt, mu)
      BY <1>p DEF W8Regions
    <3> HIDE DEF alt
    <3> QED BY <1>p, <3>1 DEF RegionLeft
  <2> QED BY <2>1, <2>2 DEF Pair
<1> HIDE DEF Pair, alt
<1>1. CASE m.mult = "SHIFT"
  <2>1. f = Completed(m, Chosen("shift", "NULL", "NULL", "NULL", "none"))
    BY <1>1 DEF GfW8Init
  <2> QED BY <1>1, <1>p, <2>1 DEF alt
<1>2. CASE m.mult = "CARRY_FREE"
  <2>1. f = Completed(m, GfW8CfmInit(F, build))
    BY <1>2 DEF GfW8Init
  <2>2. GfW8CfmInit(F, build) # Failed
    BY <1>f, <2>1
  <2>3. \E mu \in {"clm", "neon_clm"} : GfW8CfmInit(F, build) = Chosen(mu, "NULL", "NULL", mu, "none")
    BY <2>2 DEF GfW8CfmInit
  <2>4. \A mu \in {"clm", "neon_clm"} : mu \in W8Regions(m.mult, alt, mu)
    BY <1>2 DEF W8Regions
  <2> QED BY <1>2, <1>p, <2>1, <2>3, <2>4 DEF alt
<1>4. CASE m.mult \in {"BYTWO_p", "BYTWO_b"}
  <2>1. f = Completed(m, GfW8BytwoInit(m, build))
    BY <1>4 DEF GfW8Init
  <2>2. GfW8BytwoInit(m, build) # Failed
    BY <1>f, <2>1
  <2>3. \E r \in Bytwos(m.mult) : GfW8BytwoInit(m, build) = Chosen(m.mult, "NULL", "NULL", r, "bytwo")
    BY <1>4, <2>2 DEF GfW8BytwoInit, Bytwos
  <2>4. Bytwos(m.mult) \subseteq W8Regions(m.mult, alt, m.mult) /\ m.mult # "COMPOSITE"
    BY <1>4 DEF W8Regions
  <2> QED BY <1>p, <2>1, <2>3, <2>4 DEF alt
<1>5. CASE m.mult \in {"LOG_TABLE", "LOG_ZERO", "LOG_ZERO_EXT"}
  <2>1. f = Completed(m, GfW8LogInit(m, P))
    BY <1>5 DEF GfW8Init
  <2>2. GfW8LogInit(m, P) # Failed
    BY <1>f, <2>1
  <2>3. GfW8LogInit(m, P) = CASE m.mult = "LOG_TABLE" -> Chosen("log", "log", "log", "log", "log")
                              [] m.mult = "LOG_ZERO" ->
                                   Chosen("logzero_small", "logzero_small", "logzero_small", "logzero", "logzero_small")
                              [] OTHER -> Chosen("logzero", "logzero", "logzero", "logzero", "logzero")
    BY <2>2 DEF GfW8LogInit
  <2>4. \E mu \in {"log", "logzero_small", "logzero"} : \E u :
          GfW8LogInit(m, P) = Chosen(mu, mu, mu, IF mu = "log" THEN "log" ELSE "logzero", u)
    <3>1. CASE m.mult = "LOG_TABLE"
      BY <2>3, <3>1
    <3>2. CASE m.mult = "LOG_ZERO"
      BY <2>3, <3>2
    <3>3. CASE m.mult = "LOG_ZERO_EXT"
      BY <2>3, <3>3
    <3> QED BY <1>5, <3>1, <3>2, <3>3
  <2>5. \A mu \in {"log", "logzero_small", "logzero"} :
          (IF mu = "log" THEN "log" ELSE "logzero") \in W8Regions(m.mult, alt, mu)
    BY <1>5 DEF W8Regions
  <2>6. m.mult # "COMPOSITE"
    BY <1>5
  <2> QED BY <1>p, <2>1, <2>4, <2>5, <2>6 DEF alt
<1>6. CASE m.mult \in {"DEFAULT", "TABLE"}
  <2>1. f = Completed(m, GfW8TableInit(m, build))
    BY <1>6 DEF GfW8Init
  <2>2. GfW8TableInit(m, build) # Failed
    BY <1>f, <2>1
  <2>3. \E mu, u : \E r \in {"table", "double_table", "split_sse", "split_neon"} :
          GfW8TableInit(m, build) = Chosen(mu, mu, "NULL", r, u)
    BY <2>2 DEF GfW8TableInit
  <2>4. m.mult # "COMPOSITE" /\ \A mu : {"table", "double_table", "split_sse", "split_neon"} \subseteq W8Regions(m.mult, alt, mu)
    BY <1>6 DEF W8Regions
  <2> QED BY <1>p, <2>1, <2>3, <2>4 DEF alt
<1>7. CASE m.mult = "SPLIT"
  <2>1. f = Completed(m, GfW8SplitInit(m, build))
    BY <1>7 DEF GfW8Init
  <2>2. GfW8SplitInit(m, build) # Failed
    BY <1>f, <2>1
  <2>3. \E r \in {"split", "split_sse", "split_neon"} :
          GfW8SplitInit(m, build) = Chosen("split", "NULL", "NULL", r, "half")
    BY <2>2 DEF GfW8SplitInit
  <2>4. {"split", "split_sse", "split_neon"} \subseteq W8Regions(m.mult, alt, "split")
    BY <1>7 DEF W8Regions
  <2> QED BY <1>7, <1>p, <2>1, <2>3, <2>4 DEF alt
<1>8. CASE m.mult = "COMPOSITE"
  <2> DEFINE r == IF alt THEN "composite_alt" ELSE "composite"
  <2>1. f = Completed(m, GfW8CompositeInit(m, t))
    BY <1>8 DEF GfW8Init
  <2>2. GfW8CompositeInit(m, t) # Failed
    BY <1>f, <2>1
  <2>3. \E mu : GfW8CompositeInit(m, t) = Chosen(mu, "NULL", "composite", r, "composite")
    BY <2>2 DEF GfW8CompositeInit, alt
  <2>4. r # "NULL"
    OBVIOUS
  <2> HIDE DEF r
  <2>5. RegionLeft(m, r) = r
    BY <1>8, <2>4, CompositeRegionLeft
  <2>6. f.region = r
    BY <1>0, <2>1, <2>3, <2>5, ChosenPair DEF Pair
  <2> QED BY <1>8, <2>6 DEF W8Regions, Layouts, r, alt
<1>9. CASE m.mult \in {"CARRY_FREE_GK", "GROUP"}
  <2>1. f = Completed(m, Failed)
    BY <1>9 DEF GfW8Init
  <2> QED BY <1>f, <2>1
<1> QED BY <1>1, <1>2, <1>4, <1>5, <1>6, <1>7, <1>8, <1>9 DEF Multiplications


\* GF(2^16): the functions for regions that go with a multiplication.
W16Regions(mult, alt, mu) ==
    IF mult = "COMPOSITE" THEN Layouts(alt)
    ELSE IF alt THEN {"split_4_16_sse_alt", "split_4_16_nosse_alt", "split_4_16_neon_alt"}
    ELSE {"from_single", "cauchy", "table_lazy", "split_8_16", "split_4_16", "split_4_16_sse", "split_4_16_neon",
          "group_4_4"}
           \cup (IF mu \in {"clm", "log", "log_zero"} THEN {mu} ELSE {}) \cup Bytwos(mu)

\* GF(2^16): which of them its init functions leave.
LEMMA W16Fits ==
    ASSUME NEW m, m.w = 16, m.mult \in Multiplications, NEW poly, NEW base, NEW build, NEW F, NEW primitive \in BOOLEAN,
           NEW t, GfErrorCheck(m, poly, base, build), NEW f, f = GfW16Init(m, F, primitive, t, build),
           f.multiply # "NULL"
    PROVE  f.region \in W16Regions(m.mult, "ALTMAP" \in m.region, f.multiply)
<1> DEFINE alt == "ALTMAP" \in m.region
<1>0. m.divide \in Divisions
  BY DEF GfErrorCheck, Divisions
<1>f. f # Failed /\ \A c : f = Completed(m, c) => c # Failed
  BY FailedIs
<1>a. alt => m.mult \in {"SPLIT", "COMPOSITE"} /\ m.region # {"CAUCHY"}
  BY AltMapped
<1>p. ASSUME NEW mu, NEW d, NEW i, NEW r, NEW u, f = Completed(m, Chosen(mu, d, i, r, u)),
             r \in (IF alt THEN {} ELSE {"NULL"}) \cup W16Regions(m.mult, alt, mu), m.mult # "COMPOSITE"
      PROVE  f.region \in W16Regions(m.mult, alt, f.multiply)
  <2>1. Pair(f, mu, RegionLeft(m, r))
    BY <1>0, <1>p, ChosenPair
  <2>2. RegionLeft(m, r) \in W16Regions(m.mult, alt, mu)
    <3>1. CASE alt
      <4>1. r \in {"split_4_16_sse_alt", "split_4_16_nosse_alt", "split_4_16_neon_alt"}
        BY <1>p, <3>1 DEF W16Regions
      <4> HIDE DEF alt
      <4>2. RegionLeft(m, r) = r
        BY <1>a, <3>1, <4>1 DEF RegionLeft
      <4> QED BY <1>p, <3>1, <4>2
    <3>2. CASE ~alt
      <4>1. "from_single" \in W16Regions(m.mult, alt, mu) /\ "cauchy" \in W16Regions(m.mult, alt, mu)
        BY <1>p, <3>2 DEF W16Regions
      <4> HIDE DEF alt
      <4> QED BY <1>p, <3>2, <4>1 DEF RegionLeft
    <3> QED BY <3>1, <3>2
  <2> QED BY <2>1, <2>2 DEF Pair
<1> HIDE DEF Pair, alt
<1>r. ASSUME NEW r, NEW u, f = Completed(m, Refilled(GfW16LogInit(m, F, primitive, build), r, u)),
             m.mult \in {"DEFAULT", "SPLIT", "TABLE"}, \A mu : r \in W16Regions(m.mult, alt, mu)
      PROVE  f.region \in W16Regions(m.mult, alt, f.multiply)
  <2> DEFINE e == Refilled(GfW16LogInit(m, F, primitive, build), r, u)
  <2>1. m.mult # "LOG_TABLE" /\ m.mult # "COMPOSITE"
    BY <1>r
  <2>2. PICK mu \in {"log", "clm", "shift", "NULL"} : FallsTo(mu, e, F, primitive, build, r, u)
    BY <2>1, FallsBack
  <2> HIDE DEF e
  <2>3. f = Completed(m, e)
    BY <1>r DEF e
  <2>4. \E d, i : e = Chosen(mu, d, i, r, u)
    BY <2>2 DEF FallsTo
  <2> QED BY <1>p, <1>r, <2>1, <2>3, <2>4
<1>1. CASE m.mult = "SHIFT"
  <2>1. f = Completed(m, Chosen("shift", "NULL", "NULL", "NULL", "none")) /\ ~alt
    BY <1>1, <1>a DEF GfW16Init
  <2> QED BY <1>1, <1>p, <2>1 DEF alt
<1>2. CASE m.mult = "CARRY_FREE"
  <2>1. f = Completed(m, GfW16CfmInit(F, build)) /\ ~alt
    BY <1>2, <1>a DEF GfW16Init
  <2>2. GfW16CfmInit(F, build) # Failed
    BY <1>f, <2>1
  <2>3. GfW16CfmInit(F, build) = Chosen("clm", "NULL", "NULL", "clm", "none")
    BY <2>2 DEF GfW16CfmInit
  <2>4. "clm" \in W16Regions(m.mult, alt, "clm") /\ m.mult # "COMPOSITE"
    BY <1>2, <2>1 DEF W16Regions
  <2> QED BY <1>p, <2>1, <2>3, <2>4 DEF alt
<1>4. CASE m.mult \in {"BYTWO_p", "BYTWO_b"}
  <2>1. f = Completed(m, GfW16BytwoInit(m, build)) /\ ~alt
    BY <1>4, <1>a DEF GfW16Init
  <2>2. GfW16BytwoInit(m, build) # Failed
    BY <1>f, <2>1
  <2>3. \E r \in Bytwos(m.mult) : GfW16BytwoInit(m, build) = Chosen(m.mult, "NULL", "NULL", r, "bytwo")
    BY <1>4, <2>2 DEF GfW16BytwoInit, Bytwos
  <2>4. Bytwos(m.mult) \subseteq W16Regions(m.mult, alt, m.mult) /\ m.mult # "COMPOSITE"
    BY <1>4, <2>1 DEF W16Regions
  <2> QED BY <1>p, <2>1, <2>3, <2>4 DEF alt
<1>5. CASE m.mult = "LOG_TABLE"
  <2>1. f = Completed(m, GfW16LogInit(m, F, primitive, build)) /\ ~alt
    BY <1>5, <1>a DEF GfW16Init
  <2>2. GfW16LogInit(m, F, primitive, build) # Failed
    BY <1>f, <2>1
  <2>3. GfW16LogInit(m, F, primitive, build) = Chosen("log", "log", "log", "log", "log")
    BY <1>5, <2>2 DEF GfW16LogInit
  <2>4. "log" \in W16Regions(m.mult, alt, "log") /\ m.mult # "COMPOSITE"
    BY <1>5, <2>1 DEF W16Regions
  <2> QED BY <1>p, <2>1, <2>3, <2>4 DEF alt
<1>6. CASE m.mult = "LOG_ZERO"
  <2>1. f = Completed(m, Chosen("log_zero", "log_zero", "log_zero", "log_zero", "log_zero")) /\ ~alt
    BY <1>6, <1>a DEF GfW16Init, GfW16LogZeroInit
  <2>2. "log_zero" \in W16Regions(m.mult, alt, "log_zero") /\ m.mult # "COMPOSITE"
    BY <1>6, <2>1 DEF W16Regions
  <2> QED BY <1>p, <2>1, <2>2 DEF alt
<1>7. CASE m.mult = "TABLE"
  <2>1. f = Completed(m, GfW16TableInit(m, F, primitive, build)) /\ ~alt
    BY <1>7, <1>a DEF GfW16Init
  <2>2. GfW16TableInit(m, F, primitive, build) = Refilled(GfW16LogInit(m, F, primitive, build), "table_lazy", "table_lazy")
    BY DEF GfW16TableInit, Refilled
  <2>3. \A mu : "table_lazy" \in W16Regions(m.mult, alt, mu)
    BY <1>7, <2>1 DEF W16Regions
  <2> QED BY <1>7, <1>r, <2>1, <2>2, <2>3 DEF alt
<1>8. CASE m.mult \in {"DEFAULT", "SPLIT"}
  <2> DEFINE half  == {m.arg1, m.arg2} = {4, 16}
             split == IF "SSSE3" \in build THEN "split_4_16_sse"
                      ELSE IF "NEON" \in build
                           THEN IF alt THEN "split_4_16_neon_alt" ELSE "split_4_16_neon"
                      ELSE "split_8_16"
             region ==
                 IF {m.arg1, m.arg2} = {8, 16} THEN "split_8_16"
                 ELSE IF ~half THEN split
                 ELSE IF ~Simd(build) \/ "NOSIMD" \in m.region
                      THEN IF alt THEN "split_4_16_nosse_alt" ELSE "split_4_16"
                 ELSE IF alt /\ "SSSE3" \in build THEN "split_4_16_sse_alt"
                 ELSE split
             both == m.arg1 = 8 /\ m.arg2 = 8
             c == GfW16SplitInit(m, F, primitive, build)
  <2>1. f = Completed(m, c)
    BY <1>8 DEF GfW16Init
  <2>2. c # Failed
    BY <1>f, <2>1
  <2>3. alt => half
    <3>1. alt => {m.arg1, m.arg2} = {4, 16}
      BY <1>8, AltMapped DEF alt
    <3> QED BY <3>1
  <2>4. c = CASE both -> Chosen("split_8_8", "NULL", "NULL", "split_8_16", "split_8_8")
              [] ~both /\ half /\ ~Simd(build) /\ "SIMD" \in m.region -> Failed
              [] OTHER -> Refilled(GfW16LogInit(m, F, primitive, build), region, "log")
    BY DEF GfW16SplitInit, Refilled, alt
  <2>5. m.mult # "COMPOSITE" /\ m.mult \in {"DEFAULT", "SPLIT", "TABLE"}
    BY <1>8
  <2>6. CASE both
    <3>1. ~half
      BY <2>6
    <3>2. ~alt
      BY <2>3, <3>1
    <3>3. c = Chosen("split_8_8", "NULL", "NULL", "split_8_16", "split_8_8")
      BY <2>4, <2>6
    <3>4. "split_8_16" \in W16Regions(m.mult, alt, "split_8_8")
      BY <2>5, <3>2 DEF W16Regions
    <3> HIDE DEF c
    <3> QED BY <1>p, <2>1, <2>5, <3>3, <3>4 DEF alt
  <2>7. CASE ~both
    <3>1. c = Refilled(GfW16LogInit(m, F, primitive, build), region, "log")
      <4> HIDE DEF c, both, half, region
      <4> QED BY <2>2, <2>4, <2>7
    <3>2. \A mu : region \in W16Regions(m.mult, alt, mu)
      <4>1. CASE alt
        <5>1. ~({m.arg1, m.arg2} = {8, 16})
          BY <2>3, <4>1
        <5>2. Simd(build) => "SSSE3" \in build \/ "NEON" \in build
          BY DEF Simd
        <5>3. region \in {"split_4_16_sse_alt", "split_4_16_nosse_alt", "split_4_16_neon_alt"}
          <6> HIDE DEF half
          <6> QED BY <2>3, <4>1, <5>1, <5>2
        <5> HIDE DEF region
        <5> QED BY <2>5, <4>1, <5>3 DEF W16Regions
      <4>2. CASE ~alt
        <5>1. region \in {"split_8_16", "split_4_16", "split_4_16_sse", "split_4_16_neon"}
          <6> HIDE DEF half
          <6> QED BY <4>2
        <5> HIDE DEF region
        <5> QED BY <2>5, <4>2, <5>1 DEF W16Regions
      <4> QED BY <4>1, <4>2
    <3> HIDE DEF c, region
    <3> QED BY <1>r, <2>1, <2>5, <3>1, <3>2 DEF alt
  <2> QED BY <2>6, <2>7
<1>9. CASE m.mult = "COMPOSITE"
  <2> DEFINE r == IF alt THEN "composite_alt" ELSE "composite"
  <2>1. f = Completed(m, GfW16CompositeInit(m, t))
    BY <1>9 DEF GfW16Init
  <2>2. GfW16CompositeInit(m, t) # Failed
    BY <1>f, <2>1
  <2>3. \E mu : GfW16CompositeInit(m, t) = Chosen(mu, "NULL", "composite", r, "composite")
    BY <2>2 DEF GfW16CompositeInit, alt
  <2>4. r # "NULL"
    OBVIOUS
  <2> HIDE DEF r
  <2>5. RegionLeft(m, r) = r
    BY <1>9, <2>4, CompositeRegionLeft
  <2>6. f.region = r
    BY <1>0, <2>1, <2>3, <2>5, ChosenPair DEF Pair
  <2> QED BY <1>9, <2>6 DEF W16Regions, Layouts, r, alt
<1>10. CASE m.mult = "GROUP"
  <2>1. f = Completed(m, Chosen("group_4_4", "NULL", "NULL", "group_4_4", "group")) /\ ~alt
    BY <1>10, <1>a DEF GfW16Init
  <2>2. "group_4_4" \in W16Regions(m.mult, alt, "group_4_4") /\ m.mult # "COMPOSITE"
    BY <1>10, <2>1 DEF W16Regions
  <2> QED BY <1>p, <2>1, <2>2 DEF alt
<1>11. CASE m.mult \in {"CARRY_FREE_GK", "LOG_ZERO_EXT"}
  <2>1. f = Completed(m, Failed)
    BY <1>11 DEF GfW16Init
  <2> QED BY <1>f, <2>1
<1> QED BY <1>1, <1>2, <1>4, <1>5, <1>6, <1>7, <1>8, <1>9, <1>10, <1>11 DEF Multiplications

=============================================================================
