-------------------------- MODULE DhtStorage_proofs --------------------------
(* Theorems about DhtStorage, for any hashes, addresses, limits and times.  *)
EXTENDS DhtStorage, FiniteSetTheorems, TLAPS

Ageing == [Hash -> [Entry -> Nat \cup {Absent, TimeZero}]]

-----------------------------------------------------------------------------
(* The inductive invariant.                                                 *)

\* How the age of a token is tied to its generation when the secret is s old: a
\* token is no older than the secret it was made with, and a secret serves for
\* ROTATE_MIN at least and ROTATE_MAX + LATE at most.
TokenAges(t, s) ==
    \A n \in Node :
        /\ t[n].generation = 0 => t[n].age <= s
        /\ t[n].generation = 1 => s <= t[n].age /\ t[n].age <= s + ROTATE_MAX + LATE
        /\ t[n].generation = 2 => ROTATE_MIN <= t[n].age

\* A listed peer was young enough at the last expire_storage.
PeerAges(a, s) == \A h \in Hash : \A p \in Entry : a[h][p] <= PEER_LIFE + s

Inv == TypeOK /\ TokenAges(token, secretAge) /\ PeerAges(age, expireAge)

-----------------------------------------------------------------------------
(* What the operators of DhtStorage return.                                 *)

\* dht_storage_store keeps the shape of the storage, and its ages in bound.
LEMMA StoredIs ==
    ASSUME age \in Ageing, NEW h \in Hash, NEW p \in Entry, NEW s \in Nat, PeerAges(age, s)
    PROVE  Stored(h, p) \in Ageing /\ PeerAges(Stored(h, p), s)
<1>1. CASE NoRoom(h, p)
  BY <1>1 DEF Stored
<1>2. CASE ~NoRoom(h, p)
  <2> DEFINE a == [age EXCEPT ![h] = [age[h] EXCEPT ![p] = 0]]
  <2>1. Stored(h, p) = a
    BY <1>2 DEF Stored
  <2>2. a \in Ageing
    BY DEF Ageing
  <2>3. ASSUME NEW g \in Hash, NEW q \in Entry PROVE a[g][q] <= PEER_LIFE + s
    BY StorageAssumption DEF PeerAges, Ageing
  <2> QED BY <2>1, <2>2, <2>3 DEF PeerAges
<1> QED BY <1>1, <1>2

\* An entry for this node has no age.
LEMMA OwnStoreIs ==
    ASSUME age \in Ageing, NEW h \in Hash, OwnStore(h)
    PROVE  /\ age' \in Ageing
           /\ \A g \in Hash : \A p \in Entry : age'[g][p] = age[g][p] \/ age'[g][p] = TimeZero
           /\ \A s \in Nat : PeerAges(age, s) => PeerAges(age', s)
<1>1. age' \in Ageing
  BY DEF OwnStore, Ageing
<1>2. \A g \in Hash : \A p \in Entry : age'[g][p] = age[g][p] \/ age'[g][p] = TimeZero
  BY DEF OwnStore, Ageing
<1> QED BY <1>1, <1>2, StorageAssumption DEF PeerAges, TimeZero

\* What expire_storage leaves is no older than PEER_LIFE.
LEMMA ExpiredIs ==
    ASSUME NEW a \in Ageing
    PROVE  Expired(a) \in Ageing /\ PeerAges(Expired(a), 0)
<1> USE StorageAssumption
<1>1. Expired(a) \in Ageing
  BY DEF Expired, Ageing, Absent, TimeZero
<1>2. ASSUME NEW h \in Hash, NEW p \in Entry PROVE Expired(a)[h][p] <= PEER_LIFE + 0
  BY DEF Expired, Old, Ageing, Absent, TimeZero
<1> QED BY <1>1, <1>2 DEF PeerAges

\* rotate_secrets, when it is due, starts a secret of age 0.
LEMMA RotatedIs ==
    ASSUME NEW t \in [Node -> Token], NEW s \in ROTATE_MIN..(ROTATE_MAX + LATE),
           TokenAges(t, s)
    PROVE  Rotated(t) \in [Node -> Token] /\ TokenAges(Rotated(t), 0)
<1> USE StorageAssumption
<1>1. Rotated(t) \in [Node -> Token]
  BY DEF Rotated, Token
<1>2. ASSUME NEW n \in Node
      PROVE  /\ Rotated(t)[n].generation = 0 => Rotated(t)[n].age <= 0
             /\ Rotated(t)[n].generation = 1 =>
                   0 <= Rotated(t)[n].age /\ Rotated(t)[n].age <= 0 + ROTATE_MAX + LATE
             /\ Rotated(t)[n].generation = 2 => ROTATE_MIN <= Rotated(t)[n].age
  <2>1. t[n].generation \in 0..2 /\ t[n].age \in 0..MAX_AGE
    BY DEF Token
  <2>2. Rotated(t)[n].age = t[n].age
    BY DEF Rotated
  <2>3. Rotated(t)[n].generation = IF t[n].generation = 0 THEN 1 ELSE 2
    BY DEF Rotated
  <2> QED BY <2>1, <2>2, <2>3 DEF TokenAges
<1> QED BY <1>1, <1>2 DEF TokenAges

\* The end of dht_periodic keeps the invariant, whatever the message did to the
\* storage and the tokens within their shapes.
LEMMA FinishKeeps ==
    ASSUME Inv, NEW a \in Ageing, NEW t \in [Node -> Token],
           PeerAges(a, expireAge), TokenAges(t, secretAge), Finish(a, t)
    PROVE  Inv'
<1> USE StorageAssumption DEF Inv, TypeOK
<1>1. published' \subseteq Hash
  BY DEF Finish
<1>2. /\ token' \in [Node -> Token] /\ TokenAges(token', secretAge')
      /\ secretAge' \in 0..ROTATE_MAX + LATE /\ rotateAfter' \in ROTATE_MIN..ROTATE_MAX
  <2>1. CASE secretAge >= rotateAfter
    <3>1. secretAge \in ROTATE_MIN..(ROTATE_MAX + LATE)
      BY <2>1
    <3>2. token' = Rotated(t) /\ secretAge' = 0 /\ rotateAfter' \in ROTATE_MIN..ROTATE_MAX
      BY <2>1 DEF Finish
    <3> QED BY <3>1, <3>2, RotatedIs
  <2>2. CASE ~(secretAge >= rotateAfter)
    BY <2>2 DEF Finish, secretVars
  <2> QED BY <2>1, <2>2
<1>3. /\ age' \in Ageing /\ PeerAges(age', expireAge')
      /\ expireAge' \in 0..EXPIRE_MAX + LATE /\ expireAfter' \in EXPIRE_MIN..EXPIRE_MAX
  <2>1. CASE expireAge >= expireAfter
    BY <2>1, ExpiredIs DEF Finish
  <2>2. CASE ~(expireAge >= expireAfter)
    BY <2>2 DEF Finish, expireVars
  <2> QED BY <2>1, <2>2
<1> QED BY <1>1, <1>2, <1>3 DEF Ageing, TokenAges, PeerAges

-----------------------------------------------------------------------------
LEMMA InitInv == Init => Inv
<1> SUFFICES ASSUME Init PROVE Inv
  OBVIOUS
<1> USE StorageAssumption DEF Init
<1>1. TypeOK
  BY DEF TypeOK, Absent, Token, NoToken
<1>2. TokenAges(token, secretAge)
  BY DEF TokenAges, NoToken
<1>3. PeerAges(age, expireAge)
  BY DEF PeerAges, Absent
<1> QED BY <1>1, <1>2, <1>3 DEF Inv

\* A unit of time ages tokens and secret, peers and storage alike.
LEMMA TickKeeps == ASSUME Inv, Tick PROVE Inv'
<1> USE StorageAssumption
<1>1. /\ secretAge \in Nat /\ rotateAfter \in ROTATE_MIN..ROTATE_MAX
      /\ expireAge \in Nat /\ expireAfter \in EXPIRE_MIN..EXPIRE_MAX
      /\ secretAge' = secretAge + 1 /\ expireAge' = expireAge + 1
      /\ secretAge < rotateAfter + LATE /\ expireAge < expireAfter + LATE
  BY DEF Inv, TypeOK, Tick
<1>2. secretAge' \in 0..ROTATE_MAX + LATE /\ expireAge' \in 0..EXPIRE_MAX + LATE
  BY <1>1
<1>3. ASSUME NEW n \in Node
      PROVE  /\ token[n].generation \in 0..2 /\ token[n].age \in 0..MAX_AGE
             /\ token'[n].generation = token[n].generation
             /\ token'[n].age = IF token[n].age < MAX_AGE THEN token[n].age + 1 ELSE MAX_AGE
  BY DEF Inv, TypeOK, Token, Tick
<1>4. token' \in [Node -> Token]
  <2>1. ASSUME NEW n \in Node
        PROVE  [generation |-> token[n].generation,
                age |-> IF token[n].age < MAX_AGE THEN token[n].age + 1 ELSE MAX_AGE] \in Token
    BY <1>3 DEF Token
  <2> QED BY <2>1 DEF Tick
<1>5. TokenAges(token', secretAge')
  <2> SUFFICES ASSUME NEW n \in Node
               PROVE /\ token'[n].generation = 0 => token'[n].age <= secretAge'
                     /\ token'[n].generation = 1 =>
                          /\ secretAge' <= token'[n].age
                          /\ token'[n].age <= secretAge' + ROTATE_MAX + LATE
                     /\ token'[n].generation = 2 => ROTATE_MIN <= token'[n].age
    BY DEF TokenAges
  <2>1. /\ token[n].generation = 0 => token[n].age <= secretAge
        /\ token[n].generation = 1 => /\ secretAge <= token[n].age
                                      /\ token[n].age <= secretAge + ROTATE_MAX + LATE
        /\ token[n].generation = 2 => ROTATE_MIN <= token[n].age
    BY DEF Inv, TokenAges
  <2> QED BY <1>1, <1>3, <2>1
<1>6. age' \in Ageing /\ PeerAges(age', expireAge')
  <2>1. age \in Ageing
    BY DEF Inv, TypeOK, Ageing
  <2>2. age' = [h \in Hash |-> [p \in Entry |->
                  IF age[h][p] \in {Absent, TimeZero} THEN age[h][p] ELSE age[h][p] + 1]]
    BY DEF Tick
  <2>3. age' \in Ageing
    BY <2>1, <2>2 DEF Ageing, Absent, TimeZero
  <2>4. ASSUME NEW h \in Hash, NEW p \in Entry PROVE age'[h][p] <= PEER_LIFE + expireAge'
    <3>1. age[h][p] \in Nat \cup {Absent, TimeZero} /\ age[h][p] <= PEER_LIFE + expireAge
      BY <2>1 DEF Ageing, Inv, PeerAges
    <3> QED BY <1>1, <2>2, <3>1, StorageAssumption DEF Absent, TimeZero
  <2> QED BY <2>3, <2>4 DEF PeerAges
<1>7. published' \subseteq Hash
      /\ rotateAfter' \in ROTATE_MIN..ROTATE_MAX /\ expireAfter' \in EXPIRE_MIN..EXPIRE_MAX
  BY DEF Inv, TypeOK, Tick
<1> QED BY <1>2, <1>4, <1>5, <1>6, <1>7 DEF Inv, TypeOK, Ageing, TokenAges, PeerAges

LEMMA NextInv == Inv /\ [Next]_vars => Inv'
<1> SUFFICES ASSUME Inv, [Next]_vars PROVE Inv'
  OBVIOUS
<1> USE StorageAssumption
<1>0. /\ age \in Ageing /\ token \in [Node -> Token] /\ secretAge \in Nat /\ expireAge \in Nat
      /\ TokenAges(token, secretAge) /\ PeerAges(age, expireAge)
  BY DEF Inv, TypeOK, Ageing
<1>1. CASE Timeout
  BY <1>0, <1>1, FinishKeeps DEF Timeout
<1>2. ASSUME NEW n \in Node, GetPeers(n) PROVE Inv'
  <2> DEFINE t == [token EXCEPT ![n] = NewToken]
  <2>1. t \in [Node -> Token]
    BY <1>0 DEF NewToken, Token
  <2>2. TokenAges(t, secretAge)
    BY <1>0 DEF TokenAges, NewToken
  <2>3. Finish(age, t)
    BY <1>2 DEF GetPeers
  <2> QED BY <1>0, <2>1, <2>2, <2>3, FinishKeeps
<1>3. ASSUME NEW n \in Node, NEW m \in Node, NEW h \in Hash, NEW port \in Port,
             Announce(n, m, h, port)
      PROVE  Inv'
  <2> DEFINE p == [node |-> n, port |-> port]
             a == IF Matches(n, m) THEN Stored(h, p) ELSE age
  <2>1. p \in Entry
    BY DEF Peer, Entry
  <2>2. a \in Ageing /\ PeerAges(a, expireAge)
    BY <1>0, <2>1, StoredIs
  <2>3. Finish(a, token)
    BY <1>3 DEF Announce
  <2> QED BY <1>0, <2>2, <2>3, FinishKeeps
<1>4. ASSUME NEW h \in Hash, OwnStore(h) PROVE Inv'
  <2>1. published' \subseteq Hash
        /\ UNCHANGED <<token, secretAge, rotateAfter, expireAge, expireAfter>>
    BY <1>4 DEF Inv, TypeOK, OwnStore, secretVars, expireVars
  <2>2. age' \in Ageing /\ PeerAges(age', expireAge)
    BY <1>0, <1>4, OwnStoreIs
  <2> QED BY <2>1, <2>2 DEF Inv, TypeOK, Ageing, TokenAges, PeerAges
<1>5. CASE Tick
  BY <1>5, TickKeeps
<1>6. CASE UNCHANGED vars
  BY <1>6 DEF Inv, TypeOK, vars, secretVars, expireVars, TokenAges, PeerAges
<1> QED BY <1>1, <1>2, <1>3, <1>4, <1>5, <1>6 DEF Next

\* The invariant holds throughout.
THEOREM Invariant == Spec => []Inv
BY InitInv, NextInv, PTL DEF Spec

\* Every variable keeps its type (the statics of dht.c and its tables).
THEOREM TypeCorrect == Spec => []TypeOK
<1>1. Inv => TypeOK
  BY DEF Inv
<1> QED BY <1>1, Invariant, PTL

\* However rotations fall, a token younger than the shortest rotation is
\* honoured when its node announces with it (token_match).
THEOREM FreshTokens == Spec => []FreshTokenHonoured
<1>1. Inv => FreshTokenHonoured
  <2> SUFFICES ASSUME Inv, NEW n \in Node, token[n].age < ROTATE_MIN PROVE Matches(n, n)
    BY DEF FreshTokenHonoured
  <2>1. token[n].generation \in 0..2 /\ token[n].age \in 0..MAX_AGE
    BY DEF Inv, TypeOK, Token
  <2>2. token[n].generation = 2 => ROTATE_MIN <= token[n].age
    BY DEF Inv, TokenAges
  <2> QED BY <2>1, <2>2, StorageAssumption DEF Matches
<1> QED BY <1>1, Invariant, PTL

\* A token made with either secret is at most two rotations old.
LEMMA TokenIsRecent ==
    ASSUME Inv, NEW n \in Node, token[n].generation <= 1
    PROVE  token[n].age <= 2 * (ROTATE_MAX + LATE)
<1>1. /\ token[n].generation \in 0..2 /\ token[n].age \in 0..MAX_AGE
      /\ secretAge \in 0..ROTATE_MAX + LATE
  BY DEF Inv, TypeOK, Token
<1>2. /\ token[n].generation = 0 => token[n].age <= secretAge
      /\ token[n].generation = 1 => token[n].age <= secretAge + ROTATE_MAX + LATE
  BY DEF Inv, TokenAges
<1> QED BY <1>1, <1>2, StorageAssumption

\* Two rotations after it was issued at the latest, a token is refused.
THEOREM OldTokens == Spec => []OldTokenRefused
<1>1. Inv => OldTokenRefused
  <2> SUFFICES ASSUME Inv, NEW n \in Node, token[n].age > 2 * (ROTATE_MAX + LATE),
                      Matches(n, n)
               PROVE FALSE
    BY DEF OldTokenRefused
  <2>1. token[n].age <= 2 * (ROTATE_MAX + LATE)
    BY TokenIsRecent DEF Matches
  <2>2. token[n].age \in 0..MAX_AGE
    BY DEF Inv, TypeOK, Token
  <2> QED BY <2>1, <2>2, StorageAssumption
<1> QED BY <1>1, Invariant, PTL

\* expire_storage, when the end of dht_periodic runs it, only takes peers away.
LEMMA FinishRenewsNothing ==
    ASSUME NEW a \in Ageing, NEW t, Finish(a, t), NEW h \in Hash, NEW p \in Entry
    PROVE  age'[h][p] = a[h][p] \/ age'[h][p] = Absent
<1>1. CASE expireAge >= expireAfter
  <2>1. Expired(a)[h][p] = a[h][p] \/ Expired(a)[h][p] = Absent
    BY DEF Expired
  <2> QED BY <1>1, <2>1 DEF Finish
<1>2. CASE ~(expireAge >= expireAfter)
  BY <1>2 DEF Finish
<1> QED BY <1>1, <1>2

\* Nobody is listed, or renewed, but by announcing from the address a token was
\* issued to, two rotations ago at most (announce_peer in dht_periodic).
THEOREM ProvenPeers == Spec => PeersAreProven
<1> DEFINE Renewed(h, p) ==
        age'[h][p] # Absent /\ (age[h][p] = Absent \/ age'[h][p] < age[h][p])
    Proof(p) == /\ token[p.node].generation <= 1
                /\ token[p.node].age <= 2 * (ROTATE_MAX + LATE)
<1>1. ASSUME Inv, Next, NEW h \in Hash, NEW p \in Peer, Renewed(h, p) PROVE Proof(p)
  <2>0. /\ age \in Ageing /\ p \in Entry /\ p # Self
        /\ age[h][p] \in Nat \cup {Absent, TimeZero} /\ ~(age[h][p] < age[h][p])
    <3>1. age \in Ageing
      BY <1>1 DEF Inv, TypeOK, Ageing
    <3>2. p \in Entry /\ p # Self
      BY StorageAssumption DEF Entry, Peer
    <3>3. age[h][p] \in Nat \cup {Absent, TimeZero}
      BY <3>1, <3>2 DEF Ageing
    <3> QED BY <3>1, <3>2, <3>3 DEF Absent, TimeZero
  <2>1. ~(age'[h][p] = age[h][p] \/ age'[h][p] = Absent)
    BY <1>1, <2>0
  <2>2. CASE Timeout
    BY <2>0, <2>1, <2>2, FinishRenewsNothing DEF Timeout
  <2>3. ASSUME NEW n \in Node, GetPeers(n) PROVE Proof(p)
    BY <2>0, <2>1, <2>3, FinishRenewsNothing DEF GetPeers
  <2>4. ASSUME NEW n \in Node, NEW m \in Node, NEW g \in Hash, NEW port \in Port,
               Announce(n, m, g, port)
        PROVE  Proof(p)
    <3> DEFINE q == [node |-> n, port |-> port]
               a == IF Matches(n, m) THEN Stored(g, q) ELSE age
    <3>1. q \in Entry /\ q.node = n /\ Finish(a, token)
      BY <2>4 DEF Peer, Entry, Announce
    <3>2. a \in Ageing
      BY <1>1, <2>0, <3>1, StoredIs, StorageAssumption DEF Inv, TypeOK
    <3>3. age'[h][p] = a[h][p] \/ age'[h][p] = Absent
      BY <2>0, <3>1, <3>2, FinishRenewsNothing
    <3>4. a[h][p] # age[h][p]
      BY <2>1, <3>3
    <3>5. Matches(n, m) /\ Stored(g, q)[h][p] # age[h][p]
      BY <3>4
    <3>6. p = q
      BY <2>0, <3>1, <3>5 DEF Stored, Ageing
    <3>7. token[n].generation <= 1
      BY <3>5 DEF Matches
    <3> QED BY <1>1, <3>1, <3>6, <3>7, TokenIsRecent
  <2>5. ASSUME NEW g \in Hash, OwnStore(g) PROVE Proof(p)
    BY <2>0, <2>1, <2>5 DEF OwnStore, Ageing
  <2>6. CASE Tick
    <3>1. age'[h][p] = IF age[h][p] \in {Absent, TimeZero} THEN age[h][p] ELSE age[h][p] + 1
      BY <2>0, <2>6 DEF Tick
    <3> QED BY <1>1, <2>0, <3>1 DEF Absent, TimeZero
  <2> QED BY <1>1, <2>2, <2>3, <2>4, <2>5, <2>6 DEF Next
<1>2. Inv /\ [Next]_vars =>
        [\A h \in Hash, p \in Peer : Renewed(h, p) => Proof(p)]_vars
  BY <1>1
<1> QED BY <1>2, Invariant, PTL DEF Spec, PeersAreProven

\* A peer nobody renews is listed for its life and one late round at most.
THEOREM PeersExpire == Spec => []NoStalePeers
<1>1. Inv => NoStalePeers
  <2> SUFFICES ASSUME Inv, NEW h \in Hash, NEW p \in Peer
               PROVE age[h][p] <= PEER_LIFE + EXPIRE_MAX + LATE
    BY DEF NoStalePeers
  <2>0. p \in Entry
    BY DEF Entry
  <2>1. age[h][p] \in Nat \cup {Absent, TimeZero} /\ expireAge \in 0..EXPIRE_MAX + LATE
    BY <2>0 DEF Inv, TypeOK
  <2>2. age[h][p] <= PEER_LIFE + expireAge
    BY <2>0 DEF Inv, PeerAges
  <2> QED BY <2>1, <2>2, StorageAssumption DEF Absent, TimeZero
<1> QED BY <1>1, Invariant, PTL

\* The entry for this node itself has time 0, or there is none.
OwnTime == \A h \in Hash : age[h][Self] \in {Absent, TimeZero}

\* What is announced is never the entry of this node: no address is its own.
LEMMA StoredKeepsOwn ==
    ASSUME age \in Ageing, NEW g \in Hash, NEW p \in Peer, NEW h \in Hash
    PROVE  Stored(g, p)[h][Self] = age[h][Self]
<1>1. p # Self /\ Self \in Entry
  BY StorageAssumption DEF Peer, Entry
<1> QED BY <1>1 DEF Stored, Ageing

\* expire_storage passes over time 0.
LEMMA FinishKeepsOwn ==
    ASSUME NEW a \in Ageing, NEW t, Finish(a, t), NEW h \in Hash,
           a[h][Self] \in {Absent, TimeZero}
    PROVE  age'[h][Self] = a[h][Self]
<1>1. Self \in Entry
  BY DEF Entry
<1>2. Expired(a)[h][Self] = a[h][Self]
  BY <1>1 DEF Expired
<1> QED BY <1>2 DEF Finish

LEMMA StepKeepsOwn ==
    ASSUME Inv, OwnTime, [Next]_vars, NEW h \in Hash
    PROVE  age'[h][Self] \in {Absent, TimeZero} /\ (age[h][Self] # Absent => age'[h][Self] # Absent)
<1> USE DEF OwnTime
<1>0. age \in Ageing /\ Self \in Entry
  BY DEF Inv, TypeOK, Ageing, Entry
<1>1. CASE Timeout
  BY <1>0, <1>1, FinishKeepsOwn DEF Timeout
<1>2. CASE \E n \in Node : GetPeers(n)
  BY <1>0, <1>2, FinishKeepsOwn DEF GetPeers
<1>3. ASSUME NEW n \in Node, NEW m \in Node, NEW g \in Hash, NEW port \in Port,
             Announce(n, m, g, port)
      PROVE  age'[h][Self] = age[h][Self]
  <2> DEFINE p == [node |-> n, port |-> port]
             a == IF Matches(n, m) THEN Stored(g, p) ELSE age
  <2>1. p \in Peer /\ p \in Entry
    BY DEF Peer, Entry
  <2>2. a \in Ageing
    BY <1>0, <2>1, StoredIs, StorageAssumption DEF Inv, TypeOK
  <2>3. a[h][Self] = age[h][Self]
    BY <1>0, <2>1, StoredKeepsOwn
  <2>4. Finish(a, token)
    BY <1>3 DEF Announce
  <2> HIDE DEF a
  <2> QED BY <2>2, <2>3, <2>4, FinishKeepsOwn
<1>4. CASE \E g \in Hash : OwnStore(g)
  <2>1. PICK g \in Hash : OwnStore(g)
    BY <1>4
  <2>2. age'[h][Self] = age[h][Self] \/ age'[h][Self] = TimeZero
    BY <1>0, <2>1, OwnStoreIs
  <2> QED BY <2>2 DEF Absent, TimeZero
<1>5. CASE Tick
  <2>1. age'[h][Self] = age[h][Self]
    BY <1>0, <1>5 DEF Tick
  <2> QED BY <2>1
<1>6. CASE UNCHANGED vars
  BY <1>6 DEF vars
<1> QED BY <1>1, <1>2, <1>3, <1>4, <1>5, <1>6 DEF Next

\* A node goes on listing itself for a file, for any lives and delays: its
\* entry has time 0 throughout, which no announcement refreshes, being from
\* another address, and which expire_storage, for all its age, passes over.
THEOREM OwnIsKept == Spec => OwnStays
<1>1. Init => OwnTime
  BY DEF Init, OwnTime, Entry
<1>2. Inv /\ OwnTime /\ [Next]_vars => OwnTime'
  BY StepKeepsOwn DEF OwnTime
<1>3. Inv /\ OwnTime /\ [Next]_vars
        => [\A h \in Hash : age[h][Self] # Absent => age'[h][Self] # Absent]_vars
  BY StepKeepsOwn
<1> QED BY <1>1, <1>2, <1>3, Invariant, PTL DEF Spec, OwnStays
-----------------------------------------------------------------------------
(* The limits.                                                              *)

PeersOf(a, h) == {p \in Entry : a[h][p] # Absent}

\* The limits for storage a, all of it finite.
Bounded(a) ==
    /\ IsFiniteSet(Listed(a)) /\ Cardinality(Listed(a)) <= DHT_MAX_HASHES
    /\ \A h \in Hash : IsFiniteSet(PeersOf(a, h)) /\ NumPeers(a, h) <= DHT_MAX_PEERS

\* Dropping peers keeps the limits.
LEMMA FewerBounded ==
    ASSUME NEW a, NEW b, Bounded(a), \A h \in Hash : PeersOf(b, h) \subseteq PeersOf(a, h)
    PROVE  Bounded(b)
<1> USE StorageAssumption
<1>1. IsFiniteSet(Listed(b)) /\ Cardinality(Listed(b)) <= DHT_MAX_HASHES
  <2>1. Listed(b) \subseteq Listed(a)
    BY DEF Listed, PeersOf
  <2>2. IsFiniteSet(Listed(a)) /\ Cardinality(Listed(a)) <= DHT_MAX_HASHES
    BY DEF Bounded
  <2>3. IsFiniteSet(Listed(b)) /\ Cardinality(Listed(b)) <= Cardinality(Listed(a))
    BY <2>1, <2>2, FS_Subset
  <2>4. Cardinality(Listed(a)) \in Nat /\ Cardinality(Listed(b)) \in Nat
    BY <2>2, <2>3, FS_CardinalityType
  <2> QED BY <2>2, <2>3, <2>4
<1>2. ASSUME NEW h \in Hash
      PROVE  IsFiniteSet(PeersOf(b, h)) /\ NumPeers(b, h) <= DHT_MAX_PEERS
  <2>1. PeersOf(b, h) \subseteq PeersOf(a, h) /\ IsFiniteSet(PeersOf(a, h))
        /\ NumPeers(a, h) <= DHT_MAX_PEERS
    BY DEF Bounded
  <2>2. IsFiniteSet(PeersOf(b, h)) /\ Cardinality(PeersOf(b, h)) <= Cardinality(PeersOf(a, h))
    BY <2>1, FS_Subset
  <2>3. Cardinality(PeersOf(a, h)) \in Nat /\ Cardinality(PeersOf(b, h)) \in Nat
    BY <2>1, <2>2, FS_CardinalityType
  <2>4. NumPeers(a, h) = Cardinality(PeersOf(a, h)) /\ NumPeers(b, h) = Cardinality(PeersOf(b, h))
    BY DEF NumPeers, PeersOf
  <2> QED BY <2>1, <2>2, <2>3, <2>4
<1> QED BY <1>1, <1>2 DEF Bounded

\* One more entry, for a hash with room for it, keeps the limits.
LEMMA AddedBounded ==
    ASSUME age \in Ageing, Bounded(age), NEW h \in Hash, NEW p \in Entry,
           NEW time \in Nat \cup {TimeZero}, age[h][p] = Absent, ~NoRoom(h, p)
    PROVE  Bounded([age EXCEPT ![h] = [age[h] EXCEPT ![p] = time]])
<1> USE StorageAssumption
<1> DEFINE b == [age EXCEPT ![h] = [age[h] EXCEPT ![p] = time]]
<1>0. /\ b \in Ageing /\ \A g \in Hash \ {h} : PeersOf(b, g) = PeersOf(age, g)
      /\ PeersOf(b, h) = PeersOf(age, h) \cup {p}
  BY DEF Ageing, PeersOf, Absent, TimeZero
<1>2. Listed(b) = Listed(age) \cup {h}
  BY <1>0 DEF Listed, PeersOf
<1>3. /\ IsFiniteSet(PeersOf(b, h)) /\ Cardinality(PeersOf(age, h)) \in Nat
      /\ Cardinality(PeersOf(b, h)) = Cardinality(PeersOf(age, h)) + 1
  <2>1. IsFiniteSet(PeersOf(age, h)) /\ p \notin PeersOf(age, h)
    BY DEF Bounded, PeersOf
  <2>2. /\ IsFiniteSet(PeersOf(age, h) \cup {p})
        /\ Cardinality(PeersOf(age, h) \cup {p}) = Cardinality(PeersOf(age, h)) + 1
    BY <2>1, FS_AddElement
  <2>3. Cardinality(PeersOf(age, h)) \in Nat
    BY <2>1, FS_CardinalityType
  <2> HIDE DEF b
  <2> QED BY <1>0, <2>2, <2>3
<1>4. NumPeers(age, h) = Cardinality(PeersOf(age, h)) /\ NumPeers(b, h) = Cardinality(PeersOf(b, h))
  BY DEF NumPeers, PeersOf
<1>5. NumPeers(b, h) <= DHT_MAX_PEERS
  <2>1. CASE h \in Listed(age)
    <3>1. NumPeers(age, h) < DHT_MAX_PEERS
      BY <1>3, <1>4, <2>1 DEF NoRoom
    <3> QED BY <1>3, <1>4, <3>1
  <2>2. CASE h \notin Listed(age)
    <3>1. PeersOf(age, h) = {}
      BY <2>2 DEF Listed, PeersOf
    <3>2. Cardinality(PeersOf(age, h)) = 0
      BY <3>1, FS_EmptySet
    <3> QED BY <1>3, <1>4, <3>1, <3>2
  <2> QED BY <2>1, <2>2
<1>6. IsFiniteSet(Listed(b)) /\ Cardinality(Listed(b)) <= DHT_MAX_HASHES
  <2>0. IsFiniteSet(Listed(age)) /\ Cardinality(Listed(age)) <= DHT_MAX_HASHES
        /\ Cardinality(Listed(age)) \in Nat
    BY FS_CardinalityType DEF Bounded
  <2>1. CASE h \in Listed(age)
    BY <1>2, <2>0, <2>1
  <2>2. CASE h \notin Listed(age)
    <3>0. ~(Cardinality(Listed(age)) >= DHT_MAX_HASHES)
      BY <2>2 DEF NoRoom
    <3>1. Cardinality(Listed(age)) < DHT_MAX_HASHES
      BY <2>0, <3>0
    <3>2. /\ IsFiniteSet(Listed(age) \cup {h})
          /\ Cardinality(Listed(age) \cup {h}) = Cardinality(Listed(age)) + 1
      BY <2>0, <2>2, FS_AddElement
    <3> HIDE DEF b
    <3> QED BY <1>2, <2>0, <3>1, <3>2
  <2> QED BY <2>1, <2>2
<1>7. ASSUME NEW g \in Hash
      PROVE  IsFiniteSet(PeersOf(b, g)) /\ NumPeers(b, g) <= DHT_MAX_PEERS
  <2>1. CASE g = h
    BY <1>3, <1>5, <2>1
  <2>2. CASE g # h
    BY <1>0, <2>2 DEF Bounded, NumPeers, PeersOf
  <2> QED BY <2>1, <2>2
<1> QED BY <1>6, <1>7 DEF Bounded


\* dht_storage_store keeps the limits: it asks for room first.
LEMMA StoredBounded ==
    ASSUME age \in Ageing, Bounded(age), NEW h \in Hash, NEW p \in Peer
    PROVE  Bounded(Stored(h, p))
<1> DEFINE b == [age EXCEPT ![h] = [age[h] EXCEPT ![p] = 0]]
<1>0. p \in Entry
  BY DEF Entry
<1>1. CASE NoRoom(h, p)
  BY <1>1 DEF Stored
<1>2. CASE age[h][p] # Absent
  <2>1. \A g \in Hash : PeersOf(b, g) = PeersOf(age, g)
    BY <1>0, <1>2 DEF PeersOf, Ageing, Absent
  <2>2. Stored(h, p) = b
    BY <1>2 DEF Stored, NoRoom
  <2> QED BY <2>1, <2>2, FewerBounded
<1>3. CASE age[h][p] = Absent /\ ~NoRoom(h, p)
  BY <1>0, <1>3, AddedBounded DEF Stored
<1> QED BY <1>1, <1>2, <1>3 DEF NoRoom

\* The end of dht_periodic keeps them: it adds no peer.
LEMMA FinishBounded ==
    ASSUME NEW a \in Ageing, NEW t, Finish(a, t), Bounded(a)
    PROVE  Bounded(age)'
<1>1. \A h \in Hash : PeersOf(age', h) \subseteq PeersOf(a, h)
  BY FinishRenewsNothing DEF PeersOf
<1>2. Bounded(age')
  BY <1>1, FewerBounded
<1> QED BY <1>2 DEF Bounded, Listed, NumPeers

\* A node's own entry counts against the same limits, and is made only for a
\* hash that lists nobody.
LEMMA OwnBounded ==
    ASSUME age \in Ageing, Bounded(age), NEW h \in Hash, OwnStore(h)
    PROVE  Bounded(age)'
<1> USE StorageAssumption
<1> DEFINE b == [age EXCEPT ![h] = [age[h] EXCEPT ![Self] = TimeZero]]
<1>1. CASE age' = age
  BY <1>1 DEF Bounded, Listed, NumPeers, PeersOf
<1>2. CASE age' # age
  <2>1. age' = b /\ h \notin Listed(age) /\ ~(Cardinality(Listed(age)) >= DHT_MAX_HASHES)
    BY <1>2 DEF OwnStore
  <2>2. Self \in Entry /\ age[h][Self] = Absent /\ ~NoRoom(h, Self)
    BY <2>1 DEF Entry, Listed, NoRoom
  <2>3. Bounded(b)
    BY <2>2, AddedBounded
  <2> HIDE DEF b
  <2> QED BY <2>1, <2>3 DEF Bounded, Listed, NumPeers, PeersOf
<1> QED BY <1>1, <1>2

\* The limits dht.c names hold for all storage, our own entries included
\* (dht_storage_store, expire_storage).
THEOREM Limits == Spec => []WithinLimits
<1>1. Init => Bounded(age)
  <2> SUFFICES ASSUME Init PROVE Bounded(age)
    OBVIOUS
  <2>1. Listed(age) = {} /\ \A h \in Hash : PeersOf(age, h) = {}
    BY DEF Init, Listed, PeersOf
  <2>2. \A h \in Hash : NumPeers(age, h) = Cardinality(PeersOf(age, h))
    <3> TAKE h \in Hash
    <3> QED BY DEF NumPeers, PeersOf
  <2> QED BY <2>1, <2>2, FS_EmptySet, StorageAssumption DEF Bounded
<1>2. Inv /\ Bounded(age) /\ [Next]_vars => Bounded(age)'
  <2> SUFFICES ASSUME Inv, Bounded(age), [Next]_vars PROVE Bounded(age)'
    OBVIOUS
  <2>0. age \in Ageing
    BY DEF Inv, TypeOK, Ageing
  <2>1. CASE Timeout
    BY <2>0, <2>1, FinishBounded DEF Timeout
  <2>2. ASSUME NEW n \in Node, GetPeers(n) PROVE Bounded(age)'
    BY <2>0, <2>2, FinishBounded DEF GetPeers
  <2>3. ASSUME NEW n \in Node, NEW m \in Node, NEW h \in Hash, NEW port \in Port,
               Announce(n, m, h, port)
        PROVE  Bounded(age)'
    <3> DEFINE p == [node |-> n, port |-> port]
               a == IF Matches(n, m) THEN Stored(h, p) ELSE age
    <3>1. p \in Peer /\ p \in Entry
      BY DEF Peer, Entry
    <3>2. a \in Ageing /\ Bounded(a)
      BY <2>0, <3>1, StoredIs, StoredBounded, StorageAssumption DEF Inv, TypeOK
    <3>3. Finish(a, token)
      BY <2>3 DEF Announce
    <3> QED BY <3>2, <3>3, FinishBounded
  <2>4. ASSUME NEW h \in Hash, OwnStore(h) PROVE Bounded(age)'
    BY <2>0, <2>4, OwnBounded
  <2>5. CASE Tick
    <3>1. \A h \in Hash : PeersOf(age', h) \subseteq PeersOf(age, h)
      BY <2>0, <2>5 DEF Tick, PeersOf
    <3>2. Bounded(age')
      BY <3>1, FewerBounded
    <3> QED BY <3>1, <3>2 DEF Bounded, Listed, NumPeers, PeersOf
  <2>6. CASE UNCHANGED vars
    BY <2>6 DEF vars, Bounded, Listed, NumPeers, PeersOf
  <2> QED BY <2>1, <2>2, <2>3, <2>4, <2>5, <2>6 DEF Next
<1>3. Bounded(age) => WithinLimits
  BY DEF Bounded, WithinLimits
<1> QED BY <1>1, <1>2, <1>3, Invariant, PTL DEF Spec
=============================================================================
