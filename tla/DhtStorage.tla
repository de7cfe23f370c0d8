----------------------------- MODULE DhtStorage -----------------------------
(* The peers a node stores for the hashes announced to it, and the tokens   *)
(* that let others announce (src/dht/dht.c): dht_storage_store,             *)
(* expire_storage, make_token, token_match, rotate_secrets, and the         *)
(* requests get_peers and announce_peer in dht_periodic.                    *)
(*                                                                          *)
(* Times are kept as ages, but for the time 0 of an entry for this node     *)
(* itself, which taken for a time would be long past.  A secret is known by *)
(* its place: a token of generation 0 was made with `secret', of 1 with     *)
(* `oldsecret', of 2 with a secret that is gone.                            *)
EXTENDS Integers, FiniteSets

CONSTANTS
    Hash,
    Node,            \* the addresses messages come from
    Port,            \* the ports they announce
    Self,            \* myip and myport: 0.0.0.0, where no message comes from
    DHT_MAX_PEERS, DHT_MAX_HASHES,
    ROTATE_MIN, ROTATE_MAX,    \* 900 and 900 + 1799 seconds
    EXPIRE_MIN, EXPIRE_MAX,    \* 120 and 120 + 239 seconds
    PEER_LIFE,                 \* 32 minutes
    LATE,            \* the longest time between two calls of dht_periodic
    MAX_AGE          \* BOUND: ages of tokens are not told apart from here on

ASSUME StorageAssumption ==
    /\ Self \notin [node : Node, port : Port]
    /\ DHT_MAX_PEERS \in Nat \ {0} /\ DHT_MAX_HASHES \in Nat
    /\ ROTATE_MIN \in Nat \ {0} /\ ROTATE_MAX \in Nat /\ ROTATE_MIN <= ROTATE_MAX
    /\ EXPIRE_MIN \in Nat \ {0} /\ EXPIRE_MAX \in Nat /\ EXPIRE_MIN <= EXPIRE_MAX
    /\ PEER_LIFE \in Nat /\ LATE \in Nat
    /\ MAX_AGE \in Nat /\ MAX_AGE > 2 * (ROTATE_MAX + LATE)

VARIABLES
    age,             \* of each entry for a hash, or TimeZero; Absent if there is none
    token,           \* the last token that reached each node
    secretAge, rotateAfter,    \* since rotate_secrets; rotate_secrets_time
    expireAge, expireAfter,    \* since expire_storage; expire_stuff_time
    published        \* the hashes of the files this node has received whole

secretVars == <<secretAge, rotateAfter>>
expireVars == <<expireAge, expireAfter>>
vars == <<age, token, secretVars, expireVars, published>>

Peer == [node : Node, port : Port]
Entry == Peer \cup {Self}
Absent == -1
TimeZero == -2

Token == [generation : 0..2, age : 0..MAX_AGE]
NoToken == [generation |-> 2, age |-> MAX_AGE]
NewToken == [generation |-> 0, age |-> 0]

\* find_storage: the hashes with at least one peer; numstorage counts them.
Listed(a) == {h \in Hash : \E p \in Entry : a[h][p] # Absent}
NumPeers(a, h) == Cardinality({p \in Entry : a[h][p] # Absent})

Init ==
    /\ age = [h \in Hash |-> [p \in Entry |-> Absent]]
    /\ published = {}
    /\ token = [n \in Node |-> NoToken]
    /\ secretAge = 0 /\ rotateAfter \in ROTATE_MIN..ROTATE_MAX
    /\ expireAge = 0 /\ expireAfter \in EXPIRE_MIN..EXPIRE_MAX

-----------------------------------------------------------------------------
\* dht_storage_store for a peer of another node: there is no room for a new
\* hash, or none for a new peer of this one.  Mutant: one too many fits.
NoRoomOffByOne(h, p) ==
    /\ age[h][p] = Absent
    /\ IF h \in Listed(age) THEN NumPeers(age, h) > DHT_MAX_PEERS
       ELSE Cardinality(Listed(age)) > DHT_MAX_HASHES

NoRoom(h, p) ==
    /\ age[h][p] = Absent
    /\ IF h \in Listed(age) THEN NumPeers(age, h) >= DHT_MAX_PEERS
       ELSE Cardinality(Listed(age)) >= DHT_MAX_HASHES

Stored(h, p) ==
    IF NoRoom(h, p) THEN age ELSE [age EXCEPT ![h] = [age[h] EXCEPT ![p] = 0]]

\* time < now - 32 * 60, which time 0 is as well.
Old(time) == time = TimeZero \/ time > PEER_LIFE

\* expire_storage.  Mutants: a hash is expired only as a whole; time 0 is taken
\* for a time.
ExpiredWhole(a) ==
    [h \in Hash |-> [p \in Entry |->
        IF a[h][p] # TimeZero /\ \A q \in Peer : a[h][q] = Absent \/ Old(a[h][q])
        THEN Absent ELSE a[h][p]]]

ExpiredOwn(a) ==
    [h \in Hash |-> [p \in Entry |-> IF Old(a[h][p]) THEN Absent ELSE a[h][p]]]

Expired(a) ==
    [h \in Hash |-> [p \in Entry |->
        IF a[h][p] # TimeZero /\ Old(a[h][p]) THEN Absent ELSE a[h][p]]]

\* make_token and token_match: from this sender, with either secret.  Mutant:
\* the token does not depend on the sender.
MatchesAnySender(n, m) == token[m].generation <= 1

Matches(n, m) == n = m /\ token[m].generation <= 1

\* rotate_secrets.  Mutants: oldsecret is lost; it is kept for ever.
RotatedForgets(t) ==
    [n \in Node |-> [generation |-> 2, age |-> t[n].age]]

RotatedKeeps(t) ==
    [n \in Node |-> [generation |-> IF t[n].generation = 2 THEN 2 ELSE 1, age |-> t[n].age]]

Rotated(t) ==
    [n \in Node |-> [generation |-> IF t[n].generation = 0 THEN 1 ELSE 2, age |-> t[n].age]]

\* The end of a call of dht_periodic, after a message that left the storage at
\* a and the tokens at t: what is due is done.
Finish(a, t) ==
    /\ IF secretAge >= rotateAfter
       THEN /\ token' = Rotated(t)
            /\ secretAge' = 0 /\ rotateAfter' \in ROTATE_MIN..ROTATE_MAX
       ELSE token' = t /\ UNCHANGED secretVars
    /\ IF expireAge >= expireAfter
       THEN /\ age' = Expired(a)
            /\ expireAge' = 0 /\ expireAfter' \in EXPIRE_MIN..EXPIRE_MAX
       ELSE age' = a /\ UNCHANGED expireVars
    /\ UNCHANGED published

\* No message, or one that concerns neither storage nor tokens.
Timeout == Finish(age, token)

\* get_peers from n: the reply carries a token of the current secret.
GetPeers(n) == Finish(age, [token EXCEPT ![n] = NewToken])

\* announce_peer from n, with the token that m was given, which may be lost,
\* late or repeated; a wrong token is refused, a full table is not mentioned.
Announce(n, m, h, port) ==
    Finish(IF Matches(n, m) THEN Stored(h, [node |-> n, port |-> port]) ELSE age, token)

\* tcp_periodic stores a file received whole, once: its name exists from then on.
OwnStore(h) ==
    /\ h \notin published
    /\ published' = published \cup {h}
    /\ age' = IF h \in Listed(age) \/ Cardinality(Listed(age)) >= DHT_MAX_HASHES
              THEN age ELSE [age EXCEPT ![h] = [age[h] EXCEPT ![Self] = TimeZero]]
    /\ UNCHANGED <<token, secretVars, expireVars>>

\* A unit of time passes; dht_periodic is never called more than LATE late.
Tick ==
    /\ secretAge < rotateAfter + LATE /\ expireAge < expireAfter + LATE
    /\ secretAge' = secretAge + 1 /\ expireAge' = expireAge + 1
    /\ token' = [n \in Node |-> [generation |-> token[n].generation,
                     age |-> IF token[n].age < MAX_AGE THEN token[n].age + 1 ELSE MAX_AGE]]
    /\ age' = [h \in Hash |-> [p \in Entry |->
                  IF age[h][p] \in {Absent, TimeZero} THEN age[h][p] ELSE age[h][p] + 1]]
    /\ UNCHANGED <<rotateAfter, expireAfter, published>>

Next ==
    \/ Timeout
    \/ \E n \in Node : GetPeers(n)
    \/ \E n, m \in Node, h \in Hash, port \in Port : Announce(n, m, h, port)
    \/ \E h \in Hash : OwnStore(h)
    \/ Tick

Spec == Init /\ [][Next]_vars

-----------------------------------------------------------------------------
TypeOK ==
    /\ age \in [Hash -> [Entry -> Nat \cup {Absent, TimeZero}]]
    /\ published \subseteq Hash
    /\ token \in [Node -> Token]
    /\ secretAge \in 0..ROTATE_MAX + LATE /\ rotateAfter \in ROTATE_MIN..ROTATE_MAX
    /\ expireAge \in 0..EXPIRE_MAX + LATE /\ expireAfter \in EXPIRE_MIN..EXPIRE_MAX

\* The limits hold, counting our own entries (dht.c:186 and 191).
WithinLimits ==
    /\ Cardinality(Listed(age)) <= DHT_MAX_HASHES
    /\ \A h \in Hash : NumPeers(age, h) <= DHT_MAX_PEERS

\* A node that announces within ROTATE_MIN of being given its token is not told
\* that the token is wrong, wherever rotate_secrets falls, were it in the very
\* call that issued it.
FreshTokenHonoured ==
    \A n \in Node : token[n].age < ROTATE_MIN => Matches(n, n)

\* A token is worth nothing after two rotations at the latest.
OldTokenRefused ==
    \A n \in Node : token[n].age > 2 * (ROTATE_MAX + LATE) => ~Matches(n, n)

\* A peer is listed, or its listing renewed, only when it announces from the
\* address that a token was issued to, two rotations ago at most.
PeersAreProven ==
    [][\A h \in Hash, p \in Peer :
         (age'[h][p] # Absent /\ (age[h][p] = Absent \/ age'[h][p] < age[h][p]))
            => /\ token[p.node].generation <= 1
               /\ token[p.node].age <= 2 * (ROTATE_MAX + LATE)]_vars

\* A peer that is no longer announced is not listed beyond its life and one
\* round of expire_storage.
NoStalePeers ==
    \A h \in Hash : \A p \in Peer : age[h][p] <= PEER_LIFE + EXPIRE_MAX + LATE

\* A node that lists itself for a file it received whole goes on doing so,
\* however long it runs, whoever announces the hash too and whatever else
\* expire_storage drops: the time 0 of its entry never makes it an old one.
OwnStays == [][\A h \in Hash : age[h][Self] # Absent => age'[h][Self] # Absent]_vars
=============================================================================
