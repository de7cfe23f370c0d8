SPECIFICATION Spec
CONSTANTS
    n1 = n1
    n2 = n2
    h1 = h1
    h2 = h2
    Node = {n1, n2}
    Hash = {h1, h2}
    Port = {1}
    Self = Self
    DHT_MAX_PEERS = 2
    DHT_MAX_HASHES = 1
    ROTATE_MIN = 2
    ROTATE_MAX = 3
    EXPIRE_MIN = 1
    EXPIRE_MAX = 2
    PEER_LIFE = 2
    LATE = 1
    MAX_AGE = 9
SYMMETRY Symmetry
INVARIANT WithinLimits
INVARIANT FreshTokenHonoured
INVARIANT OldTokenRefused
INVARIANT NoStalePeers
PROPERTY PeersAreProven
PROPERTY OwnStays
CHECK_DEADLOCK FALSE
