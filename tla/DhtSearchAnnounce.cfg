SPECIFICATION Spec
CONSTANTS
    Hash = {0}
    Node = {1, 2, 4}
    Dist <- MCDist
    NoPort = 0
    Ports = {9}
    SEARCH_NODES = 2
    ANNOUNCE_NODES = 2
    INFLIGHT = 1
    RETRANSMIT = 1
    GOOD = 1
    EXPIRE = 1
    MAX_SEARCHES = 1
    MAX_BLACKLISTED = 1
    TID_SPACE = 2
    Tables <- Upto1
    Lists <- Upto1
    GpTokens <- Yes
    Malformed = FALSE
    MaxStarts = 1
INVARIANT TypeOK
INVARIANT AckedWasAnnounced
INVARIANT NeverForgotten
PROPERTY CompletionAnnounces
PROPERTY KeepsNearest
