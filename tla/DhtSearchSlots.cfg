SPECIFICATION FairSpec
CONSTANTS
    Hash = {0, 3}
    Node = {1, 2}
    Dist <- MCDist
    NoPort = 0
    Ports = {9}
    SEARCH_NODES = 1
    ANNOUNCE_NODES = 1
    INFLIGHT = 1
    RETRANSMIT = 1
    GOOD = 1
    EXPIRE = 1
    MAX_SEARCHES = 1
    MAX_BLACKLISTED = 1
    TID_SPACE = 2
    Tables <- Upto1
    Lists <- Upto1
    GpTokens <- Yes
    Malformed = TRUE
    MaxStarts = 2
 
PROPERTY Terminates
