SPECIFICATION FairSpec
CONSTANTS
    BITS = 3
    MyId = 0
    Peers = {1, 2, 3, 4}
    MAX_COUNT = 2
    MIN_COUNT = 1
    CLOSEST = 2
    PING_WAIT = 0
    TIME_LIFE = 0
    REPLY_LIFE = 1
    BUCKET_LIFE = 1
    BUCKET_WAIT = 0
    GROW_LIFE = 0
    ExpireDelays = {1}
    SoonDelays = {1}
    LateDelays = {2}
    MAX_BLACKLISTED = 1
    NoNode = NoNode
    Searched = {2, 4}
    MAX_MESSAGES = 3
INVARIANTS WellFormed OffersNearest
PROPERTY GoodNodesStay SplitsEnd SilentNodesLeave
