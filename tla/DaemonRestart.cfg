SPECIFICATION FairDaemonSpec
CONSTANTS
    Daemon = {d1, d2}
    Id = {i1, i2}
    Node = {n1}
    n1 = n1
    None = None
    Partial = Partial
    Gap = Gap
    MAX_BOOTSTRAP_NODES = 1
    DumpDelays = {1}
    ByHand <- MCByHand
    MAX_LINES = 2
    MAX_STARTS = 3
    MAX_TOKENS = 1
    RATE = 2
    MAX_TIME = 1
INVARIANTS DumpIsFound RateIsBounded
PROPERTIES NodesGetWritten IdIsKept
CHECK_DEADLOCK FALSE
