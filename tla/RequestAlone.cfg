SPECIFICATION FairSpec
CONSTANTS
    Client = {c1, c2, c3}
    Hash = {h1, h2}
    c1 = c1
    c2 = c2
    c3 = c3
    h1 = h1
    h2 = h2
    HashOf <- MCHashOf
    KindOf <- MCKindOf
    MAX_REQUEST = 3
    MaxNodes = 1
    MaxAnswers = 2
    LateReplies = FALSE
    MayStop = FALSE
    MayDie = FALSE
    OneAtATime = TRUE
PROPERTY KeepsPromise
CHECK_DEADLOCK FALSE
