SPECIFICATION Spec
CONSTANTS
    Client = {c1, c2}
    Hash = {h1, h2}
    c1 = c1
    c2 = c2
    c3 = c3
    h1 = h1
    h2 = h2
    HashOf <- MCHashOf2
    KindOf <- MCKindOf2
    MAX_REQUEST = 2
    MaxNodes = 1
    MaxAnswers = 2
    LateReplies = TRUE
    MayStop = FALSE
    MayDie = FALSE
    OneAtATime = TRUE
INVARIANT Survives
CHECK_DEADLOCK FALSE
