SPECIFICATION Spec
CONSTANTS
    Client = {c1, c2, c3}
    Hash = {h1, h2}
    c1 = c1
    c2 = c2
    c3 = c3
    h1 = h1
    h2 = h2
    HashOf <- MCHashOf
    KindOf <- MCKindOf
    MAX_REQUEST = 2
    MaxNodes = 1
    MaxAnswers = 2
    LateReplies = TRUE
    MayStop = TRUE
    MayDie = TRUE
    OneAtATime = FALSE
INVARIANT FinalAnswerLast
INVARIANT EndOnlyByDeath
INVARIANT PendingList
INVARIANT LostOnlyToRivals
CHECK_DEADLOCK FALSE
