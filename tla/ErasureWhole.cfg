SPECIFICATION Spec
CONSTANTS
    Length <- MCShort
    MAX_LOST <- MCShortMaxLost
INVARIANT WithinLimitIsWhole
CHECK_DEADLOCK FALSE
