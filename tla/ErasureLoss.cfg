SPECIFICATION Spec
CONSTANTS
    Length <- MCLength
    MAX_LOST <- MCMaxLost
INVARIANTS RefusedOrHasRows OneGroupIsDecoded SourcesSuffice
CHECK_DEADLOCK FALSE
