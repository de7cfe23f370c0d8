SPECIFICATION FairSpec
CONSTANTS
    Conn = {u1, u2, d1}
    Hash = {f}
    u1 = u1
    u2 = u2
    d1 = d1
    f = f
    HashOf <- MCHashOf
    KindOf <- MCKindOf
    Length <- MCLength
    UPLOAD_MES_LEN = 2
    DOWNLOAD_MES_LEN = 1
    TCP_BUF_LEN = 3
    WINDOW = 1
    Mortal = {u1}
INVARIANT ListsAgree
INVARIANT StoredIsWhole
INVARIANT OneWriter
INVARIANT NothingLost
PROPERTY EveryConnectionEnds
PROPERTY RestIsStored
CHECK_DEADLOCK FALSE
