SPECIFICATION FairSpec
CONSTANTS
    a1 = a1
    a2 = a2
    b = b
    c = c
    Msgs <- AllMsgs
    Dialogs <- TwoDialogs
    Album <- NoAlbum
    Filtered = {c}
    SkipSame = TRUE
    Workers = {w1, w2}
    MayFail = TRUE
    FilesFail = TRUE
    MayKill = TRUE
    MayRestart = TRUE
    Deletable = {b}
    MaxRuns = 2
INVARIANT AllVisited
PROPERTY CommandEnds
CHECK_DEADLOCK FALSE
