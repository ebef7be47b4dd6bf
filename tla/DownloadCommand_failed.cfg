SPECIFICATION Spec
CONSTANTS
    a1 = a1
    a2 = a2
    b = b
    c = c
    Msgs <- AllMsgs
    Dialogs <- TwoDialogs
    Album <- NoAlbum
    Filtered = {}
    SkipSame = FALSE
    Workers = {w1, w2}
    MayFail = TRUE
    FilesFail = FALSE
    MayKill = FALSE
    MayRestart = FALSE
    Deletable = {}
    MaxRuns = 1
INVARIANT ClearedWhenFinished
