SPECIFICATION MCCommandsSpec
CONSTANTS
    a1 = a1
    a2 = a2
    b = b
    c = c
    Msgs <- AllMsgs
    Dialogs <- TwoDialogs
    Album <- OneAlbum
    Filtered = {}
    SkipSame = FALSE
    Workers = {w1, w2}
    MayFail = FALSE
    FilesFail = FALSE
    MayKill = TRUE
    MayRestart = FALSE
    Deletable = {b}
    MaxRuns = 3
    Turns = {"upload"}
    None = None
    Inputs <- ThreeInputs
    Albums <- OneAlbumOfThree
    Kind <- Kinds
    Paths <- ThreePaths
    Excluded = {4}
    UploadLimit = 2
    Namespaces = {"default", "work"}
    Names = {"session"}
    Values = {1, 2}
    KvClients = {"k1", "k2"}
    MaxCommands = 3
INVARIANT RemovedWasSent
