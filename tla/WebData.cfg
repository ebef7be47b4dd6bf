SPECIFICATION MCSpec
CONSTANTS
    Exports <- TwoMessages
    Urls <- OtherList
    Ranges <- Swapped
    Videos = {2}
    Texts = {}
    Date <- Dates
    Continue = TRUE
    SkipSame = TRUE
    RefreshMeta = FALSE
    MaxImports = 2
    MaxActs = 1
    None = None
    Jobs = {j1, j2}
    \* Run's import, and that of a request
    Importers = {"run", "request"}
    Run = "run"
    Turns = {"import", "chat", "file", "thumb", "transfer"}
    \* pages of two, batches of three, a chat of three messages and two that come
    PageSize = 2
    Batch = 3
    Histories = {3}
    MaxNew = 2
    ChatImports = 1
    Sources = {"a", "b"}
    \* a file of four units, two of which are one aligned request
    FileUnits = 4
    FileAlign = 2
    FileChunk = 2
    Downloads = {"j1", "j2"}
    Promoters = {"p1", "p2"}
    Players = {"q"}
    MaxFiles = 3
    MaxBusy = 1
    MaxRestarts = 1
    MaxPlays = 2
    \* two requests and a cover job, for one shared slot
    Requests = {"r1", "r2"}
    Builders = {"b1"}
    SharedLimit = 1
    MaxWork = 3
    ThumbRestarts = 1
    \* sizes below, at and above the limits
    Sizes = {1, 2, 5, 9, 12}
    Chunk = 3
    Align = 2
    Part = 3
    MinLocal = 1
    PrefixMax = 2
    RemoteMax = 8
    Asks <- FewAsks
CONSTRAINT Followed
SYMMETRY Symmetry
INVARIANTS
    WebTypeOK
    FinishedWasDownloaded
    RestoredIsWhole
    HistoryComplete
    SavedNewestFirst
    FilesAreRight
    ThumbsAreRight
    TransfersAreRight
PROPERTIES
    ScanUndisturbed
    WholeStays
CHECK_DEADLOCK FALSE
