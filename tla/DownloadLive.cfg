SPECIFICATION LiveSpec
CONSTANTS
    Ids = {a, b}
    NoId = NoId
    Clients = {c1}
    SlotRuns = {g1}
    Workers = {w1, w2}
    NoWorker = NoWorker
    CoverJobs = {j1}
    Limit = 1
    MaxRequests = 3
INVARIANTS
    DownloadsWithinLimit
PROPERTIES
    ImplementsSlots
    Settles
    PreemptedReturns
CHECK_DEADLOCK FALSE
