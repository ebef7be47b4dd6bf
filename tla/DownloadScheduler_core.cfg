SPECIFICATION Spec
CONSTANTS
    Ids = {a}
    NoId = NoId
    Clients = {c1, c2}
    SlotRuns = {g1, g2}
    Workers = {w1, w2}
    NoWorker = NoWorker
    CoverJobs = {j1}
    Limit = 2
SYMMETRY Symmetry
INVARIANTS
    TypeOK
    SlotAccounting
    RegisteredDownloads
    QueueConsistent
    PreemptionIsLive
    NoLostWakeup
