SPECIFICATION ReimportSpec
CONSTANTS
    Ids = {a}
    NoId = NoId
    Clients = {c1}
    SlotRuns = {g1, g2}
    Workers = {w1, w2}
    NoWorker = NoWorker
    CoverJobs = {}
    Limit = 1
SYMMETRY Symmetry
INVARIANT DownloadsWithinLimit
