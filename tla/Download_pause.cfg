SPECIFICATION Spec
CONSTANTS
    Ids = {a}
    NoId = NoId
    Clients = {c1}
    SlotRuns = {g1}
    Workers = {w1}
    NoWorker = NoWorker
    CoverJobs = {}
    Limit = 1
SYMMETRY Symmetry
PROPERTY PausedStaysPaused
