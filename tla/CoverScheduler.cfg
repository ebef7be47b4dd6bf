SPECIFICATION FairSpec
CONSTANTS
    Ids = {v, i}
    Videos = {v}
    Posters = {v}
    Calls = {r1, r2}
    Jobs = {j1}
    NoJob = NoJob
    MaxCalls = 3
INVARIANTS
    TypeOK
    JobsRegistered
    PendingIsReal
    PauseStops
    NoLostWakeup
PROPERTIES
    CoversSettle
CHECK_DEADLOCK FALSE
