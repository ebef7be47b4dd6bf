SPECIFICATION Spec
CONSTANTS
    Default = Default
    None = None
    Keys = {Default, k1, k2}
    QRs = {q1, q2}
    Reqs = {r1, r2}
    MayFail = TRUE
    MayCrash = TRUE
    MayRevoke = TRUE
INVARIANTS
    TypeOK
    ServedIsAuthorized
PROPERTIES
    AccountReachable
CONSTRAINT AtOnce
SYMMETRY Symmetry
