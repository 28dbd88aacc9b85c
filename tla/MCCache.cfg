SPECIFICATION Spec
CONSTANTS
    p1 = p1
    p2 = p2
    Processes = {p1, p2}
    Ttl = 1
    MaxTime = 2
SYMMETRY Symmetry
INVARIANTS
    TypeOK
    HitsKeepPromise
    LogsHaveExpiry
PROPERTIES
    OnlyKnownFailures
