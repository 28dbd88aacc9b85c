SPECIFICATION Spec
CONSTANTS
    MaxPages = 4
    Concurrency = 2
    MaxRows = 5
    MaxCalls = 2
    MaxChanges = 1
INVARIANTS
    ListingIsWhole
    LimitHolds
