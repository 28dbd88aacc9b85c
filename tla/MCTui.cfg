SPECIFICATION TuiSpec
CONSTANTS
    Pipelines = {1, 2}
    MaxRefreshes = 1
    MaxRetries = 1
    MaxJobs = 3
    MaxPosts = 2
INVARIANTS
    TuiTypeOK
    ShownIsSelected
    AutoRefreshGoesOn
    OneJobOnScreen
    WaitingIsForALog
PROPERTIES
    RefreshingEnds
    ViewerGoesOn
