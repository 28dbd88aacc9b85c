SPECIFICATION Spec
CONSTANTS
    JobNames <- OneJob
    AllowFailure = {}
    Endings = {"success", "failed"}
    PageSize = 3
    Modes = {"prompt", "lagging"}
    MaxPipelines = 2
    MaxRecords = 4
    MaxInFlight = 1
    Options <- FollowOptions
    MaxFailures = 2
    MaxRuns = 2
INVARIANTS
    RunInvariant
    AttemptsHoldAcrossRuns
    StreamMatchesTick
