SPECIFICATION Spec
CONSTANTS
    JobNames <- TwoJobs
    AllowFailure = {}
    Endings = {"success", "failed"}
    PageSize = 4
    Modes = {"calm", "prompt", "lagging", "lossy"}
    MaxPipelines = 1
    MaxRecords = 4
    MaxInFlight = 2
    Options <- RetryOptions
    MaxFailures = 2
    MaxRuns = 1
INVARIANTS
    BudgetHolds
    OneRetryPerRecord
    AttemptsHold
    VerdictAfterRetries
    NoFailureLeftBehind
    StreamMatchesTick
    GivesUpOnlyInARow
PROPERTIES
    ImplementsContract
