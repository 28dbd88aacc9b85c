SPECIFICATION Spec
CONSTANTS
    JobNames <- TwoJobs
    AllowFailure = {}
    Endings = {"success", "failed"}
    PageSize = 2
    Modes = {"calm"}
    MaxPipelines = 1
    MaxRecords = 4
    MaxInFlight = 1
    Options <- UnlimitedRetry
    MaxFailures = 2
    MaxRuns = 1
INVARIANTS
    BadJobSparesTheRest
