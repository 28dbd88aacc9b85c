SPECIFICATION LiveSpec
CONSTANTS
    JobNames <- TwoJobs
    AllowFailure = {"test"}
    Endings = {"success", "failed"}
    PageSize = 1
    Modes = {"lagging"}
    MaxPipelines = 1
    MaxRecords = 3
    MaxInFlight = 1
    Options <- LiveOptions
    MaxFailures = 2
    MaxRuns = 1
PROPERTIES
    RunEnds
