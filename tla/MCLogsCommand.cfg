SPECIFICATION Spec
CONSTANTS
    JobNames <- TwoJobs
    AllowFailure = {"build"}
    Endings = {"failed"}
    PageSize = 1
    Modes = {"prompt"}
    MaxPipelines = 2
    MaxRecords = 4
    LastCommit = 2
    Setups <- Environments
    Situations <- Questions
    Chatty = {"test"}
    MaxRuns = 2
INVARIANTS
    NearestPipeline
    EndedLogsAreWhole
    EveryMatchIsFetched
    EnvTokenIsNotKept
CHECK_DEADLOCK FALSE
