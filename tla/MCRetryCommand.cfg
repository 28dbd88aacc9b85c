SPECIFICATION Spec
CONSTANTS
    JobNames <- TwoJobs
    AllowFailure = {"build"}
    Endings = {"failed"}
    PageSize = 1
    Modes = {"prompt", "lossy"}
    MaxPipelines = 1
    MaxRecords = 5
    MaxInFlight = 1
    OptionSets <- CommandLines
INVARIANTS
    WritesAreWanted
    ExitTellsTheTruth
    NoFailureMissed
CHECK_DEADLOCK FALSE
