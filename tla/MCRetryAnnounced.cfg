SPECIFICATION Spec
CONSTANTS
    Pipelines = {1, 2}
    MaxRefreshes = 1
    MaxRetries = 2
INVARIANTS
    RetryIsAnnounced
