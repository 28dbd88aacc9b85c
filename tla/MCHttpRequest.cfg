SPECIFICATION RequestSpec
CONSTANTS
    Methods = {"GET", "POST"}
    MaxAttempts = 3
    Codes <- MCCodes
INVARIANTS
    PostAtMostOnce
    GetUsesEveryAttempt
PROPERTIES
    ImplementsRemoteCall
    RequestEnds
