SPECIFICATION Spec
CONSTANTS
    NSessions <- MCSessions
    MaxReads <- MCReads
    MaxSends <- MCSends
INVARIANTS
    SendsOnLiveService
CHECK_DEADLOCK FALSE
