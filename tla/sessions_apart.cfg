SPECIFICATION FairSpec
CONSTANTS
    NSessions <- MCSessions
    MaxReads = 1
    MaxSends <- MCSends
INVARIANTS
    TypeOK
    OneChainApart
    ControlFirst
    RefusedStaysQuiet
    NoSocketLeft
PROPERTIES
    DeadChainCloses
    RefusedAttemptEnds
CHECK_DEADLOCK FALSE
