SPECIFICATION Spec
CONSTANTS
    NSessions <- MCSessions
    MaxReads <- MCReads
    MaxSends <- MCSends
INVARIANTS
    WindowServesAccepted
CHECK_DEADLOCK FALSE
