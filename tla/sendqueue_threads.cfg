SPECIFICATION FairSpec
CONSTANTS
    MaxMsgs <- MCMsgs
INVARIANTS
    TypeOK
    InOrder
    NoUndefinedCall
    NothingStranded
PROPERTIES
    ImplementsLink
    StrandedStays
    DeliversApart
CHECK_DEADLOCK FALSE
