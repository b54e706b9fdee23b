SPECIFICATION FairSpec
CONSTANTS
    MaxMsgs <- MCMsgs
PROPERTIES
    EveryMessageLeaves
CHECK_DEADLOCK FALSE
