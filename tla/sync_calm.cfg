SPECIFICATION FairSpec
CONSTANTS
    Channels <- MCChannels
    MaxPosts = 3
    MaxQuoted = 1
    MaxJoins = 2
    MaxCrashes = 2
    Skew = 1
    Newcomers = FALSE
    Calm = TRUE
INVARIANTS
    OnlyPassedOverMissing
PROPERTIES
    ImplementsArchive
    SyncCompletes
CHECK_DEADLOCK FALSE
