SPECIFICATION Spec
CONSTANTS
    Channels <- MCChannels
    MaxPosts = 3
    MaxQuoted = 0
    MaxJoins = 1
    MaxCrashes = 1
    Skew = 0
    Newcomers = FALSE
    Calm = FALSE
INVARIANTS
    NothingMissing
CHECK_DEADLOCK FALSE
