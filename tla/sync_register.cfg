SPECIFICATION Spec
CONSTANTS
    Channels <- MCChannels
    MaxPosts = 1
    MaxQuoted = 0
    MaxJoins = 1
    MaxCrashes = 1
    Skew = 0
    Newcomers = TRUE
    Calm = TRUE
INVARIANTS
    NothingTwice
CHECK_DEADLOCK FALSE
