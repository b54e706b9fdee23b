SPECIFICATION Spec
CONSTANTS
    Channels <- MCChannels
    MaxPosts = 2
    MaxQuoted = 0
    MaxJoins = 1
    MaxCrashes = 1
    Skew = 0
    Newcomers = FALSE
    Calm = FALSE
INVARIANTS
    EchoFindsChannel
CHECK_DEADLOCK FALSE
