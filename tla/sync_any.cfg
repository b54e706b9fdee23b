SPECIFICATION Spec
CONSTANTS
    Channels <- MCChannels
    MaxPosts = 2
    MaxQuoted = 1
    MaxJoins = 1
    MaxCrashes = 1
    Skew = 2
    Newcomers = TRUE
    Calm = FALSE
INVARIANTS
    TypeOK
    HistoryHasWidget
    CacheMirrorsHistory
    HistoryIdentified
PROPERTIES
    AnonymousOnlyWhenTorn
    OnlyEarlyEchoFails
CHECK_DEADLOCK FALSE
