SPECIFICATION Spec
CONSTANTS
    Channels = {a, b}
    MaxMessages = 4
    MaxItems = 3
    MaxQueued = 3
INVARIANTS
    TypeOK
    RowsAccounted
    NewestItemLives
    ItemShowsLast
PROPERTIES
    UndisturbedRowShowsMessage
SYMMETRY Alike
CHECK_DEADLOCK FALSE
