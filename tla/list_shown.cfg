SPECIFICATION Spec
CONSTANTS
    Channels = {a, b}
    MaxMessages = 4
    MaxItems = 3
    MaxQueued = 3
PROPERTIES
    NewRowShowsMessage
CHECK_DEADLOCK FALSE
