SPECIFICATION Spec
CONSTANTS
    small = small
    large = large
    None = None
    Frames <- AllFrames
    Sizes = {small, large}
    Chunks = {1, 3}
    MaxInput = 3
    MaxPending = 2
    MaxBuffered = 4
    MaxReceived = 3
    MaxProduced = 2
CHECK_DEADLOCK FALSE
INVARIANTS
    TypeOK
    NothingIsLost
    EndsTogether
PROPERTIES
    TerminalsSettle
