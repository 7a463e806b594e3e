SPECIFICATION Spec
CONSTANTS
    n1 = n1
    n2 = n2
    small = small
    large = large
    None = None
    Nodes = {n1, n2}
    Sizes = {small, large}
    Inputs = {1, 3}
    Chunks = {1, 3, 4}
    MaxInput = 2
    MaxBuffered = 3
    HighWater = 2
    MaxTyped = 3
    MaxProduced = 2
CHECK_DEADLOCK FALSE
INVARIANTS
    TypeOK
    BytesInOrder
    NoShellLeftBehind
    ReadyIsTrue
PROPERTIES
    BothEndsSettle
