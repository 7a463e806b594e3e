SPECIFICATION Spec
CONSTANTS
    m = m
    w = w
    r1 = r1
    e1 = e1
    f1 = f1
    f2 = f2
    f3 = f3
    None = None
    Items = {e1, f1, f2, f3}
    Asked <- MCAsked
    Nodes = {m, w}
    Local = m
    Paths <- MCPaths
    Requests = {r1}
    Jobs <- MCJobs
    Disks <- MCDisks
    Appearing = {"link"}
    Faults = {"docker", "agent", "disk", "host"}
    MaxFaults = 1
CHECK_DEADLOCK FALSE
INVARIANTS
    StaysUnderTheRoot
    NodesHoldWhatIsAnswered
PROPERTIES
    EveryRequestIsAnswered
