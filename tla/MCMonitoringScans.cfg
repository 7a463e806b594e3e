SPECIFICATION MCSpec
CONSTANTS
    s1 = s1
    s2 = s2
    c1 = c1
    c2 = c2
    a = a
    b = b
    r1 = r1
    r2 = r2
    r3 = r3
    None = None
    Services = {s1, s2}
    Configs = {c1, c2}
    Tasks = {a}
    Slots = {1, 2}
    Requests = {r1, r2, r3}
    Jobs <- EveryJob
    Page = 1
    Faults = {"stats", "db"}
    MaxFaults = 1
    MaxTime = 2
    MaxIds = 2
    Stored <- BothOrNone
CHECK_DEADLOCK FALSE
INVARIANTS
    WorksAsConfigured
PROPERTIES
    NoSampleLostEarly
    DueIsCollected
