SPECIFICATION Spec
CONSTANTS
    s1 = s1
    s2 = s2
    c1 = c1
    c2 = c2
    a = a
    b = b
    r1 = r1
    r2 = r2
    r3 = r3
    None = None
    Services = {s1}
    Configs = {c1}
    Tasks = {a}
    Slots = {1}
    Requests = {}
    Jobs <- Changes
    Page = 1
    Faults = {}
    MaxFaults = 0
    MaxTime = 1
    MaxIds = 2
    Stored <- OnePermanent
CHECK_DEADLOCK FALSE
INVARIANTS
    FollowsTheName
