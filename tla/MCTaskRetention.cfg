SPECIFICATION Spec
CONSTANTS
    t1 = t1
    t2 = t2
    t3 = t3
    Tasks = {t1, t2}
    Quantities = {1, 2}
    DefaultMax = 3
    Faults = {"docker", "db", "load", "crash"}
    MaxFaults = 2
    MaxRecords = 5
    MaxChanges = 1
CHECK_DEADLOCK FALSE
SYMMETRY TaskSymmetry
INVARIANTS
    TypeOK
    HistoryIsTrue
    RemovedOnce
