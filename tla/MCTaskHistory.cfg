SPECIFICATION Spec
CONSTANTS
    t1 = t1
    t2 = t2
    t3 = t3
    Tasks = {t1, t2}
    Quantities = {4, 5}
    DefaultMax = 4
    Faults = {"docker", "db", "crash"}
    MaxFaults = 2
    MaxRecords = 4
    MaxChanges = 1
CHECK_DEADLOCK FALSE
INVARIANTS
    SeenOnce
PROPERTIES
    ChangesAreReported
