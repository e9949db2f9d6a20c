SPECIFICATION Spec
CONSTANTS
    Procs = {p1, p2, p3, p4}
    MaxInodes = 4
INVARIANTS OneDriverUntilRemoval LeftByKilled
CHECK_DEADLOCK FALSE
