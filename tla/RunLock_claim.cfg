SPECIFICATION Spec
CONSTANTS
    Procs = {p1, p2, p3}
    MaxInodes = 3
INVARIANT OneDriver
CHECK_DEADLOCK FALSE
