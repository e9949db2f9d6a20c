SPECIFICATION Spec
CONSTANTS
    PlateauClose = 2
    MaxBatches = 2
    CheckpointEvery = 2
    KeepCheckpoints = 2
    Ceiling = 1
    HasChain = TRUE
    KeepAt = {}
    Verdicts = {0, 1}
    Faults = {}
    QuietBatches = TRUE
    GrowCases = {}
    Actions = {}
    BadFiles = {2}
    Files = {1, 2}
    MaxLevel = 2
    MaxRequests = 0
    MaxCrashes = 2
    MaxForks = 1
INVARIANT TakenOnce
PROPERTY ImplementsStore
CHECK_DEADLOCK FALSE
