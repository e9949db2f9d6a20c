SPECIFICATION Spec
CONSTANTS
    PlateauClose = 2
    MaxBatches = 2
    CheckpointEvery = 1
    KeepCheckpoints = 1
    Ceiling = 1
    HasChain = FALSE
    KeepAt = {}
    Verdicts = {0, 1}
    Faults = {}
    QuietBatches = FALSE
    GrowCases = {}
    Actions = {}
    BadFiles = {}
    Files = {}
    MaxLevel = 2
    MaxRequests = 0
    MaxCrashes = 1
    MaxForks = 0
INVARIANTS CloseIsActedOn
CHECK_DEADLOCK FALSE
