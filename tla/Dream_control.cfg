SPECIFICATION FairSpec
CONSTANTS
    PlateauClose = 2
    MaxBatches = 2
    CheckpointEvery = 2
    KeepCheckpoints = 2
    Ceiling = 1
    HasChain = TRUE
    KeepAt = {}
    Verdicts = {0, 1, 4, 5}
    Faults = {}
    QuietBatches = FALSE
    GrowCases = {1}
    Actions = {"pause", "resume", "step", "grow_case", "stop", "checkpoint"}
    BadFiles = {}
    Files = {}
    MaxLevel = 2
    MaxRequests = 2
    MaxCrashes = 1
    MaxForks = 0
INVARIANTS SessionMatchesJournal AnsweredInOrder PausedOnlySteps GrownOnce
PROPERTIES RequestsAnswered RunEnds
CHECK_DEADLOCK FALSE
