SPECIFICATION Spec
CONSTANTS
    PlateauClose = 2
    MaxBatches = 3
    CheckpointEvery = 2
    KeepCheckpoints = 1
    Ceiling = 1
    HasChain = TRUE
    KeepAt = {0, 2}
    Verdicts = {0, 1, 3, 4}
    Faults = {"work", "fault"}
    QuietBatches = FALSE
    GrowCases = {}
    Actions = {}
    BadFiles = {}
    Files = {}
    MaxLevel = 2
    MaxRequests = 0
    MaxCrashes = 2
    MaxForks = 0
INVARIANTS JournalInOrder SessionMatchesJournal LadderMatchesJournal CheckpointsMatchJournal
           BoundedLoss
PROPERTIES CommittedSurvives ClosedIsFinal
CHECK_DEADLOCK FALSE
