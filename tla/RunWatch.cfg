SPECIFICATION FairSpec
CONSTANTS
    Inodes = {1, 2}
    MaxSeq = 2
    MaxDrivers = 2
    MaxRequests = 2
    Faults = TRUE
INVARIANTS ViewIsOneFile AnsweredOnce BadgeTruth
PROPERTY ViewCatchesUp
CHECK_DEADLOCK FALSE
