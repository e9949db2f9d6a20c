SPECIFICATION FairSpec
CONSTANTS
    d1 = d1
    d2 = d2
    Dirs = {d1, d2}
    Identity <- TwoExperiments
    WorkloadOf <- SharedWorkload
    OutputLimit = 1
    MaxOutput = 2
    Pairs = 2
    Warmup = 1
    CandidateFirst = {1}
    BuildLimit = 1
    TrialLimit = 2
    Budget = 9
    MaxStarts = 3
    MaxKills = 1
    Polled = 1
INVARIANTS LaunchesAccounted OneBinaryPerArm OutputsOfCountedPairs AuditFreshOnce BudgetKept RunsEndClean
PROPERTIES SessionsReturn VerdictIsFinal DecidedIsConsumed
CHECK_DEADLOCK FALSE
