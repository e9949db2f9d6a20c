SPECIFICATION Spec
CONSTANTS
    d1 = d1
    d2 = d2
    Dirs = {d1, d2}
    Identity <- OneExperiment
    WorkloadOf <- SharedWorkload
    OutputLimit = 1
    MaxOutput = 2
    Pairs = 1
    Warmup = 0
    CandidateFirst = {1}
    BuildLimit = 1
    TrialLimit = 2
    Budget = 5
    MaxStarts = 2
    MaxKills = 1
    Polled = 0
INVARIANTS NeverFreshAgain
CHECK_DEADLOCK FALSE
