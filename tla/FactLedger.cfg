SPECIFICATION FairSpec
CONSTANTS
    Drivers = {d1, d2, d3}
    Facts = {f1, f2}
    Header = Header
    MaxStarts = 2
INVARIANTS WrittenOnce NeverRefused KeysMatchOffset NothingForgotten
PROPERTIES AppendOnly ImplementsStore FactsReachTheLedger
CHECK_DEADLOCK FALSE
