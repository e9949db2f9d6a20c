SPECIFICATION Spec
CONSTANTS
    Functions <- Fns
    Facts = {"fact_head"}
    Objects <- Objs
    MaxDepth = 9
    Entries <- Matrix
    Slices = {3, 5, 11}
    MaxResumes = 10
    Rework = 7
INVARIANTS ResumedAsStraight ReworkBounded MemoIsTruth
CHECK_DEADLOCK FALSE
