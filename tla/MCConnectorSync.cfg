SPECIFICATION FairSpec
CONSTANTS
    Passes = {p1, p2}
    MaxDocs = 6
    BatchSize = 2
    Blocked = {1, 2, 5}
    MaxRuns = 4
    OutOfOrder = FALSE
CHECK_DEADLOCK FALSE
INVARIANTS NoGaps PassIsComplete
PROPERTIES PassEnds
