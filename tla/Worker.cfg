SPECIFICATION FairSpec
CONSTANTS
    f1 = f1
    f2 = f2
    Files = {f1, f2}
    Origins = {0, 1}
    FirstSpace = 1
    Space = 2
    MinSpace = 1
    Interval = 2
    StartTime = 1
    MaxTime = 5
    MaxRestarts = 1
INVARIANTS
    NoGap
    IntervalRespected
PROPERTIES
    EventuallyBackedUp
CHECK_DEADLOCK FALSE
