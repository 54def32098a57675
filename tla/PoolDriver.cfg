SPECIFICATION DriverSpec
CONSTANTS
    main = main
    Readers = {k1}
    k1 = k1
    k2 = k2
    k3 = k3
    Callers = {main}
    Tasks = {k1, k2, k3}
    NoTask = NoTask
    MinThreads = 1
    MaxThreads = 2
    CreateMayFail = TRUE
INVARIANTS
    TaskHeldOnce
    NoTaskLost
    AllDoneAtBreak
PROPERTIES
    DriverFinishes
CHECK_DEADLOCK FALSE
