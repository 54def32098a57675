SPECIFICATION FairServiceSpec
CONSTANTS
    gui = gui
    ctr = ctr
    main = main
    b1 = b1
    b2 = b2
    Callers = {gui}
    Starter = gui
    Bricks = {b1}
    NoBrick = NoBrick
    Tasks = {1, 2}
    NoTask = NoTask
    MinThreads = 1
    MaxThreads = 1
    CreateMayFail = FALSE
    MaxCommands = 1
PROPERTIES
    StopReturns
CHECK_DEADLOCK FALSE
