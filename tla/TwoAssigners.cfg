SPECIFICATION ServiceSpec
CONSTANTS
    gui = gui
    ctr = ctr
    main = main
    b1 = b1
    b2 = b2
    Callers = {main, ctr}
    Starter = main
    Bricks = {b1, b2}
    NoBrick = NoBrick
    Tasks = {1, 2, 3}
    NoTask = NoTask
    MinThreads = 2
    MaxThreads = 2
    CreateMayFail = FALSE
    MaxCommands = 1
INVARIANTS
    AssignsToDormant
CHECK_DEADLOCK FALSE
