SPECIFICATION FairServiceSpec
CONSTANTS
    gui = gui
    ctr = ctr
    main = main
    b1 = b1
    b2 = b2
    Callers = {gui}
    Starter = gui
    Bricks = {b1, b2}
    NoBrick = NoBrick
    Tasks = {1, 2, 3}
    NoTask = NoTask
    MinThreads = 2
    MaxThreads = 2
    CreateMayFail = FALSE
    MaxCommands = 1
INVARIANTS
    OneWorkerPerBrick
    StoppedMeansQuiet
PROPERTIES
    StopSignalObeyed
    StopReturnsUnlessMissed
    ImplementsLife
\* Without a further call the service may rest.
CHECK_DEADLOCK FALSE
