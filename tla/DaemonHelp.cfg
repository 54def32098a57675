SPECIFICATION DaemonSpec
CONSTANTS
    b1 = b1
    b2 = b2
    Bricks = {b1, b2}
    MaxClients = 1
    MaxFds = 1
INVARIANTS
    OnlyExitStops
CHECK_DEADLOCK FALSE
