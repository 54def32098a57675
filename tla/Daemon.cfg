SPECIFICATION FairDaemonSpec
CONSTANTS
    b1 = b1
    b2 = b2
    Bricks = {b1}
    MaxClients = 2
    MaxFds = 1
PROPERTIES
    ObeyedOnce
    LoneCommandObeyed
    StopEndsDaemon
CHECK_DEADLOCK FALSE
