SPECIFICATION Spec
CONSTANTS
    b1 = b1
    b2 = b2
    p1 = p1
    d1 = d1
    d2 = d2
    Brick = {b1, b2}
    Path = {p1}
    Disk = {d1, d2}
    NoBrick = NoBrick
    NoPath = NoPath
    NoDisk = NoDisk
    Capacity = 4
    Block = 2
    Foreign <- ForeignLengths
    Length = {0, 1}
    MaxExchanged = 1
    MaxFolders <- FolderBlocks
    Positions <- PositionNumbers
INVARIANTS
    OnlyRoundingUncounted
PROPERTIES
    WritesToOwnDisk
    LoggedWhereItIs
    CopyEnds
CHECK_DEADLOCK FALSE
