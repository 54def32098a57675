SPECIFICATION ProgramsSpec
CONSTANTS
    a2 = a2
    Bricks = {b1, b2}
    MaxCalls = 2
    Admins = {a1, a2}
    NAS = {n1}
    Indexes = {1, 2}
    BrickIds = {b1, b2}
    Positions = {1}
    d1 = d1
    Disks = {d1}
    Due = {"a", "b"}
    Media = {d1, d2}
    Capacity = 2
    MaxWalks = 1
    MaxExchanges = 1
    MaxPassFaults = 2
    MaxCommands = 2
    MaxCommandsInLoad = 2
    MaxFaults = 1
    MaxLoadFaults = 1
    Folders = {"root", "sub"}
    Root = "root"
    Sources = {"a", "b"}
    Extras = {"make"}
    Skipped = {"test", "sln"}
    ParentOf <- TheParents
    Contents <- TheContents
    MaxFailures = 1
    options <- TheOptions
    CommandLines <- TheLines
    ConfigFiles <- TheFiles
    Ints <- TheInts
    INT_MAX = 2047
    ULONG_MAX = 16777215
    IntRoom = 6
    Doubles = {0, 12, 345678}
    DoubleRoom = 9
    DoubleWidth = 6
    Decimals = 2
    Texts <- TheTexts
    MaxAssigned = 3
    Listing <- TheListing
    KeyOrder <- TheKeys
    Sd = {"sda", "sdb"}
    DiskIds = {"i1", "i2"}
    Directories = {"t1", "t2"}
    Callers = {"w1", "w2"}
    MaxChanges = 1
    Slots = {"s2", "s3"}
    EnclosureOf <- TheEnclosure
    NumberOf <- TheNumbers
    PositionOf <- ThePositions
    Jbods <- TheJbods
    HasAddress = {"s2", "s3"}
    ListedEnclosures = {"e"}
    Hds = {"d1", "d2"}
    BrickPositions = {1, 2}
    Workers = {"w1"}
    MaxPlugs = 2
    MaxAsks = 1
    MaxIoFaults = 1
    RowsOfAnswers <- TheRows
    MaxSent = 3
    FolderTree <- TheTree
    MaxDialogs = 2
    MaxRemoved = 1
INVARIANTS
    ScreenTrue
    LostIsCounted
    CleanWalkIsComplete
    IndexSharedOnlyByRace
    HalfBrickExplained
    PositionGivenOnce
    LoadedOrMissed
    ReleaseIsTheSource
    LineUnderstood
    ConfigReadRight
    VariableReadsBack
    AnswerWasTrue
    RightDisk
    AnswersOwnedOnce
    FolderChosenWasShown
PROPERTIES
    FormatEnds
    PoolCatchesUp
CHECK_DEADLOCK FALSE
