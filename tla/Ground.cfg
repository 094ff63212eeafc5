SPECIFICATION Spec
CONSTANTS
    TcFrames <- MCTcFrames
    QueueLen = 1
    Buffers = 3
    MaxPackets = 2
    MaxBoots = 1
    FrameMax = 4
    VarSize = 2
    Vars = {1, 2, 3}
    Plans = {0, 2}
    Lines = {0, 3, 5}
    MaxReports = 2
    FrameLen = 2
    Files <- MCFiles
    MaxFrames = 4
    MaxSends = 2
    MaxCalls = 3
    Tasks = {1, 2}
    UartLen = 3
    MaxTx = 2
    MaxRx = 2
    MaxEntries = 4
    Clients = {"console", "comm", "watchdog"}
    MaxLookups = 1
INVARIANTS
    RunInOrder
    BuffersBack
    TelemetryShown
    FilesExact
    FileArrives
    BusKept
    LookupExact
PROPERTIES
    AckedRuns
    BootEnds
CHECK_DEADLOCK FALSE
