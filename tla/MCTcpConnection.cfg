SPECIFICATION FairSpec
CONSTANTS
    LoopThread = main
    c1 = c1
    Others <- MCOthers
    Poller = "epoll"
    Faults <- AsNamed
    HighWaterMark = 4
    MaxCalls = 3
    Patient = TRUE
INVARIANTS
    StreamIntact
    WriteSideMinded
    ToldOnce
    FreedIsForgotten
    OnlyTheseCallsAbort
PROPERTIES
    ImplementsConnection
    BufferDrains
    ClosedIsFreed
CHECK_DEADLOCK FALSE
