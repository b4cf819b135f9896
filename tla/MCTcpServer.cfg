SPECIFICATION FairSpec
CONSTANTS
    MaxThreads = 2
    MaxConns = 2
    FdLimit = 4
    Poller = "epoll"
    Faults <- NoFaults
INVARIANTS
    Consistent
PROPERTIES
    ImplementsConnection
    ClosedIsDestroyed
    BacklogMoves
CHECK_DEADLOCK FALSE
