SPECIFICATION EpollSpec
CONSTANTS
    Fds <- MCFds
    Clients <- AnyHabit
    InitEventListSize = 1
INVARIANTS
    KernelMatches
PROPERTIES
    EpollImplementsPoller
