SPECIFICATION FairThreadSpec
CONSTANTS
    LoopThread = main
    Owner = owner
    t1 = t1
    a1 = a1  a2 = a2  a3 = a3
    Others <- MCOthers
    Tasks <- MCTasks
    Faults <- NoFaults
    MaxEvents = 2
INVARIANTS
    NeverSleepsOver
    FifoExactlyOnce
    LifetimesNest
PROPERTIES
    QueuedTaskRuns
    QuitStopsLoop
    StartLoopWakes
    JoinReturns
CHECK_DEADLOCK FALSE
