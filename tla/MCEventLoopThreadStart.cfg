SPECIFICATION FairThreadSpec
CONSTANTS
    LoopThread = main
    Owner = owner
    t1 = t1
    a1 = a1  a2 = a2  a3 = a3
    Others <- MCOthers
    Tasks <- OneTask
    Faults <- NoFaults
    MaxEvents = 2
PROPERTIES
    StartLoopReturns
CHECK_DEADLOCK FALSE
