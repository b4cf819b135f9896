SPECIFICATION Spec
CONSTANTS
    Addrs <- MCAddrs
    MaxTimers = 3
    MaxTime = 4
    Faults <- AsWritten
INVARIANTS
    EarliestIsArmed
CHECK_DEADLOCK FALSE
