SPECIFICATION Spec
CONSTANTS
    Addrs <- MCAddrs
    MaxTimers = 3
    MaxTime = 4
    Faults <- DeadLocal
INVARIANTS
    Consistent
    CancelledIsGone
CHECK_DEADLOCK FALSE
