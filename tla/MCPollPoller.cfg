SPECIFICATION Spec
CONSTANTS
    Fds <- MCFds
    Clients <- AnyHabit
INVARIANTS
    SlotsInBijection
PROPERTIES
    ImplementsPoller
CHECK_DEADLOCK FALSE
