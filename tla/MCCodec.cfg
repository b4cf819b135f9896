SPECIFICATION Spec
CONSTANTS
    initialSize = 10
    s_maxMessageLen = 7
    Frames <- MCFrames
    MaxFrames = 2
    Faults <- AsWritten
INVARIANTS
    HandledAsSent
PROPERTIES
    BufferIsQueue
CHECK_DEADLOCK FALSE
