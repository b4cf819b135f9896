SPECIFICATION FairSpec
CONSTANTS
    w1 = w1  w2 = w2
    p1 = p1  p2 = p2  p3 = p3
    a1 = a1  a2 = a2  a3 = a3  a4 = a4
    Workers <- MCWorkers
    Producers <- MCProducers
    Tasks <- MCTasks
    Spawning <- MCSpawning
    NoTask = NoTask
    MaxQueueSize = 2
INVARIANTS
    NoLostNotify
    TakenInOrder
    StopTakesOneMoreEach
PROPERTIES
    StopReturns
    AcceptedIsTaken
CHECK_DEADLOCK FALSE
