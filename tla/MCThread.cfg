SPECIFICATION FairSpec
CONSTANTS
    Adders = {a1, a2}
    Movers = {m1}
    Takers = {t1}
    Share <- MCShare
    a1 = a1
    a2 = a2
    m1 = m1
    t1 = t1
    m_maxSize = 1
    MaxClears = 1
INVARIANTS
    ObjectOutlives
    NoLostWakeup
    EachItemOnce
PROPERTIES
    JoinReturns
CONSTRAINT
    Runs
CHECK_DEADLOCK FALSE
