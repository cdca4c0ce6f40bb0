SPECIFICATION FairRwSpec
CONSTANTS
    User = {p1, p2, p3}
    WLOCK = 4
INVARIANTS LockCounts
PROPERTIES ImplementsRwMonitor RwProgress
CHECK_DEADLOCK FALSE
