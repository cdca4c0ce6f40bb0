SPECIFICATION FairSpec
CONSTANTS
    Worker = {w1, w2, w3}
    Master = master
    None = none
    MaxCrash = 2
INVARIANTS Mutex Balance NoLostWakeup
PROPERTIES ImplementsRobustLock Progress Recovered
CHECK_DEADLOCK FALSE
