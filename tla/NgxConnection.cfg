SPECIFICATION Spec
CONSTANTS
    Conns = 2
    MaxGets = 5
    MaxBatch = 2
INVARIANTS ListsSound PostedOwn
PROPERTIES StalePassedOver
CHECK_DEADLOCK FALSE
