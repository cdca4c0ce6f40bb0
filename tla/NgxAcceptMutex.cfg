SPECIFICATION FairSpec
CONSTANTS
    Worker = {p1, p2}
    None = None
    Sockets = {1, 2}
    Conns = 16
    InitOwn = {0, 12}
    MaxClients = 2
    MaxCloses = 1
    MaxFaults = 2
INVARIANTS OwnerListens
PROPERTIES ImplementsRobustLock Accepted
CHECK_DEADLOCK FALSE
