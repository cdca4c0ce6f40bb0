SPECIFICATION FairSpec
CONSTANTS
    Slots = 3
    Workers = 1
    KillAfter = 1
    Signals = {"TERM", "QUIT", "HUP", "USR1", "USR2", "WINCH"}
    MaxSignals = 3
    MaxFaults = 1
INVARIANTS Served SameConfig LeavesNoWorker
PROPERTIES NotBroughtBack ShutdownEnds Replaced
CHECK_DEADLOCK FALSE
