SPECIFICATION Spec
CONSTANTS
    Slots = 3
    Workers = 1
    KillAfter = 1
    Signals = {"TERM", "QUIT", "HUP", "USR2", "WINCH"}
    MaxSignals = 4
    MaxFaults = 0
INVARIANTS NoOrphans
CHECK_DEADLOCK FALSE
