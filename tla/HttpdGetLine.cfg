SPECIFICATION LineSpec
CONSTANTS
    Size = 4
    MaxLen = 7
INVARIANTS NothingLost
CHECK_DEADLOCK FALSE
