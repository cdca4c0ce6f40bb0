SPECIFICATION ServedSpec
CONSTANTS
    Clients = 2
    Programs = {"webbench", "mywebbench"}
    MaxTry = 2
    MaxFd = 1
    MaxDead = 1
INVARIANTS Conserved ChildAccounts
PROPERTIES Ends
CHECK_DEADLOCK FALSE
