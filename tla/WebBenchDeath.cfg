SPECIFICATION ServedSpec
CONSTANTS
    Clients = 2
    Programs = {"webbench"}
    MaxTry = 1
    MaxFd = 1
    MaxDead = 1
PROPERTIES DeathNoticed
CHECK_DEADLOCK FALSE
