SPECIFICATION FairSpec
CONSTANTS
    Conn = {c1, c2}
    Requests = {"other", "missing", "file", "unreadable", "get", "post", "nolength"}
    Scripts = {"polite", "eager", "slurp", "deaf", "noexec"}
    Body = 2
    Output = 2
    Cap = 1
    MaxFd = 7
    CallsFail = TRUE
    MaxHang = 1
INVARIANTS AnswerComplete NothingLeft Survives
PROPERTIES Answered ConnectionEnds
CHECK_DEADLOCK FALSE
