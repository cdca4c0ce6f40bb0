SPECIFICATION FairSpec
CONSTANTS
    Thread = {w1, w2, w3}
    Task = {t1, t2}
    Exit = exit
    Null = null
    First = first
    MaxQueue = 1
    MaxPost = 5
INVARIANTS ListShape NoStall DestroyedUnused
PROPERTIES ImplementsTaskService Completed DestroyEnds
