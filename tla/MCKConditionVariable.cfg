CONSTANTS
    Threads = {1, 2, 3}
    Mutexes = {1, 2}
    CVs = {1}
    InitialPriority <- Ascending
    Priorities = {1, 3}
    TermPriority = 0
    Terminable = {2}
    Counts = {0, 1}
    LockOrder = TRUE
SPECIFICATION Spec
INVARIANTS TypeOK PriorityInherited QueuesAgree MutualExclusion WaitersAreCovered SignalsAreNotLost LockInfoFound
PROPERTIES HandsToHighest
CHECK_DEADLOCK FALSE
