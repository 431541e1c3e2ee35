CONSTANTS
    Threads = {1, 2, 3}
    Mutexes = {1, 2}
    CVs = {1}
    InitialPriority <- Ascending
    Priorities = {0, 3}
    TermPriority = 0
    Terminable = {}
    Counts = {1}
    LockOrder = FALSE
SPECIFICATION Spec
INVARIANTS LockInfoFound
CHECK_DEADLOCK FALSE
