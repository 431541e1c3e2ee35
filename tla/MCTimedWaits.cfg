SPECIFICATION FairSpec
CONSTANTS
    t1 = t1
    t2 = t2
    a1 = a1
    e1 = e1
    e2 = e2
    None = None
    Threads = {t1, t2}
    Addresses = {a1}
    Events = {e1, e2}
    Requests <- MCRequests
    Timeouts <- MCTimeouts
    Priorities = {1, 2}
    Counts = {0, 1}
    Signals = {e1}
    Cancelled = {t1}
    Terminable = {t2}
    Horizon = 2
    Half = 2
INVARIANTS
    TypeOK
    QueuesAgree
    TimerCovers
    SleepersUnsignaled
PROPERTIES
    WaitEndsRight
    SignalsAreExact
    TimedWaitsEnd
CHECK_DEADLOCK FALSE
