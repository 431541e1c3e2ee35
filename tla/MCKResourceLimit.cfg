CONSTANTS
    t1 = t1
    t2 = t2
    t3 = t3
    r1 = r1
    r2 = r2
    NoThread = NoThread
    Threads = {t1, t2, t3}
    Resources = {r1}
    Initial = 2
    Limits = {1}
    Amounts = {1, 2}
    MaxInt = 3
    Terminable = {t3}
SPECIFICATION FairSpec
INVARIANTS TypeOK Accounting WaitListKept SleepersAreBlocked
PROPERTIES ReserveReturns
CHECK_DEADLOCK FALSE
