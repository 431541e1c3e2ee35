CONSTANTS
    t1 = t1
    t2 = t2
    t3 = t3
    r1 = r1
    r2 = r2
    NoThread = NoThread
    Threads = {t1, t2, t3}
    Resources = {r1}
    Initial = 2
    Limits = {}
    Amounts = {1, 2}
    MaxInt = 7
    Terminable = {t1, t2, t3}
SPECIFICATION Spec
INVARIANTS WaitListAgrees
SYMMETRY Symmetry
CHECK_DEADLOCK FALSE
