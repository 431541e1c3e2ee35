CONSTANTS
    t1 = t1
    t2 = t2
    o1 = o1
    o2 = o2
    Null = Null
    Threads = {t1, t2}
    Objects = {o1, o2}
    MaxTableSize = 4
    Span = 4
    Sizes = {0, 2, 5}
    Finalizes = TRUE
SPECIFICATION Spec
INVARIANTS UnreserveAsserts
CHECK_DEADLOCK FALSE
