CONSTANTS
    t1 = t1
    t2 = t2
    o1 = o1
    o2 = o2
    Null = Null
    Threads = {t1, t2}
    Objects = {o1, o2}
    MaxTableSize = 3
    Span = 4
    Sizes = {0, 2, 4}
    Finalizes = TRUE
SPECIFICATION Spec
INVARIANTS TypeOK FreeListSound ReservationsHold NoEarlyReuse
PROPERTIES RefinesHandleMap
CHECK_DEADLOCK FALSE
