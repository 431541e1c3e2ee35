SPECIFICATION Spec
CONSTANTS
    c1 = c1
    c2 = c2
    s1 = s1
    s2 = s2
    w1 = w1
    w2 = w2
    None = None
    Clients = {c1, c2}
    Async = {c2}
    Sessions = {s1, s2}
    MaxSessions = 1
    Routes = {"named"}
    TerminateUpTo = 0
    Workers = {w1, w2}
    Defers = FALSE
INVARIANTS
    SelectedHolderIsLive
CHECK_DEADLOCK FALSE
