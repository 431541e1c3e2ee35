SPECIFICATION Spec
CONSTANTS
    g1 = g1
    g2 = g2
    g3 = g3
    h1 = h1
    Thread = Thread
    Process = Process
    NoThread = NoThread
    Guests = {g1, g2}
    Hosts = {}
    Rank <- MCRank2
    Suspendable = {}
    SuspendTypes = {Thread}
    Terminable = {g2}
INVARIANT
    ResumesAsOwner
