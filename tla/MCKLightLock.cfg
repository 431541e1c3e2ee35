SPECIFICATION Spec
CONSTANTS
    g1 = g1
    g2 = g2
    g3 = g3
    h1 = h1
    Thread = Thread
    Process = Process
    NoThread = NoThread
    Guests = {g1, g2, g3}
    Hosts = {h1}
    Rank <- MCRank
    Suspendable = {g2}
    SuspendTypes = {Thread, Process}
    Terminable = {}
INVARIANTS
    TypeOK
    MutualExclusion
    ResumesAsOwner
    ParkedIsCovered
PROPERTIES
    SuspendDefersToWaiters
