SPECIFICATION FairSpec
CONSTANTS
    Posters = {p1, p2}
    Worker = w
    Items = {a, b, c, d}
    NoItem = none
    Capacity = 2
    SelfPost = TRUE
INVARIANTS
    SemaphoresAgree
    FifoOnce
    TeardownDispatched
PROPERTIES
    SelfBlockIsForever
    AcceptedIsExecuted
    StopIsJoined
    ImplementsWorkQueue
CHECK_DEADLOCK FALSE
