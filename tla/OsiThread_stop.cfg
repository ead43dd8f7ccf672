SPECIFICATION Spec
CONSTANTS
    Posters = {p1, p2}
    Worker = w
    Items = {a, b}
    NoItem = none
    Capacity = 2
    SelfPost = FALSE
INVARIANTS
    StopDispatchesPosted
CHECK_DEADLOCK FALSE
