SPECIFICATION Spec
CONSTANTS
    None = None
    Player = {t1}
    MaxQueue = 3
    MaxMemory = 2
CHECK_DEADLOCK FALSE
INVARIANTS RecorderOwned StateAgrees
PROPERTY DisconnectEnds
