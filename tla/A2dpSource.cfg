SPECIFICATION EitherSpec
CONSTANTS
    t1 = t1
    t2 = t2
    None = None
    Player = {t1, t2}
    PlayerEvents <- OfPlayers
    OtherEvents <- OfTheTarget
    MaxTimeouts = 1
    Steps = {0, 7, 15}
    Volumes = {0, 64}
    MaxLate = 2
CHECK_DEADLOCK FALSE
INVARIANTS StreamOwned ControllerKnows VolumesAgree
PROPERTIES JoinReturns PositionReported
