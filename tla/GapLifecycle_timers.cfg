SPECIFICATION Spec
CONSTANTS
    sdp = sdp
    pbap = pbap
    Configurations <- ByCommand
    BT_AM = bt_am
    A2DP_SINK = a2dp_sink
    Late = {sdp}
    Fallible = {}
    Deferring = {a2dp_sink}
    MaxCommands = 2
    None = none
INVARIANTS
    CancelledTimersAreQuiet
CHECK_DEADLOCK FALSE
