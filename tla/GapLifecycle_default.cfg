SPECIFICATION Spec
CONSTANTS
    sdp = sdp
    pbap = pbap
    Configurations <- OnByDefault
    BT_AM = bt_am
    A2DP_SINK = a2dp_sink
    Late = {sdp}
    Fallible = {}
    Deferring = {a2dp_sink}
    MaxCommands = 3
    None = none
INVARIANTS
    AnnouncedMeansRunning
CHECK_DEADLOCK FALSE
