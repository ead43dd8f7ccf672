SPECIFICATION Spec
CONSTANTS
    MAX_PROFILE_ENTRIES = 2
    Device = {d1}
    MaxA2dpConn = 1
    HFP_CLIENT = hfp_client
    A2DP_SINK = a2dp_sink
    None = none
    MaxInFlight = 2
INVARIANTS
    AlreadyHaveFocus
CHECK_DEADLOCK FALSE
