SPECIFICATION Spec
CONSTANTS
    MAX_PROFILE_ENTRIES = 2
    Device = {d1, d2}
    MaxA2dpConn = 2
    HFP_CLIENT = hfp_client
    A2DP_SINK = a2dp_sink
    None = none
    MaxInFlight = 2
INVARIANTS
    TypeOK
    RoomForEverybody
    A2dpToldItsPlace
    HfpEntryIsOwned
    NoStuckCall
PROPERTIES
    CallGetsAudio
    MusicComesBack
CHECK_DEADLOCK FALSE
