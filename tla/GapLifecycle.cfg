SPECIFICATION FairSpec
CONSTANTS
    sdp = sdp
    pbap = pbap
    Configurations <- AllConfigurations
    BT_AM = bt_am
    A2DP_SINK = a2dp_sink
    Late = {sdp}
    Fallible = {sdp}
    Deferring = {a2dp_sink, pbap}
    MaxCommands = 3
    None = none
INVARIANTS
    AnnouncedIsTrue
    AnswersAreAsked
    NeverHalfUp
    BeliefAgrees
PROPERTIES
    StackDownLast
    EnableEnds
    DisableEnds
CHECK_DEADLOCK FALSE
