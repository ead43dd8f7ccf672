SPECIFICATION EitherSpec
CONSTANTS
    MaxBlocks = 3
    MaxInbound = 2
    Device = {d1, d2, d3}
    Bondable = {d1}
    NoDevice = none
    INQ_DB_SIZE = 2
    MaxEvents = 1
INVARIANTS
    QuietWire
    BondsAgree
    DiscoveryAgrees
PROPERTIES
    
    DeviceCommandsEnd
\* Freed memory that is used ends a behaviour of ObexClient.
CHECK_DEADLOCK FALSE
