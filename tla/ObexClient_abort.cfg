SPECIFICATION Spec
CONSTANTS
    MaxBlocks = 2
    MaxInbound = 2
INVARIANT AbortConfirmedByItsResponse
CHECK_DEADLOCK FALSE
