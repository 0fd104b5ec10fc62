SPECIFICATION Spec
CONSTANTS
    MaxCalls = 1
    MaxConns = 1
    StreamCap = 1
    MaxChunks = 1
    Reconnect = FALSE
    Mismatch = FALSE
INVARIANT StreamEndsWhole
CHECK_DEADLOCK FALSE
