SPECIFICATION FairSpec
CONSTANTS
    MaxCalls = 1
    MaxConns = 1
    StreamCap = 1
    MaxChunks = 2
    Reconnect = FALSE
    Mismatch = FALSE
PROPERTY EveryCallReturns
CHECK_DEADLOCK FALSE
