SPECIFICATION FairSpec
CONSTANTS
    MaxCalls = 1
    MaxConns = 2
    StreamCap = 1
    MaxChunks = 3
    Reconnect = TRUE
    Mismatch = FALSE
INVARIANT StreamInOrder
PROPERTY ImplementsContract
PROPERTY ReturnsUnlessBlocked
CHECK_DEADLOCK FALSE
