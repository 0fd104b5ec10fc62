SPECIFICATION Spec
CONSTANTS
    MaxCalls = 2
    MaxConns = 2
    StreamCap = 1
    MaxChunks = 1
    Reconnect = TRUE
    Mismatch = FALSE
INVARIANT TypeOK
INVARIANT NoForgottenCaller
INVARIANT UnarySendNeverBlocks
INVARIANT CloseIsFinal
CHECK_DEADLOCK FALSE
