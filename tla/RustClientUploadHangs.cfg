SPECIFICATION FairSpec
CONSTANTS
    MaxCalls = 1
    Kinds = {"export"}
    MaxConns = 1
    CmdCap = 1
    QueueCap = 1
    MaxIn = 0
    MaxOut = 0
    Modes = {TRUE}
CHECK_DEADLOCK FALSE
PROPERTIES UploadReturns
