SPECIFICATION FairSpec
CONSTANTS
    MaxCalls = 1
    Kinds = {"call", "stream", "export", "bidi"}
    MaxConns = 3
    CmdCap = 2
    QueueCap = 1
    MaxIn = 2
    MaxOut = 1
    Modes = {TRUE, FALSE}
INVARIANTS TypeOK PendingOnCurrent UploadInOrder SilentOnlyAfterClose
CHECK_DEADLOCK FALSE
PROPERTIES ImplementsContract CallsReturn
