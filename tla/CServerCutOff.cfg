\* One upload whose connection is lost.
SPECIFICATION Spec
CONSTANTS
    MaxCalls = 1
    MaxConns = 1
    Handlers = {"client"}
    MaxIn = 1
    MaxOut = 0
INVARIANT CleanEndMeansDone
CHECK_DEADLOCK FALSE
