\* callwire.h promises a timeout that client.c does not have: the call waits for ever.
SPECIFICATION FairSpec
CONSTANTS
    MaxCalls = 2
    MaxIn = 1
    MaxOut = 2
    MaxArgs = 2
    CobolArgs = 3
    Field = 2
    Uses <- MCUses
PROPERTIES HeaderTimeout
\* A program may stop calling, and may be killed.
CHECK_DEADLOCK FALSE
