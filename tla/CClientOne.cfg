\* Two calls on one connection, one chunk in and two out; fields of two characters.
SPECIFICATION FairSpec
CONSTANTS
    MaxCalls = 2
    MaxIn = 1
    MaxOut = 2
    MaxArgs = 2
    CobolArgs = 3
    Field = 2
    Uses <- MCUses
INVARIANTS OwnFramesOnly StreamWhole EchoKept
PROPERTIES WaitsOnlyForServer
\* A program may stop calling, and may be killed.
CHECK_DEADLOCK FALSE
