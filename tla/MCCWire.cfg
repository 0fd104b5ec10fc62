CONSTANTS
    w1 = w1
    w2 = w2
    NoWriter = NoWriter
    Writers <- MCWriters
    Jobs <- MCJobs
    InitCap = 4
    MaxBuf = 32
    IntWidths = {2, 4, 6}
    MaxFrame = 20
SPECIFICATION Spec
INVARIANTS FramesIntact DecodedAsMeant
PROPERTY FramesArrive
CHECK_DEADLOCK FALSE
