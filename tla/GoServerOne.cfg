SPECIFICATION FairSpec
CONSTANTS
    c1 = c1
    Calls = {c1}
    Kinds = {"call", "upload", "bidi"}
    Shapes = {"absent", "value", "badArgs", "chanOut", "chanIn", "chanBoth"}
    ChanCap = 1
    InCap = 1
    MaxIn = 3
    MaxOut = 2
    Refuses = TRUE
    Late = TRUE
    Drops = TRUE
    Panics = TRUE
INVARIANT TypeOK
INVARIANT ChunksInOrder
INVARIANT InvokedWithAll
INVARIANT OnlyStraysAfterAnswer
INVARIANT NoEntryLeaks
PROPERTY LoopUnblocks
PROPERTY DispatchEnds
CHECK_DEADLOCK FALSE
