SPECIFICATION FairStreamSpec
CONSTANTS
    c1 = c1
    Calls = {c1}
    Kinds = {"upload", "bidi"}
    Shapes = {"chanIn", "chanBoth"}
    ChanCap = 1
    InCap = 1
    MaxIn = 2
    MaxOut = 1
    Refuses = FALSE
    Late = TRUE
    Drops = TRUE
    Panics = FALSE
    SendCap = 1
    RecvCap = 1
    Opaque = TRUE
    Replaced = TRUE
INVARIANT DeliveredPrefix
INVARIANT FirstAnswerCounts
PROPERTY UploadAnswered
CHECK_DEADLOCK FALSE
