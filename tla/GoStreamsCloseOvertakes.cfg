SPECIFICATION StreamSpec
CONSTANTS
    c1 = c1
    Calls = {c1}
    Kinds = {"upload"}
    Shapes = {"chanIn"}
    ChanCap = 2
    InCap = 1
    MaxIn = 2
    MaxOut = 0
    Refuses = FALSE
    Late = FALSE
    Drops = FALSE
    Panics = FALSE
    SendCap = 2
    RecvCap = 1
    Opaque = FALSE
    Replaced = FALSE
INVARIANT UploadComplete
CHECK_DEADLOCK FALSE
