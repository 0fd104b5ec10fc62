SPECIFICATION Spec
CONSTANTS
    c1 = c1
    Calls = {c1}
    Kinds = {"upload"}
    Shapes = {"chanIn"}
    ChanCap = 2
    InCap = 1
    MaxIn = 2
    MaxOut = 0
    Refuses = FALSE
    Late = TRUE
    Drops = FALSE
    Panics = FALSE
INVARIANT AnsweredOnce
CHECK_DEADLOCK FALSE
