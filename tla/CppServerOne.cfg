\* One call, three heap blocks for it and one that holds odd keys.
SPECIFICATION Spec
CONSTANTS
    b1 = b1
    b2 = b2
    b3 = b3
    b4 = b4
    Calls = {1}
    Names = {"f"}
    MaxExports = 2
    Slots <- MCSlots
    Raws <- MCRaws
    Blocks = {b1, b2, b3, b4}
    OddBlocks = {b4}
SYMMETRY MCSymmetry
INVARIANTS OneOwner NeverBad ClosureLifetimes OnlyStreamArgsLeak
CHECK_DEADLOCK FALSE
