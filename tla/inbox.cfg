SPECIFICATION Spec
CONSTANTS
    Procs = {p1, p2}
    Paths <- AllPaths
    Traffic = 3
    LastTick = 1
SYMMETRY Symmetry
INVARIANTS
    Confined
    OnlyWholeMessages
    NoneReplaced
CHECK_DEADLOCK FALSE
