SPECIFICATION Spec
CONSTANTS
    Strings <- AnyString
    Words <- AnyString
    M <- DenyAddAll
    Raws = {""}
    Events <- DenyEvents
    Procs = {p1, p2}
    Faults = {}
INVARIANT AtomicSave
