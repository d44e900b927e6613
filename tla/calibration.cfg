SPECIFICATION CalSpec
CONSTANTS
    Strings <- AnyString
    Words <- AnyString
    M <- Smart
    Raws <- VerdictRaws
    Events <- SmartEvents
    Procs = {p1}
    Faults = {"crash", "effectpanic"}
    Workload = 3
    MaxDropped = 1
INVARIANTS
    SpentIsLogged
    StepsArePaid
PROPERTIES
    JoinsByLastCell
    KeepsPromise
CHECK_DEADLOCK FALSE
