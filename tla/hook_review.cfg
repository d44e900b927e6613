SPECIFICATION FairSpec
CONSTANTS
    Strings <- AnyString
    Words <- AnyString
    M <- ReviewLoop
    Raws <- ReviewRaws
    Events <- ReviewEvents
    Procs = {p1}
    Faults = {"crash", "guardpanic", "effectpanic"}
INVARIANTS
    BudgetNeverOverdrawn
PROPERTIES
    KeepsPromise
    EveryHookEnds
    Totality
