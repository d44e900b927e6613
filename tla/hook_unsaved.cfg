SPECIFICATION FairSpec
CONSTANTS
    Strings <- AnyString
    Words <- AnyString
    M <- ReviewLoop
    Raws <- ReviewRaws
    Events <- ReviewEvents
    Procs = {p1}
    Faults = {"disk"}
PROPERTY Totality
