SPECIFICATION CSpec
CONSTANTS
    Strings <- AnyString
    Words <- AnyString
    M <- HedgeVerify
    Raws = {""}
    Events = {}
    Panics = {}
    Misdelivers = FALSE
    Window = 4
INVARIANTS
    NagsEnd
PROPERTIES
    NudgedWhenSeen
