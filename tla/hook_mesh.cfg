SPECIFICATION Spec
CONSTANTS
    Strings <- AnyString
    Words <- MeshWords
    M <- Mesh
    Raws <- MeshRaws
    Events <- MeshEvents
    Procs = {p1}
    Faults = {"crash", "inbox"}
INVARIANTS
    TypeOK
    NoLaundering
PROPERTIES
    KeepsPromise
    NeverJudgedUnheard
