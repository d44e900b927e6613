SPECIFICATION Spec
CONSTANTS
    Procs = {p1, p2}
    Keys = {"model"}
    Commands = {"nudge", "guard", "broken", "lint", "log"}
    Triggers = {"Stop", "UserPromptSubmit", "PreToolUse"}
    Requests <- Asked
    Found <- Shapes
    Runs = 4
SYMMETRY Symmetry
INVARIANTS
    NeverTwice
    MalformedUntouched
    UserSettingsSurvive
    InstalledStays
PROPERTY ReadIsBackedUp
CHECK_DEADLOCK FALSE
