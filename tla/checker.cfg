SPECIFICATION FairSpec
CONSTANTS
    Strings <- AnyString
    Words <- Wordy
    Machines <- Submissions
INVARIANTS
    OrphansExact
    HaltWarned
    AcceptedIsRunnable
PROPERTY Reports
CHECK_DEADLOCK FALSE
