SPECIFICATION SwapSpec
CONSTANTS
    Threads = {t1, t2}
    NoThread = none
    Snapshots = {s1, s2}
    Original = original
    EmptyDir = emptydir
    NoDir = nodir
    Kinds <- BothKinds
    Mixed = FALSE
    Faults <- AllFaults
INVARIANTS VisibleWhole FailedCallsKeepTarget
PROPERTY OnlyInstallsReplace
