SPECIFICATION FairSpec
CONSTANTS
    Timers = {t1, t2}
    Kinds <- MCKinds
    DefaultWait = 2
    Late = 1
    Spurious = TRUE
INVARIANTS
    OnceOrCancelled
    WrongPopIsLate
PROPERTIES
    AddedRuns
    CloseEnds
CHECK_DEADLOCK FALSE
