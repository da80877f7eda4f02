SPECIFICATION Spec
CONSTANTS
    Samples <- Stopping
    MaxAge = 1
    MinInterval = 1
    None = None
    Horizon = 6
    Changes = {"stop", "release", "disown", "invalidate"}
    KeepWatch = FALSE
INVARIANTS
    PolicyTypeOK
    StopObserved
    ReleaseObserved
PROPERTIES
    HistoryIsFinal
