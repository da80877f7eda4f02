SPECIFICATION Spec
CONSTANTS
    Samples <- Watching
    MaxAge = 2
    MinInterval = 1
    None = None
    Horizon = 4
    Changes = {"invalidate"}
    KeepWatch = TRUE
INVARIANTS
    CompletionWitnessed
PROPERTIES
    ConfirmedByAdvance
