SPECIFICATION Spec
CONSTANTS
    ItemCount = 2
    Content <- MCContent
    CommandIds = {c1, c2, c3}
    Modes = {"legacy", "native"}
    ControlAction = {"pause", "release"}
    None = None
    GenerationLimit = 1
SYMMETRY CommandSymmetry
CHECK_DEADLOCK FALSE
INVARIANTS
    TypeOK
    HistoryLoads
    OnePlayPerItem
    AttentionStopsQueue
    NoReleaseUnderReservation
PROPERTY
    EarlierWorkIsFenced
