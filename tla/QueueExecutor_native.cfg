SPECIFICATION ExecSpec
CONSTANTS
    ItemCount = 2
    Content <- MCContent
    CommandIds = {c1, c2}
    Modes = {"native"}
    ControlAction = {}
    None = None
    Asked = {"start", "play_next", "clear"}
    Settlements = {"finished", "needs_attention"}
    GenerationLimit = 1
SYMMETRY CommandSymmetry
CHECK_DEADLOCK FALSE
INVARIANT
    AskedOnce
PROPERTIES
    LedgerKept
    StopBarsEffects
