SPECIFICATION ExecSpec
CONSTANTS
    ItemCount = 2
    Content <- MCContent
    CommandIds = {c1, c2, c3}
    Modes = {"legacy"}
    ControlAction = {"release"}
    None = None
    Asked = {"start", "stop", "release"}
    Settlements = {"finished", "needs_attention"}
    GenerationLimit = 1
SYMMETRY CommandSymmetry
CHECK_DEADLOCK FALSE
PROPERTIES
    LedgerKept
    StopBarsEffects
