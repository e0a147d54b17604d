SPECIFICATION Spec
CONSTANTS
    Buf = {b1, b2, b3, b4}
    NULL = NULL
    Scripts <- OneContract
    SourceRev = "3.0"
    FreedHeaders <- FreedUnknown
    DpmFrees = TRUE
    DpmPps = {FALSE}
    GiveBack = FALSE
    MaxRepeats = 0
    MaxResets = 1
    MaxOverTemps = 0
    UserEvents = {}
    MaxTxFails = 0
    MaxRushes = 0
SYMMETRY Symmetry
PROPERTIES DroppedWasSeen
CHECK_DEADLOCK FALSE
