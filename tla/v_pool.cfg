SPECIFICATION Spec
CONSTANTS
    Buf = {b1, b2, b3, b4}
    NULL = NULL
    Scripts <- Renewals
    SourceRev = "3.0"
    FreedHeaders <- FreedUnknown
    DpmFrees = FALSE
    DpmPps = {FALSE}
    GiveBack = FALSE
    MaxRepeats = 0
    MaxResets = 0
    MaxOverTemps = 0
    UserEvents = {}
    MaxTxFails = 0
    MaxRushes = 0
SYMMETRY Symmetry
INVARIANTS RxFindsBuffer
CHECK_DEADLOCK FALSE
