SPECIFICATION Spec
CONSTANTS
    Buf = {b1, b2, b3, b4}
    NULL = NULL
    Scripts <- ResetScripts
    SourceRev = "2.0"
    FreedHeaders <- FreedUnknown
    DpmFrees = TRUE
    DpmPps = {FALSE}
    GiveBack = FALSE
    MaxRepeats = 1
    MaxResets = 1
    MaxOverTemps = 0
    UserEvents = {}
    MaxTxFails = 0
    MaxRushes = 1
SYMMETRY Symmetry
INVARIANTS ResetHandshake
PROPERTIES HandoverSpec InOrderOnce DropsOnlyRepeats
CHECK_DEADLOCK FALSE
