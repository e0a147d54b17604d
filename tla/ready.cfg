SPECIFICATION Spec
CONSTANTS
    Buf = {b1, b2, b3, b4}
    NULL = NULL
    Scripts <- ReadyScripts
    SourceRev = "3.0"
    FreedHeaders <- FreedUnknown
    DpmFrees = TRUE
    DpmPps = {TRUE}
    GiveBack = TRUE
    MaxRepeats = 0
    MaxResets = 0
    MaxOverTemps = 0
    UserEvents = {}
    MaxTxFails = 0
    MaxRushes = 1
SYMMETRY Symmetry
INVARIANTS TypeOK NoSharing NoLeak FlagsHaveMessages FewBuffersOut PpsKept
CHECK_DEADLOCK FALSE
