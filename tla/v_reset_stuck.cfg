SPECIFICATION FairSpec
CONSTANTS
    Buf = {b1, b2, b3, b4}
    NULL = NULL
    Scripts <- OneOffer
    SourceRev = "3.0"
    FreedHeaders <- FreedUnknown
    DpmFrees = TRUE
    DpmPps = {FALSE}
    GiveBack = FALSE
    MaxRepeats = 0
    MaxResets = 1
    MaxOverTemps = 0
    UserEvents = {}
    MaxTxFails = 0
    MaxRushes = 1
PROPERTIES ResetFinished
CHECK_DEADLOCK FALSE
