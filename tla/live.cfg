SPECIFICATION FairSpec
CONSTANTS
    Buf = {b1, b2, b3, b4}
    NULL = NULL
    Scripts <- LiveScripts
    SourceRev = "3.0"
    FreedHeaders <- FreedUnknown
    DpmFrees = TRUE
    DpmPps = {FALSE}
    GiveBack = FALSE
    MaxRepeats = 0
    MaxResets = 1
    MaxOverTemps = 0
    UserEvents = {}
    MaxTxFails = 1
    MaxRushes = 0
PROPERTIES TransmissionAnswered ResetFinished TxLetsGo
CHECK_DEADLOCK FALSE
