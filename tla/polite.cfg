SPECIFICATION Spec
CONSTANTS
    Buf = {b1, b2, b3, b4}
    NULL = NULL
    Scripts <- AnswerScripts
    SourceRev = "3.0"
    FreedHeaders <- FreedUnknown
    DpmFrees = TRUE
    DpmPps = {FALSE}
    GiveBack = FALSE
    MaxRepeats = 0
    MaxResets = 1
    MaxOverTemps = 1
    UserEvents = {"GET_SOURCE_CAP","NEW_POWER"}
    MaxTxFails = 1
    MaxRushes = 0
SYMMETRY Symmetry
INVARIANTS PowerUnderContract TxKeepsItsMessage
PROPERTIES MessagesNoticed RxReadsAMessage FailureIsOurs SendsWhatWasAsked
CHECK_DEADLOCK FALSE
