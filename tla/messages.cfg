SPECIFICATION AllSpec
CONSTANTS
    Offers <- UpToThree
    PartnerRevs = {1, 2}
    Sizes = {26, 27}
    Counts = {0, 1}
    Requests <- SomeRequests
    None = None
    Thread = {t1, t2}
    Message <- Messages
    GoodCRC = GoodCRC
    NumObj <- Objects
    NULL = NULL
    Full = Full
    MaxCalls = 3
    MaxReceived = 2
INVARIANTS RequestIsBest PartnerReads RevisionAgreed DealtAsNamed
PROPERTIES ChipSpec SendsWhole
CHECK_DEADLOCK FALSE
