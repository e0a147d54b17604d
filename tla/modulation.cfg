SPECIFICATION FairSpec
CONSTANTS
    Program <- Boundaries
    BitDepth = 10
    RangeScale = 11
INVARIANTS NeverTorn ShownIsValue
PROPERTIES LastShown MailboxSpec
