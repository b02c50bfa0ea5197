SPECIFICATION FairSpec
CONSTANTS
    Records = 3
    Widths = {1, 2, 4, 9}
    Chunk = 3
    MaxRecord = 3
    Limit = 2
    Newline = Newline
INVARIANTS
    LineBounded
    NewestRecords
    FailsOnlyOnLongRecords
PROPERTY ReaderEnds
CHECK_DEADLOCK FALSE
