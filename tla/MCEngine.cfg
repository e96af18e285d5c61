\* The process stops for good when buffer_init fails, and waits for ever in
\* buffer_pop when pthread_create did.
SPECIFICATION FairEngineSpec
CONSTANTS
    Replies <- MCReplies
    Garbage = Garbage
    Unknown <- MCUnknown
    IdSize = 3
    StopSize = 3
    UIntModulus = 256
    Capacity = 2
    MaxLeaks = 0
    NoRecord = NoRecord
    CellOf <- MCCellOf
    BucketCount = 2
    WindowSize = 2
    StampModulus = 4
    MaxRecords = 8
INVARIANTS EngineTypeOK NothingLost ArenaMatchesFeed
PROPERTIES BootSettles WalkEnds EveryRecordHandled
CHECK_DEADLOCK FALSE
