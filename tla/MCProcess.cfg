\* The process stops for good when buffer_init fails, and waits for ever in
\* buffer_pop when pthread_create did.
SPECIFICATION FairProcessSpec
CONSTANTS
    Main = main
    Ingester = ingester
    Producers = {ingester}
    Consumers = {main}
    Items <- MCItems
    NoThread = NoThread
    NoItem = NoItem
    Replies <- MCReplies
    Garbage = Garbage
    Unknown <- MCUnknown
    IdSize = 3
    StopSize = 3
    UIntModulus = 256
    Capacity = 2
    MaxLeaks = 0
    CellOf <- MCCellOf
    BucketCount = 2
    WindowSize = 2
    StampModulus = 4
    MaxRecords = 8
    MaxSpurious = 1
INVARIANT NotBothAsleep
PROPERTIES ImplementsEngine RecordsReachMain
CHECK_DEADLOCK FALSE
