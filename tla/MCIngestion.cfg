SPECIFICATION FairSpec
CONSTANTS
    Replies <- MCReplies
    Garbage = Garbage
    Unknown <- MCUnknown
    IdSize = 3
    StopSize = 3
    UIntModulus = 256
    Capacity = 2
    MaxLeaks = 2
INVARIANTS TypeOK HeapDiscipline FeedInOrder
PROPERTY ThreadStops
