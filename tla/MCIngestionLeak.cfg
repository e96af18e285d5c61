SPECIFICATION Spec
CONSTANTS
    Replies <- MCReplies
    Garbage = Garbage
    Unknown <- MCUnknown
    IdSize = 3
    StopSize = 3
    UIntModulus = 256
    Capacity = 2
    MaxLeaks = 2
INVARIANT PayloadsFreed
