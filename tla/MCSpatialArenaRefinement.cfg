SPECIFICATION FairSpec
CONSTANTS
    Writers = {w1, w2}
    Places = {1, 2}
    UnusedBits = 2
    Cells <- MCCells
    Speeds = {7, 8}
    Timestamps = {1, 6}
    BucketCount = 2
    WindowSize = 2
    StampModulus = 4
PROPERTIES ImplementsWindow LockReleased
