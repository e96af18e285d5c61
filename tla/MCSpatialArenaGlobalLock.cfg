SPECIFICATION Spec
CONSTANTS
    Writers = {w1, w2}
    Places = {1, 2, 3}
    UnusedBits = 2
    Cells <- MCCells
    Speeds = {7}
    Timestamps = {1}
    BucketCount = 2
    WindowSize = 2
    StampModulus = 4
INVARIANT LockIsLocal
