SPECIFICATION Spec
CONSTANTS
    Writers = {w1, w2}
    Places = {1, 2, 3}
    UnusedBits = 1
    Cells <- MCCells
    Speeds = {7}
    Timestamps = {1, 6}
    BucketCount = 4
    WindowSize = 2
    StampModulus = 4
SYMMETRY Symmetry
INVARIANTS TypeOK BucketExclusion
