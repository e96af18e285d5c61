SPECIFICATION Spec
CONSTANTS
    Feeds <- MCFeeds
    Unknown <- MCUnknown
    IdSize = 3
    StopSize = 4
    UIntModulus = 256
INVARIANTS Faithful RecordsTruthful OccupancyTruthful
