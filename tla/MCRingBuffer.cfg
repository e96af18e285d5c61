SPECIFICATION Spec
CONSTANTS
    Producers = {p1, p2}
    Consumers = {c1, c2}
    Items = {a, b}
    Capacity = 3
    NoThread = NoThread
    NoItem = NoItem
SYMMETRY Symmetry
VIEW View
INVARIANTS TypeOK MutualExclusion RingConsistent NoLostWakeup ShutdownWakesAll
PROPERTY ImplementsQueue
