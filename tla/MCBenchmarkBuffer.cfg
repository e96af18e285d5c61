\* A benchmark that has returned, or whose thread was not created, stops.
SPECIFICATION BenchSpec
CONSTANTS
    Producers = {p}
    Consumers = {m}
    Producer = p
    Main = m
    Items = {SYN001}
    Record = SYN001
    Capacity = 2
    N_RECORDS = 5
    MaxSpurious = 2
    NoThread = NoThread
    NoItem = NoItem
INVARIANTS BenchTypeOK DestroyIsSafe
PROPERTIES ImplementsQueue BenchmarkEnds
CHECK_DEADLOCK FALSE
