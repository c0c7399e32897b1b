SPECIFICATION FairSpec
CONSTANTS
    max_ = 2
    Items = {a, b}
    Producers = {p1, p2, p3}
    Consumers = {c1, c2}
INVARIANTS TypeOK NoLostElement NoLostSpace
PROPERTIES NonBlockingReturns QueueSpec
