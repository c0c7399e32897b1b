SPECIFICATION PoolSpec
CONSTANTS
    max_ = 1
    Items = {j1, j2, j3, null}
    Producers = {p1, p2, main}
    Consumers = {w1, w2}
    Clients = {p1, p2}
    Owner = main
    Jobs = {j1, j2, j3}
    NullJob = null
INVARIANTS PoolTypeOK FifoUnusedWhenDeleted AcceptedJobsRan WrapperLifetime
PROPERTIES AcceptedJobsRun DestructorReturns
