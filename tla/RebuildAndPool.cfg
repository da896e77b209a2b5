SPECIFICATION ThreadsSpec
CONSTANTS
    Requests = {"t1", "t2"}
    Writers = {"u1"}
    Mutations = {"assign", "routeAssign"}
    Preemptive = TRUE
    MaxRevision = 1
    MaxSize = 0
    MaxInPlace = 0
    RxScans = {"s1", "s2"}
    RxWorkers = 2
    RxMaxSlow = 3
INVARIANTS NoMaskedStaleness
PROPERTIES EventuallyFresh PoolLifecycle SlowPatternsHoldNobody
