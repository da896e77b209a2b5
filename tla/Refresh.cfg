SPECIFICATION RefreshSpec
CONSTANTS
    Requests = {"t1", "t2"}
    Writers = {"u1"}
    Mutations = {"assign", "inplace", "routeAssign", "routeInPlace"}
    Preemptive = FALSE
    MaxRevision = 1
    MaxSize = 1
    MaxInPlace = 2
    RmProcs = {"a", "b", "c"}
    RmClients = {"k1", "k2", "k3"}
    RmModes = {"tasks", "threads"}
    RmMaxCalls = 3
    ClWorkers = {"w1", "w2"}
    ClProviders = {"aws", "gcp"}
    ClRequests = {"r1", "r2"}
    ClDeployments <- Ranges
    ClInterval = 4
    ClMaxTime = 6
    ClMaxStarts = 2
    GiCallers <- Callers
    GiDeployments <- Databases
    GiInodes = {1, 2, 3, 4, 5, 6, 7}
    GiMaxVersion = 2
    GiMaxCalls = 3
    GiRetries = 2
    MkWorkers = {"p1", "p2"}
    MkLegacy = {"old1", "old2"}
    MkMaxTime = 3
    MkMaxStarts = 2
INVARIANTS NextRequestIsFresh NoStandstill GateFollowsRefresh DatabaseStaysGood NoLegacyLeft
PROPERTIES OneClientAtATime  RefreshesOnSchedule  MigrationKeepsBans
CHECK_DEADLOCK FALSE
