SPECIFICATION HandlersSpec
CONSTANTS
    CaHosts = {"c", "p", "q"}
    CaNobody = "nobody"
    CaDeployments <- Proxies
    CaSpellings = {"plain", "odd"}
    CaMaxWritten = 1
    CaMaxHops = 3
    BvRequests = {1, 2, 3}
    BvClients = {"b1", "b2"}
    BvEndpoints = {"e1", "e2"}
    BvDeployments <- Trackers
    BvMaxEndpoints = 1
    BvMaxClients = 1
    BvMaxTime = 2
    DsScans = {"s1", "s2"}
    DsCases <- Scanned
    CcThreads = {"t1", "t2"}
    CcKeys = {"a", "b", "c"}
    CcSize = 2
    CcMaxUses = 5
    VcProcs = {"v1", "v2"}
    VcPatterns = {"a", "b"}
    VcDeployments <- Engines
    VcMaxStarts = 3
    RgCallers <- RegistryCallers
    RgBuiltin <- Builtin
    RgPatterns = {"a", "b", "l,r"}
    RgPieces <- Pieces
    RgUnsafe = {"r"}
    RgDeployments <- Registries
    RgMaxCalls = 4
    PmRecorders = {"m1", "m2"}
    PmPatterns = {"a", "b"}
    PmTracked = 1
    PmSamples = 2
    PmCooldown = 2
    PmMaxTime = 3
    PmMaxRecords = 3
    PmThreads = {TRUE, FALSE}
INVARIANTS RealClientFound WrittenPartIgnored TriggersAreExact ScansWhatIsPaidFor 
    NeverReprobed CustomPatternsDurable
PROPERTIES LeastRecentlyUsed ReservationsSpaced
CHECK_DEADLOCK FALSE
