SPECIFICATION Spec
CONSTANTS
    None = None
    c1 = c1
    c2 = c2
    k1 = k1
    k2 = k2
    MaxReqs = 4
    Clients = {k1, k2}
    Counters = {c1, c2}
    Deployments <- AllDeployments
    MaxLatency = 0
    MaxKeys = 3
    MaxTime = 4
INVARIANTS LimitEnforced BlockedOnlyOverLimit
CHECK_DEADLOCK FALSE
