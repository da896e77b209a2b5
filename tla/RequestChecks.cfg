SPECIFICATION Spec
CONSTANTS
    None = None
    Unknown = Unknown
    k1 = k1
    k2 = k2
    Clients = {k1, k2}
    Categories = {"sqli", "xss", "rate_limit"}
    Deployments <- AllDeployments
    MaxReqs = 3
    MaxTracked = 1
INVARIANTS BanHolds PassiveNeverEnforces ThreatNotServed EvidenceIsExact ThresholdsBan
CHECK_DEADLOCK FALSE
