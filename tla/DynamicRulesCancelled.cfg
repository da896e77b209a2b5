SPECIFICATION Spec
CONSTANTS
    None = None
    Never = Never
    Loop = loop
    c1 = c1
    i1 = i1
    i2 = i2
    Callers = {c1}
    Inits = {i1, i2}
    Rules <- AllRules
    BaseConfig <- Base
    Deployments <- Cancelled
    MaxTime = 2
PROPERTIES ExpiryRestoresBase
