SPECIFICATION Spec
CONSTANTS
    None = None
    Requests = {r1, r2}
    Builds <- TwoBuilds
    Customs = {"key"}
    Enforced <- EnforcedChecks
    LiveEdits = {"add"}
    RebuildFails = TRUE
    Positions = {2}
    MaxLists = 2
SYMMETRY Symmetry
INVARIANTS AdmittedOnlyIfChecked NoCheckRunsTwice
CHECK_DEADLOCK FALSE
