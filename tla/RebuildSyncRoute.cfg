CONSTANTS
  Requests = {t1, t2}
  Writers = {w1}
  Mutations = {"routeInPlace"}
  Preemptive = TRUE
  MaxRevision = 2
  MaxSize = 1
  MaxInPlace = 0
SPECIFICATION Spec
INVARIANTS NoMaskedStaleness
