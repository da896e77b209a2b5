CONSTANTS
  a = a
  b = b
  w1 = w1
  w2 = w2
  c1 = c1
  c2 = c2
  Workers = {w1, w2}
  Ips = {a, b}
  Networks <- OneNetwork
  Refused = {}
  Tasks = {c1, c2}
  Durations = {1, 3}
  LocalCap = 2
  CacheSize = 1
  Deployments <- AllDeployments
  RedisFails = TRUE
  Latency = TRUE
  MaxTime = 3
SPECIFICATION Spec
SYMMETRY Symmetry
INVARIANTS BanPersists BanIsFound BansEnd UnbanSticksUnlessRaced
CHECK_DEADLOCK FALSE
