SPECIFICATION Spec
CONSTANTS
  Mode = "full"
  Threads = {t1, t2}
  Intents = {i1}
  MaxAttempts = 1
  ObservationIds = {o1, o2, o3}
  NoHash = none
  Supported = {"invoke"}
  MaxCached = 2
  Lifetime = 2
  Reports <- MCReports
  MaxTime = 2
INVARIANTS
  TypeOK
  AtMostOncePerIntent
  EffectWhileFresh
  CacheBound
SYMMETRY MCSymmetry
