\* In memory: two addresses, two thirds of a token a tick.  Redis: two requests at a time,
\* from instances whose clocks differ by a tick.
CONSTANTS
  k1 = k1
  k2 = k2
  Keys = {k1, k2}
  Unit = 3
  Rate = 2
  Burst = 1
  MaxWindow = 6
  StaleAfter = 3
  CleanupEvery = 2
  MaxLate = 1
  p1 = p1
  p2 = p2
  Pipelines = {p1, p2}
  None = None
  WindowMs = 3
  MaxSkew = 1
  MaxDelay = 0
  MaxClock = 8
  Failures = TRUE
SPECIFICATION LimiterSpec
INVARIANTS
  TypeOK
  WindowBound
  RedisWindowBound
  RedisRefusedForCause
PROPERTY
  ImplementsBucket
