CONSTANTS
  Agents = {a1}
  Ids = {d1, d2}
  Streams = {s1}
  Kinds = {"platform"}
  WakeAttempts = 1
  Ttl = 2
  GcInterval = 2
  Capacity = 2
  LockTtl = 2
  MayGarble = FALSE
  TicksPerSecond = 3
  None = None
  MaxTime = 3
  MaxArrivals = 2
  MaxLocks = 0
SYMMETRY Symmetry
SPECIFICATION Spec
INVARIANTS
  CoveredPrecedesLaunch
CHECK_DEADLOCK FALSE
