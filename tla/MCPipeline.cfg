CONSTANTS
  Agents = {a1}
  Ids = {d1, d2}
  Streams = {s1}
  Kinds = {"github", "undated"}
  WakeAttempts = 2
  Ttl = 2
  GcInterval = 2
  Capacity = 1
  LockTtl = 2
  MayGarble = FALSE
  TicksPerSecond = 2
  None = None
  MaxTime = 3
  MaxArrivals = 3
  MaxLocks = 0
SYMMETRY Symmetry
SPECIFICATION Spec
INVARIANTS TypeOK SkippedWasDone NoNeedlessSession
CHECK_DEADLOCK FALSE
