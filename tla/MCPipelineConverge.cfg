CONSTANTS
  Agents = {a1}
  Ids = {d1}
  Streams = {s1}
  Kinds = {"platform"}
  WakeAttempts = 2
  Ttl = 2
  GcInterval = 2
  Capacity = 2
  LockTtl = 2
  MayGarble = FALSE
  TicksPerSecond = 2
  None = None
  MaxTime = 2
  MaxArrivals = 1
  MaxLocks = 1
SYMMETRY Symmetry
SPECIFICATION Spec
INVARIANTS
  NoWakeDuringConverge
CHECK_DEADLOCK FALSE
