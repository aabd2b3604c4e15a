CONSTANTS
  Agents = {a1, a2}
  Ids = {d1}
  Streams = {s1}
  Kinds = {"github", "probe"}
  WakeAttempts = 2
  Ttl = 2
  GcInterval = 2
  Capacity = 1
  LockTtl = 1
  MayGarble = TRUE
  TicksPerSecond = 2
  None = None
  MaxTime = 1
  MaxArrivals = 2
  MaxLocks = 1
SPECIFICATION FairSpec
INVARIANTS SkippedWasDone
PROPERTIES LockObeyed StreamNeverStuck
CHECK_DEADLOCK FALSE
