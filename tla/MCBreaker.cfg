CONSTANTS
  Agents = {a1, a2}
  Streams = {s1}
  NoStream = NoStream
  MaxWakes = 2
  StreamMaxWakes = 1
  Window = 1
  Cooldown = 2
  GcInterval = 3
  NotTripped = NotTripped
  Nothing = Nothing
  MaxTime = 3
  MaxAsks = 4
SYMMETRY Symmetry
SPECIFICATION Spec
INVARIANTS
  TypeOK
  RateCap
  NoFalseTrip
PROPERTIES
  CooldownHonoured
CHECK_DEADLOCK FALSE
