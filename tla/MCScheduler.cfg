CONSTANTS
  Agents = {a1, a2, a3}
  JobIds = {j1, j2, j3}
  MaxSubmits = 5
  Lanes = 2
  MayDrain = FALSE
  MayRaise = FALSE
  NoJob = NoJob
  Hung = {}
SYMMETRY Symmetry
SPECIFICATION Spec
INVARIANTS
  TypeOK
  OneWakePerLane
  NoStrandedWork
  BoundedOvertaking
PROPERTIES
  ImplementsStreams
CHECK_DEADLOCK FALSE
