CONSTANTS
  Agents = {a1}
  Probes = {p1, p2}
  Real = real
  None = none
  Setups = {"armed"}
  Polls = 1
  MayFail = FALSE
  MaxReal = 0
  MaxBoots = 1
SPECIFICATION Spec
INVARIANT CounterIsOwn
CHECK_DEADLOCK FALSE
