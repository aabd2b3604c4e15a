CONSTANTS
  Agents = {a1}
  Probes = {p1, p2}
  Real = real
  None = none
  Setups = {"armed", "no_route", "other_secret", "unregistered"}
  Polls = 1
  MayFail = TRUE
  MaxReal = 1
  MaxBoots = 2
SPECIFICATION Spec
INVARIANTS TypeOK ProvenIsOwn SettledStop
PROPERTY VerdictIsTheFiles
SYMMETRY Symmetry
CHECK_DEADLOCK FALSE
