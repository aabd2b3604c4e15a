CONSTANTS
  i1 = i1
  i2 = i2
  p1 = p1
  p2 = p2
  Issues = {i1, i2}
  Pulls = {p1, p2}
  Own = {p1, p2}
  Named <- MCNamed
  Setups <- MCSetups
  Labels = {"handoff", "DoNotWork"}
  None = None
  MaxTime = 1
  MaxPosts = 4
  MaxRestarts = 1
SPECIFICATION Spec
CHECK_DEADLOCK FALSE
INVARIANTS TypeOK EntryIsCurrent PullHeldOpenIsOpen
PROPERTIES WokenIsWanted NeverAGuess
