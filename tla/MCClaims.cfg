CONSTANTS
  Agents = {"u1", "u2"}
  Routes = {"github", "basecradle", "probe"}
  Corrupt = Corrupt
  MaxTemps = 2
  MaxFaults = 1
  Entries <- MCEntries
  Order <- MCOrder
  Vars = {"V", "W", "T"}
  FirstEnvs <- MCFirstEnvs
  MaxInputs = 2
  MaxBoots = 2
  MaxQueued = 1
SPECIFICATION Spec
INVARIANTS TypeOK FlushedMeansSettled OwnKeyOnly EdgesReach ClaimIsEarned
PROPERTIES ProofKept
CHECK_DEADLOCK FALSE
