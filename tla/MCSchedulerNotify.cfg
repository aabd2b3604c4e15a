CONSTANTS
  Agents = {a1, a2}
  JobIds = {j1, j2}
  MaxSubmits = 4
  Lanes = 2
  MayDrain = TRUE
  MayRaise = TRUE
  NoJob = NoJob
  Hung = {a1}
SPECIFICATION FairSpec
INVARIANTS
  ObserverUpToDate
  DeliveryLine
PROPERTIES
  DrainedMeansSettled
  EveryWakeRuns
  DrainReturns
