CONSTANTS
  Groups <- MCGroups
  Evidence <- MCEvidence
  None = None
  MaxFaults = 2
  MaxTouches = 2
SPECIFICATION ScanSpec
INVARIANTS TypeOK OneFindingEach HeartbeatMeansFiled NoRepeatPage
PROPERTIES StandingIsFiled
