CONSTANTS
  DayLength = 5
  ResearchOpen = 0
  DecisionOpen = 2
  Tolerance = 1
  MaxQuoteAge = 2
  Lag <- Lags
  snapshot1 = snapshot1
  snapshot2 = snapshot2
  Snapshot = {snapshot1, snapshot2}
  Nothing = Nothing
  MaxTime = 8
  MaxAttested <- TwoResearches
SYMMETRY Interchangeable
SPECIFICATION Spec
INVARIANTS
  TypeOK
  EvidenceTimely
  Chronology
  Ancestry
CHECK_DEADLOCK FALSE
