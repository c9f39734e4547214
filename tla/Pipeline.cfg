CONSTANTS
  Svc = {"a", "b", "c"}
  Scenario <- MCScenario
  HeedsCtx = {"c"}
  PatternEnabled = FALSE
  AnomalyEnabled = TRUE
  CorrelatorEnabled = TRUE
  DiagnosisEnabled = FALSE
  LineCap = 1
  AlertCap = 1
SPECIFICATION FairSpec
INVARIANT TypeOK
INVARIANT NoLineLost
INVARIANT DeliveredAtEnd
INVARIANT NeverStuck
PROPERTY SignalEndsRelays
CHECK_DEADLOCK FALSE
