CONSTANTS
  Svc = {"c"}
  Scenario <- ClaimScenario
  HeedsCtx = {"c"}
  PatternEnabled = FALSE
  AnomalyEnabled = TRUE
  CorrelatorEnabled = FALSE
  DiagnosisEnabled = FALSE
  LineCap = 1
  AlertCap = 1
SPECIFICATION Spec
INVARIANT PartialAlertsSent
CHECK_DEADLOCK FALSE
