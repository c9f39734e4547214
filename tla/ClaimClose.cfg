CONSTANTS
  i1 = i1
  i2 = i2
  s1 = s1
  s2 = s2
  None = None
  Id <- MCId
  Incident <- MCIncident
  DedupWindow = 2
  ResolveAfter = 2
  CheckInterval = 2
  InCap = 1
SPECIFICATION Spec
CHECK_DEADLOCK FALSE
INVARIANT AllResolvedAtClose
