CONSTANTS
  Scenario <- MCScenario
  Reader = {1, 2}
  Reply = {"P1", "garbled"}
  Id = {"", "i"}
  NoID = ""
  None = None
  Timeout = 1
  DedupWindow = 1
  ResolveAfter = 1
  CheckInterval = 1
  InCap = 1
SPECIFICATION FairSpec
INVARIANT TypeOK
PROPERTY ReadersSeeEpisodes
INVARIANT AlwaysRouted
PROPERTY PassedOn
CHECK_DEADLOCK FALSE
