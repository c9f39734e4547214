CONSTANTS
  Service = {1, 2, 4, 5}
  Calls <- MCCalls
  ZScore <- MCZScore
  Window = 1
  OutCap = 1
  MaxLag = 0
  MaxTime = 2
  MaxAlerts = 3
SPECIFICATION FairSpec
INVARIANT TypeOK
INVARIANT NoAlertLost
INVARIANT OneIncidentPerWindow
 
PROPERTY EventuallyEmitted
PROPERTY ClosesOutput
CHECK_DEADLOCK FALSE
