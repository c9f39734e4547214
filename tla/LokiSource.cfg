CONSTANTS
  Limit = 2
  MaxDelay = 2
  MaxTime = 3
  MaxEntries = 4
SPECIFICATION FairSpec
INVARIANT TypeOK
INVARIANT NoRepeat
INVARIANT LossExplained
PROPERTY TimelyIsSent
CHECK_DEADLOCK FALSE
