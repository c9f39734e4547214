CONSTANTS
  Line <- MCLine
  NoPattern = ""
  MinCount = 2
  BucketCap = 2
  PatternCap = 1
  MaxLines = 4
SPECIFICATION Spec
INVARIANT TypeOK
INVARIANT EachLineOnce
INVARIANT AlertTellsItsWindow
CHECK_DEADLOCK FALSE
