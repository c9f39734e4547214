CONSTANTS
  s1 = s1
  s2 = s2
  s3 = s3
  s4 = s4
  Service <- FourServices
SYMMETRY Symmetry
SPECIFICATION Spec
INVARIANT TypeOK
INVARIANT ComponentsExact
INVARIANT DepthsExact
PROPERTY Ends
CHECK_DEADLOCK FALSE
