CONSTANTS
  r1 = r1
  r2 = r2
  r3 = r3
  Ref <- MCRef
  Line <- MCLine
  Depth = 3
  SimNum = 1
  SimDen = 2
  MaxChildren = 2
  MaxPatterns = 2
SPECIFICATION Spec
INVARIANT TypeOK
INVARIANT IndexAgrees
INVARIANT Bounded
PROPERTY RepeatIsStable
PROPERTY RoutingIsSticky
