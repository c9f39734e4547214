CONSTANTS
  u = u
  v = v
  Template = {u, v}
  Count = {1, 4, 9}
  Alpha = 1
  Base = 3
  SpikeMultiplier = 3
  RateJumpFactor = 3
  MinSamples = 2
  NewPatternGrace = 1
  MaxSamples = 4
SPECIFICATION DetectorSpec
INVARIANT BaselineIsEMA
PROPERTY RepeatIsSilent
PROPERTY FarAboveAlerts
CHECK_DEADLOCK FALSE
SYMMETRY MCSymmetry
