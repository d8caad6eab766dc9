\* One party may stop at any point.
CONSTANTS
  a = a  b = b  c = c  d = d
  Party = {a, b, c, d}
  F = 1
  Steady = {a, b, c}
  Reach <- ThreeReached
  Slow <- TwoSlow
SPECIFICATION FairSpec
CHECK_DEADLOCK FALSE
INVARIANTS TypeOK CancelHarmless ProvidesHeld
PROPERTIES ImplementsCommonSubset BuadaEnds
