\* Safety, every party may stop at any point, every lock possible.
CONSTANTS
  a = a  b = b  c = c  d = d
  Party = {a, b, c, d}
  F = 1
  Up = {a, b, c, d}
  Lockers = {a, b, c, d}
SPECIFICATION Spec
SYMMETRY Alike
CHECK_DEADLOCK FALSE
INVARIANTS TypeOK DecideExcludesNo
PROPERTY NoIsFinal
