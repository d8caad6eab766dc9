\* All parties up, and the leader's value reaches one of them in time.
CONSTANTS
  a = a  b = b  c = c  d = d
  Party = {a, b, c, d}
  F = 1
  Up = {a, b, c, d}
  Lockers = {a}
SPECIFICATION Spec
SYMMETRY Alike
CHECK_DEADLOCK FALSE
INVARIANT RoundAlive
