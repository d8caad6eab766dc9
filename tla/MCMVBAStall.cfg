\* All parties up.
CONSTANTS
  a = a  b = b  c = c  d = d
  Party = {a, b, c, d}
  F = 1
  Leader = a
  Up = {a, b, c, d}
  Proposals <- OneProposal
SPECIFICATION Spec
SYMMETRY Receivers
CHECK_DEADLOCK FALSE
INVARIANT RecastAlive
