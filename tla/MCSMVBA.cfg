\* Two rounds, two values; the dissenter leads the second round.
CONSTANTS
  a = a  b = b  c = c  d = d
  v = v  w = w
  None = None
  Party = {a, b, c, d}
  F = 1
  Value = {v, w}
  Odd = a
  Leader0 = b
  Proposals <- OneDissent
  Leaders <- OddLeadsLater
  MaxRound = 1
SPECIFICATION Spec
CHECK_DEADLOCK FALSE
INVARIANTS TypeOK Agreement CommitCarries
PROPERTY ImplementsConsensus
