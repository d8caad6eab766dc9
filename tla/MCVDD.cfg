\* Two silent parties, two proposals.
CONSTANTS
  a = a  b = b  c = c  d = d  e = e  f = f  g = g
  w = w  x = x  y = y  z = z
  Party = {a, b, c, d, e, f, g}
  F = 2
  Chosen = {x, y}
  Missing <- Lacking
  Up = {a, b, c, d, e}
SPECIFICATION FairSpec
CHECK_DEADLOCK FALSE
INVARIANTS TypeOK ReturnedComplete ChannelSuffices
PROPERTY CallsEnd
