\* All seven parties up, those of Early lacking what they lack.
CONSTANTS
  a = a  b = b  c = c  d = d  e = e  f = f  g = g
  w = w  x = x  y = y  z = z
  Party = {a, b, c, d, e, f, g}
  F = 2
  Chosen = {w, x, y, z}
  Missing <- Early
  Up = {a, b, c, d, e, f, g}
SPECIFICATION InTurnSpec
CHECK_DEADLOCK FALSE
INVARIANT CallsAlive
