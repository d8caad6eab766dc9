\* One silent party.
CONSTANTS
  a = a  b = b  c = c  d = d
  Party = {a, b, c, d}
  F = 1
  Leader = a
  Up = {a, b, c}
  Proposals <- AllProposals
SPECIFICATION FairSpec
CHECK_DEADLOCK FALSE
INVARIANTS TypeOK Retrievable ReturnedWhole
PROPERTY RecastEnds
