\* Liveness with one silent party.
CONSTANTS
  a = a  b = b  c = c  d = d
  Party = {a, b, c, d}
  F = 1
  Up = {a, b, c}
  Lockers = {a, b, c}
SPECIFICATION FairSpec
CHECK_DEADLOCK FALSE
PROPERTIES VotesCast UniformVotesEnd
