\* One silent receiver, every cancellation order.
CONSTANTS
  s = s  a = a  b = b  c = c
  Party = {s, a, b, c}
  F = 1
  Sender = s
  Up = {s, a, b}
SPECIFICATION FairSpec
CHECK_DEADLOCK FALSE
INVARIANTS TypeOK FinishExcludesNoQuorum PreVoteMatchesEcho NoFatal
PROPERTIES ImplementsLeaderLock WaitReturns SenderFinishes
