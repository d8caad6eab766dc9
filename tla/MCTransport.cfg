\* Three parties; those before and after the one that reads stall.
CONSTANTS
  t = t  u = u
  N = 3
  Topic = {t, u}
  Traffic <- AllAndOne
  MAXMESSAGE = 2
  Stalled = {0, 2}
SPECIFICATION FairSpec
CHECK_DEADLOCK FALSE
INVARIANTS TypeOK DispatcherFree
PROPERTIES ImplementsDelivery AllArrive
