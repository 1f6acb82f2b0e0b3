SPECIFICATION FairSpec
CONSTANTS
  Clients = {c1, c2}
  Requests = {r1, r2}
  Burst = 2
  Refill = 2
  Price = 2
  EvictAfter = 2
  MaxHold = 1
INVARIANTS TypeOK NoOrphan
PROPERTIES IdealBucket StaleEvicted
