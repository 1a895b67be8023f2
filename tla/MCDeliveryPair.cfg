CONSTANTS
  d1 = d1
  d2 = d2
  Actors = {d1, d2}
  NumRecords = 2
  CommitEnds = {2}
  Initial = 2
  Destination <- MCPair
  QueueRoom = 2
  Retries = 1
  Backoff = 0
  Jitter = 1
  Ticks = 0
  MaxTick = 0
  MaxOrdinal = 8
  Isolate = FALSE
  Restarts <- MCRestarts
  Policies <- OneGuarded
SPECIFICATION FairSpec
INVARIANTS
  AckedTakesEffectOnce
  OutboxOrder
  ForwardedOnce
PROPERTIES
  DeliveryEnds
  AckedEventuallyEffects
