CONSTANTS
  d1 = d1
  d2 = d2
  Actors = {d1}
  NumRecords = 3
  CommitEnds = {2, 3}
  Initial = 2
  Destination <- MCDestination
  QueueRoom = 2
  Retries = 2
  Backoff = 1
  Jitter = 2
  Ticks = 2
  MaxTick = 3
  MaxOrdinal = 14
  Isolate = TRUE
  Restarts <- MCRestarts
  Policies <- NoPolicies
SPECIFICATION Spec
INVARIANTS
  TypeOK
  AckedTakesEffectOnce
  HonestOutcome
  OkMeansAllAcked
  OutboxOrder
  BackoffRespected
