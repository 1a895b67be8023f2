CONSTANTS
  a1 = a1
  a2 = a2
  k1 = k1
  k2 = k2
  Actors = {a1, a2}
  Keys = {k1, k2}
  Invocations <- MCInvocations
  Retries = 2
  MaxOrdinal = 6
  MaxCount = 2
  Restarts = 1
SYMMETRY ActorSymmetry
SPECIFICATION Spec
INVARIANTS
  TypeOK
  StoreIsFold
  ReceiptIsOriginal
  RefusedMeansAbsent
  PublishedRunIsUncertain
  LateRefused
  RequestBudget
PROPERTIES
  KeepsPromise
