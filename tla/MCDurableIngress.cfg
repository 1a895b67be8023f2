CONSTANTS
  c1 = c1
  c2 = c2
  c3 = c3
  k1 = k1
  k2 = k2
  NoClient = none
  Clients = {c1, c2, c3}
  Command <- MCCommand
  Keys = {k1, k2}
  OtherCommits <- MCOther
  MaxOther = 1
  MaxFailures = 2
  MaxCount = 2
  Retries = 1
  MaxOrdinal = 9
SPECIFICATION Spec
INVARIANTS
  CacheIsAudited
PROPERTIES
  AnswersHold
  Served
