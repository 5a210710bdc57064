SPECIFICATION FairSpec
CONSTANTS
  j1 = j1
  j2 = j2
  w1 = w1
  w2 = w2
  k = k
  u = u
  NoKey = NoKey
  Jobs = {j1, j2}
  Workers = {w1, w2}
  Keys = {k, u}
  RecurringKeys = {k}
  UnknownKeys = {u}
  AskedKeys = {u, NoKey}
  MaxAttempts = 2
  Concurrency = 1
  Batch = 2
  Overruns = FALSE
  DbErrors = FALSE
  PrimeErrors = TRUE
  MaxClaims = 3
  MaxExits = 1
CHECK_DEADLOCK FALSE
INVARIANTS TypeOK SoleHolder ChainAccounted ConcurrencyBound
PROPERTIES JobsSettle ImplementsContract
