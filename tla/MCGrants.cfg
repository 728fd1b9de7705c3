SPECIFICATION FairSpec
CONSTANTS
  P1 = P1
  P2 = P2
  C1 = C1
  C2 = C2
  W1 = W1
  W2 = W2
  Procs = {P1, P2}
  Requests = {1, 2}
  Flushers = {1, 2}
  Clients = {C1, C2}
  NoDay = NoDay
  NoMax = NoMax
  NoWallet = NoWallet
  NoHash = NoHash
  MaxFailures = 1
  AdminRate = 1
  TokenCacheMax = 2
  MaxKeys = 2
  MaxKeysPerGroup = 1
  MaxDay = 2
  Scenarios <- MCScenarios
INVARIANTS BudgetHolds UsageAddsUp LocalEditSeen FailuresThrottled
PROPERTY UsageIsWritten
CHECK_DEADLOCK FALSE
