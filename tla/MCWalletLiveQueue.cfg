SPECIFICATION RestartSpec
CONSTANTS
  a = a  b = b  w1 = w1  w2 = w2  k1 = k1
  Instances = {a}
  Wallets = {w1}
  Claims = {k1}
  NoClaim = NoClaim
  NoOwner = NoOwner
  DeadOwner = DeadOwner
  NoRequest = NoRequest
  Requests <- Keyless
  MaxAttempts = 1
  MaxConcurrentWallets = 1
  MaxJobs = 2
  MaxBuilds = 1
  MaxCrashes = 1
  MaxStops = 1
  MaxDbFaults = 0
PROPERTY PendingIsDispatched
PROPERTY SubmittedSettles
PROPERTY SubmittingResolves
