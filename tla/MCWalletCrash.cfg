SPECIFICATION Spec
CONSTANTS
  a = a  b = b  w1 = w1  w2 = w2  k1 = k1
  Instances = {a, b}
  Wallets = {w1}
  Claims = {k1}
  NoClaim = NoClaim
  NoOwner = NoOwner
  DeadOwner = DeadOwner
  NoRequest = NoRequest
  Requests <- OneKey
  MaxAttempts = 1
  MaxConcurrentWallets = 1
  MaxJobs = 2
  MaxBuilds = 1
  MaxCrashes = 1
  MaxStops = 0
  MaxDbFaults = 0
SYMMETRY InstanceSymmetry
INVARIANT OneInFlight
INVARIANT FailedNeverPays
INVARIANT KeyPaysOnce
