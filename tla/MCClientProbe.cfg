SPECIFICATION Spec
CONSTANTS
  ogmios = ogmios  koios = koios  c1 = c1  c2 = c2
  Live = ogmios
  Historical <- OneProvider
  Unsupported <- NodeLacksTx
  Batching = {koios}
  CredBackend = koios
  Calls = {c1, c2}
  Offered = {"batch", "account", "submit", "params"}
  NoCall = NoCall
  NoBackend = NoBackend
  FailureThreshold = 2
  SuccessThreshold = 2
  MaxRequests = 4
  MaxFlips = 1
  MaxAged = 1
SYMMETRY CallSymmetry
INVARIANT HalfOpenStaysProbeable
\* The requests are bounded.
CHECK_DEADLOCK FALSE
