SPECIFICATION FairSpec
CONSTANTS
  i1 = i1  i2 = i2  h1 = h1  h2 = h2  k1 = k1  k2 = k2  wb = wb  hb = hb
  NoKey = NoKey
  HsmKey = HsmKey
  Builds = {wb, hb}
  SenderKey <- Sender
  BodySigners <- Cosigned
  Instances = {i1}
  Slots = {h1, h2}
  InstanceOf <- OneInstance
  Inputs <- WalletInputs
  HsmBuilds = {hb}
  MaxRequests = 2
  MaxRecorded = 1
  MaxMishaps = 1
INVARIANT ClaimIsExclusive
INVARIANT RecordedIsOnLedger
INVARIANT OnlyVerifiedSent
PROPERTY DeferredIsResolved
\* The requests are bounded.
CHECK_DEADLOCK FALSE
