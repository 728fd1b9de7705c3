SPECIFICATION FairSpec
CONSTANTS
  I1 = I1
  I2 = I2
  Instances = {I1, I2}
  NoOwner = NoOwner
  DeadOwner = DeadOwner
  NoBlock = NoBlock
  NoTx = NoTx
  NoStake = NoStake
  Genesis <- MCGenesis
  TxsIn <- MCTxsIn
  StakeOf <- MCStakeOf
  Scenarios <- MCScenarios
  MaxErrors = 3
  Depth = 1
  BatchSize = 2
  PersistRetries = 2
  PoisonThreshold = 2
  ReorgDepth = 3
  EpochLength = 2
  ImportBatch = 2
  MaxHeight = 3
INVARIANTS StoredIsOneChain OutageNeverLatches TrustedSetIsRight LeaderKeepsSetCurrent
CHECK_DEADLOCK FALSE
PROPERTIES CatchesUp BadBlockLatches
