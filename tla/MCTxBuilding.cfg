SPECIFICATION Spec
CONSTANTS
  None = None
  sender = sender
  other = other
  stake = stake
  low = low
  Sender = sender
  MaxEntries = 2
  KeyAccounts <- MCKeys
  LowAccounts <- MCLow
  Fee = 1
  Floor = 2
  FeeBuffer = 1
  MinChange = 1
  Deposit = 2
  Slots <- MCSlots
  Submitters = {2}
  Offers <- MCOffers
  Jobs <- MCJobs
  Genesis <- MCGenesis
  Broken <- MCBroken
  MaxTx = 1
INVARIANTS
  AvoidsMempool
  SpendsAsTold
  CollateralIsSafe
  NoDoomedScript
  WitnessesFit
