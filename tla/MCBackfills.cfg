SPECIFICATION Spec
CONSTANTS
  None = None
  TxOf <- MCTxOf
  AddressOf <- MCAddressOf
  First <- MCFirst
  MaxHeight = 3
  MaxForks = 1
  Styles <- MCStyles
  Ranges <- MCRanges
  MaxStarts = 1
  BatchBlocks = 2
  ChunkSize = 2
INVARIANTS
  NoOrphanRows
  RowsStayTrue
  DoneMeansComplete
CHECK_DEADLOCK FALSE
