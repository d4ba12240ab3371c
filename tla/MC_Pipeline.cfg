SPECIFICATION Spec
CONSTANTS
  Ids <- MCIds
  NoOrder = 0
  MinTick = 1
  MaxTick = 3
  PoolSize = 6
  WordBits = 2
  InTicks <- MCTicks
  InQty = {2, 4}
  Depth = 3
  MaxWindow = 4
  IdBase = 100
  Mtu = 3
  PriceScale = 10
  SizeScale = 2
  Markets <- MCMarkets
  DayLength = 10
  RefBase = 1000
  BucketEdges <- MCEdges
  HorizonBinary = 2
  Stride = 3
  MinMids = 3
  MidsKept = 4
  WalletHorizons <- MCWalletHorizons
  TapeHorizons <- MCTapeHorizons
  Bps = 24
INVARIANTS ReconIsExact CopiesAgree CheckFindsNothing ReplayIsAPrefix DecodersAgree RowsAreTrue MarkoutsAgree
\* Every tool runs to its end.
CHECK_DEADLOCK FALSE
