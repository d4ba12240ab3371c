SPECIFICATION Spec
CONSTANTS
  Ids = {a, b, c, d}
  NoOrder = NoOrder
  MinTick = 1
  MaxTick = 3
  PoolSize = 3
  InTicks <- MCInTicks
  InQty <- MCInQty
SYMMETRY Symmetry
VIEW View
INVARIANTS TypeOK Uncrossed QueueIsOrder WithinPool
PROPERTIES KeepsPriority ClientRejectLeavesBook NoTradeThrough
