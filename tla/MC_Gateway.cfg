SPECIFICATION Spec
CONSTANTS
  Tokens = {t, u, v}
  Ids <- MCIds
  NoOrder = 0
  MinTick = 1
  MaxTick = 2
  PoolSize = 2
  InTicks <- MCTicks
  InQty <- MCSizes
  Prices <- MCPrices
  Sizes <- MCSizes
  PriceUnit = 2
  MaxId = 3
INVARIANTS NamesAreLive ClientKnows MessagesSurviveTheWire
SYMMETRY Symmetry
