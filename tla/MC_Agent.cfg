SPECIFICATION Spec
CONSTANTS
  Ticks <- MCTicks
  Books <- MCBooks
  PrintSizes = {1, 3}
  ModelPrices <- MCModelPrices
  Refusals <- MCRefusals
  QuoteSize = 2
  MaxInventory = 2
  Latency = 1
  Offset = 0
  Requote = 0
  Kappa = 1
  SweepRule = "Queue"
  MaxStep = 1
  MaxPending = 3
VIEW View
INVARIANT FillsAreEarned
PROPERTIES LimitStopsExposure PullTakesEffect
