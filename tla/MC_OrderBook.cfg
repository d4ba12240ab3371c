SPECIFICATION Spec
CONSTANTS
  Ids = {a, b, c, d}
  NoOrder = NoOrder
  MinTick = 1
  MaxTick = 3
  PoolSize = 3
  WordBits = 2
  InTicks <- MCInTicks
  InQty <- MCInQty
SYMMETRY Symmetry
VIEW View
INVARIANTS WellFormed BestIsBest EventsTellTheBook QueriesAgree
PROPERTIES KeepsPromise
