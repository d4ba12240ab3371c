SPECIFICATION Spec
CONSTANTS
  Ids = {a, b, c, d, e}
  Slots = {s, t}
  NoOrder = NoOrder
  NullSlot = NullSlot
  Hashes <- MCHashes
  MinCapacity = 4
INVARIANTS ProbesEnd NoHoleInARun
PROPERTIES KeepsPromise
SYMMETRY Symmetry
