SPECIFICATION Spec

CONSTANTS
  b1 = b1
  b2 = b2
  Buyers = {b1, b2}
  Quantities = {1}
  StockLevels = {}
  InitialStock = 1
  MaxFaults = 0
  MaxLapses = 0

INVARIANTS
  ProtectedIsNotFailed
SYMMETRY BuyerSymmetry
