SPECIFICATION FairSpec

CONSTANTS
  b1 = b1
  b2 = b2
  Buyers = {b1, b2}
  Quantities = {2}
  StockLevels = {2}
  InitialStock = 3
  MaxFaults = 1
  MaxLapses = 1

INVARIANTS
  HandedOver
  PlacedIsReal
  StockConserved
  
PROPERTIES
  RequestsEnd
