SPECIFICATION FairSpec

CONSTANTS
  i1 = i1
  i2 = i2
  i3 = i3
  r1 = r1
  r2 = r2
  Images = {i1, i2, i3}
  Requests = {r1, r2}
  MAX_IMAGES_PER_PRODUCT = 1
  MaxFaults = 1

INVARIANTS
  StoresAgree
  LimitButForRacers
PROPERTIES
  ObjectGoesFirst
  ReorderIsWhole
  RequestsEnd
