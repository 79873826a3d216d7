SPECIFICATION SellerFairSpec

CONSTANTS
  o1 = o1
  o2 = o2
  r1 = r1
  r2 = r2
  Orders = {o1, o2}
  OtherEscrows = {"other"}
  Requests = {r1, r2}
  ConfirmedHash = {"release_escrow"}
  UnconfirmedHash = {}
  Targets = {}
  Verdicts = {}
  Placements = {}
  MaxFaults = 1
  MaxCredits = 3
  RefundUnfunded = FALSE
  StartCounts = {3}

INVARIANTS
  RecordIsEarned
  RecordIsComplete
  SomeSaleIsCounted
PROPERTIES
  SomeSaleCounts
CHECK_DEADLOCK FALSE
