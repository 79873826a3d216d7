SPECIFICATION FairSpec

CONSTANTS
  o1 = o1
  r1 = r1
  r2 = r2
  Orders = {o1}
  OtherEscrows = {"other"}
  Requests = {r1, r2}
  ConfirmedHash = {}
  UnconfirmedHash = {}
  Targets = {"DELIVERED", "CANCELLED"}
  Verdicts = {"PASSED", "FAILED"}
  Placements = {"CREATED"}
  MaxFaults = 0
  MaxCredits = 2
  RefundUnfunded = TRUE

INVARIANTS
  DeliveryAgrees
  NothingForgotten
PROPERTIES
  RequestsEnd
  FundIsBooked
  RefundIsBooked
  CompletedIsCredited
