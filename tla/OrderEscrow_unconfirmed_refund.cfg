SPECIFICATION Spec

CONSTANTS
  o1 = o1
  r1 = r1
  r2 = r2
  Orders = {o1}
  OtherEscrows = {"other"}
  Requests = {r1, r2}
  ConfirmedHash = {}
  UnconfirmedHash = {"refund_escrow"}
  Targets = {"DELIVERED"}
  Verdicts = {}
  Placements = {"CREATED"}
  MaxFaults = 1
  MaxCredits = 2
  RefundUnfunded = TRUE

SYMMETRY RequestSymmetry

INVARIANTS
  RefundedOnChain
