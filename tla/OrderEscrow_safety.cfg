SPECIFICATION Spec

CONSTANTS
  o1 = o1
  r1 = r1
  r2 = r2
  Orders = {o1}
  OtherEscrows = {"other"}
  Requests = {r1, r2}
  ConfirmedHash = {"fund_escrow", "release_escrow", "refund_escrow"}
  UnconfirmedHash = {"fund_escrow", "release_escrow"}
  Targets = {"DELIVERED", "CONFIRMED"}
  Verdicts = {}
  Placements = {"CREATED", "FAILED"}
  MaxFaults = 1
  MaxCredits = 2
  RefundUnfunded = TRUE

INVARIANTS
  EscrowStateAgrees
  PaymentAgrees
  OneSettlement
  CreditedAtMostOnce
  AuditAgrees
PROPERTIES
  SettledStaysSettled
  ImplementsEscrowPayment
SYMMETRY RequestSymmetry
