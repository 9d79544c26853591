CONSTANTS
  RefundId = {r1, r2}
  Reference = {k1, k2}
  NoReference = NoReference
  Amount = 2
  Worker = {w1, w2}
  Ops = {"create", "callback", "refund", "refunds"}
  RefundGrace = 1
  RefundRetryAfter = 1
  RefundGiveUpAfter = 2
  PartialRefund = TRUE
  HasExpiry = FALSE
  Misreported = {}
  DashboardRefund = TRUE
  ReconcilerOverlap = FALSE
SPECIFICATION Spec
SYMMETRY Symmetry
CHECK_DEADLOCK FALSE
INVARIANTS
  NoOverRefund CopiesSound StatusMatchesRefunds RefundReferenceUnique EventsReplay
  RefundAgreesWithGateway PaidOutWithinAmount
