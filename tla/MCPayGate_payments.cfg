CONSTANTS
  RefundId = {r1}
  Reference = {k1}
  NoReference = NoReference
  Amount = 1
  Worker = {w1, w2, w3}
  Ops = {"create", "cancel", "expire", "expiry", "callback", "refund", "charge", "refunds"}
  RefundGrace = 0
  RefundRetryAfter = 1
  RefundGiveUpAfter = 2
  PartialRefund = FALSE
  HasExpiry = TRUE
  Misreported = {}
  DashboardRefund = TRUE
  ReconcilerOverlap = FALSE
SPECIFICATION Spec
SYMMETRY Symmetry
CHECK_DEADLOCK FALSE
INVARIANTS TypeOK StatusAgreesWithGateway EventsReplay
PROPERTY ImplementsLifecycle
