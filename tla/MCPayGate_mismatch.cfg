CONSTANTS
  RefundId = {r1}
  Reference = {k1, k2}
  NoReference = NoReference
  Amount = 2
  Worker = {w1, w2}
  Ops = {"create", "callback", "refund", "refunds"}
  RefundGrace = 1
  RefundRetryAfter = 1
  RefundGiveUpAfter = 2
  PartialRefund = TRUE
  HasExpiry = FALSE
  Misreported = {r1}
  DashboardRefund = FALSE
  ReconcilerOverlap = FALSE
SPECIFICATION Spec
CHECK_DEADLOCK FALSE
INVARIANT MismatchNeverDeclined
