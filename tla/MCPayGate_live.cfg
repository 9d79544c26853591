CONSTANTS
  RefundId = {r1}
  Reference = {k1}
  NoReference = NoReference
  Amount = 1
  Worker = {w1, w2}
  Ops = {"create", "callback", "refund", "charge", "refunds"}
  RefundGrace = 1
  RefundRetryAfter = 1
  RefundGiveUpAfter = 2
  PartialRefund = TRUE
  HasExpiry = FALSE
  Misreported = {}
  DashboardRefund = FALSE
  ReconcilerOverlap = FALSE
SPECIFICATION FairSpec
CHECK_DEADLOCK FALSE
PROPERTIES LostChargeSettles PaidRefundRecorded
