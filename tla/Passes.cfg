SPECIFICATION FairPassSpec
CONSTANTS
  Replica = {n1, n2}
  None = None
  TTL = 3
  LongestPass = 2
  Charges = 3
  Refunds = 3
  StuckCharges = {1}
  StuckRefunds = {2}
  BatchSize = 2
  MaxCrashes = 2
INVARIANTS OneAtATime DeletesOnlyItsOwn
PROPERTIES JobKeepsRunning EveryTurnComes
