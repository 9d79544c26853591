SPECIFICATION Spec
CONSTANTS
  Caller = {c1, c2}
  maxNumberRetries = 3
  MaxAttempts = 4
INVARIANTS RecordedAgrees FateAgrees  AttemptsNumbered LostMeansBeaten
CHECK_DEADLOCK FALSE
