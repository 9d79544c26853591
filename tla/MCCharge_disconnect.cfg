CONSTANTS
  q1 = q1
  q2 = q2
  q3 = q3
  q4 = q4
  Request = {q1, q2}
  Payload <- Payloads
  Faults = {"crash"}
  None = None
  NoClaim = NoClaim
SPECIFICATION Spec
CHECK_DEADLOCK FALSE
INVARIANT OneCharge
