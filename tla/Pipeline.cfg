CONSTANTS
  q1 = q1
  q2 = q2
  b1 = b1
  None = None
  Queued = {q1, q2}
  Batch = {b1}
  Slots = 1
  MaxAttempts = 2
  Threshold = "high"
  Verdicts <- MCVerdicts
  MaxStops = 1
SPECIFICATION Spec
CHECK_DEADLOCK FALSE
INVARIANTS
  CasesBounded
  AlertsAccounted
PROPERTIES
  AlertsMoveOn
