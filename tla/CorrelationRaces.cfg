CONSTANTS
  r1 = r1
  r2 = r2
  r3 = r3
  Requests = {r1, r2, r3}
  Alerts <- Campaign
  MaxChanges = 1
SYMMETRY RequestSymmetry
SPECIFICATION Spec
INVARIANTS
  RowsFromAlerts
  ExactUnlessStale
