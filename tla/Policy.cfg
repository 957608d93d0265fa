CONSTANTS
  web = web
  db = db
  bad = bad
  Addresses = {web, db, bad}
  CriticalityOf <- MCCriticalityOf
  Containing <- MCContaining
  Incidents <- MCIncidents
  Evidence <- MCEvidence
  Nowhere = Nowhere
  Domain = Domain
  None = None
  AutoMin = 70
  VetoMin = 85
  Threshold = 30
  Rates = {0, 20, 60}
SPECIFICATION Spec
INVARIANTS
  AutonomyEarned
  GatesMonotone
  EdrBeforeIsolation
  EstimateNeedsWork
