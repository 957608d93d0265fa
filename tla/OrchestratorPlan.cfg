CONSTANTS
  c1 = c1
  c2 = c2
  Calls = {c1, c2}
  MaxPlanLength = 4
  Drafts <- RichDrafts
  Requests <- RichRequests
  MaxConcurrentPlans = 1
  MaxAutoActions = 2
  AutoRollback = TRUE
  DryRunMode = FALSE
  MaxRestarts = 1
SPECIFICATION HistoryFairSpec
INVARIANTS
  Bookkeeping
  AnalystGate
  CommandedOnce
  QuietVerification
  AwaitingMeansWork
PROPERTIES
  RollbackInReverse
  PlansEnd
  ImplementsLedger
