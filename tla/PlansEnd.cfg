CONSTANTS
  c1 = c1
  c2 = c2
  Calls = {c1}
  MaxPlanLength = 4
  Drafts <- RichDrafts
  Requests <- LiveRequests
  MaxConcurrentPlans = 1
  MaxAutoActions = 2
  AutoRollback = TRUE
  DryRunMode = FALSE
  MaxRestarts = 0
SPECIFICATION HistoryFairSpec
PROPERTY AutomaticPlansEnd
