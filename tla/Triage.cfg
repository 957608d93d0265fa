CONSTANTS
  Jobs = {j1, j2, j3}
  Workers = {w1, w2}
  RuleLevels <- BoundaryLevels
  QueueThreshold = 1
  BreakerEnabled = TRUE
  a1 = a1
  a2 = a2
  n1 = n1
  n2 = n2
  n3 = n3
  s1 = s1
  ip = ip
  None = None
  Alerts = {a1, a2}
  Analyses = {n1, n2, n3}
  AnalysisOf <- MCAnalysisOf
  WithMl = {n1}
  Submissions = {s1}
  AboutAlert <- MCAboutAlert
  Labelled = {s1}
  LevelOf <- MCLevelOf
  SourceOf <- MCSourceOf
  Polled <- MCPolled
  MinSeverity = 7
  RagThreshold = 8
  HistoryLimit = 1
  MaxRestarts = 1
SPECIFICATION MCSpec
CHECK_DEADLOCK FALSE
INVARIANTS
  PoolConsistent
  CorrelationEarned
  NoEcho
PROPERTIES
  JobsResolved
  StopReturns
  JudgedIsKept
