CONSTANTS
  web = web
  db = db
  apt = apt
  insider = insider
  i1 = i1
  i2 = i2
  i3 = i3
  MonteCarloRuns = 3
  Outcomes <- MCOutcomes
  Processes = {w1, w2}
  Runs = {r1, r2, r3}
  Batches = 1
  StoreSize = 1
  Seconds = 2
  MaxTears = 1
  MaxRestarts = 1
  Simulations = {s1, s2}
  Agents = {atk, dfn}
  Questions = {q1, q2, q3}
  StoreLimit = 1
  Stages = {"recon", "access", "impact"}
  NoStage = "unknown"
  Defaulted = {"recon", "access"}
  Closed = {i1, i2, i3}
  AlertStages <- MCAlertStages
  Trainings = {t1, t2}
  ScoredHosts = {web, db}
  Archetypes = {apt, insider}
  Reports <- MCReports
  Refreshes = {c1, c2}
  Simulated = 2
SPECIFICATION MCSpec
CHECK_DEADLOCK FALSE
INVARIANTS
  SwarmConsistent
  HistoryConsistent
  ChatConsistent
  TrainingConsistent
  ScoresConsistent
PROPERTIES
  RunsEnd
