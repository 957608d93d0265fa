CONSTANTS
  a1 = a1
  n1 = n1
  n2 = n2
  s1 = s1
  s2 = s2
  None = None
  Torn = Torn
  Alerts = {a1}
  Analyses = {n1, n2}
  AnalysisOf <- MCAnalysisOf
  WithMl = {n1}
  Submissions = {s1, s2}
  AboutAlert <- MCAboutAlert
  Labelled = {s1}
  Models = {"random_forest", "xgboost"}
  Files <- MCFiles
  MinLabels = 1
  MaxTrainings = 2
  MaxDeaths = 1
  MaxServiceRestarts = 1
SPECIFICATION RetrainSpec
CHECK_DEADLOCK FALSE
INVARIANTS
  FilterTruthful
  FilesConsistent
PROPERTIES
  ServedNeverOlder
  DamageIsPermanent
