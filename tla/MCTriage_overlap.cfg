CONSTANTS
  Alerts = {1, 2, 3, 4}
  Fingerprints = {"f"}
  FingerprintOf <- OneKind
  Runs = {job, check}
  Unlocked = {check}
  BatchSize = 2
  Window = 1
  Low = 3
  BandLow = 3
  BandHigh = 7
  Deep = 7
  Scores = {8}
  Discounts = {0}
  AssistRoutes = {}
  LlmScores = {0}
  Weight = 15
  Poison = {4}
  MaxTime = 2
  MaxFaults = 1
  MayOverrun = TRUE
  job = job
  check = check
  None = None
SPECIFICATION FairSpec
CHECK_DEADLOCK FALSE
INVARIANTS
  DuplicateIsCovered
PROPERTIES
  TriagedOnce
  HealthyAlertsLeaveNew
