CONSTANTS
  Alerts = {1, 2, 3}
  Fingerprints = {"f"}
  FingerprintOf <- OneKind
  Runs = {job, api}
  Unlocked = {}
  BatchSize = 2
  Window = 1
  Low = 3
  BandLow = 3
  BandHigh = 7
  Deep = 7
  Scores = {3, 8}
  Discounts = {0, 1}
  AssistRoutes = {"queue_uncertain"}
  LlmScores = {0}
  Weight = 15
  Poison = {}
  MaxTime = 2
  MaxFaults = 1
  MayOverrun = FALSE
  job = job
  api = api
  None = None
SPECIFICATION Spec
CHECK_DEADLOCK FALSE
INVARIANTS
  OneRepresentative
  OccurrenceExact
