SPECIFICATION ProbedFairSpec
CONSTANTS
  Alerts = {1, 2}
  Keys = {"k1", "k2"}
  KeyOf <- TwoKeys
  Probes = {1}
  Events = {1, 2}
  Investigations = {1, 2}
  Requests = {}
  Verdicts = {"attack_confirmed", "likely_false_positive"}
  MockVerdicts = {"likely_false_positive"}
  Workers = {g1, h1, n1, p1}
  Reliable <- AllServices
  MaxFaults = 0
  None = None
  Aggregators = {g1, h1}
  Unlocked = {h1}
  Agents = {n1, h1}
  HealthChecks = {h1}
  ProbeOf <- TheProbe
  DailyBudget = 2
  Recommends = {}
  BatchSize = 2
  Dispatchers = {}
  Operators = {}
  MaxResend = 0
  ReinvestigationEnabled = TRUE
  Settlers = {p1}
  FetchLimit = 1
  AutoCloseEvent = TRUE
  RequireDispositionConfirm = FALSE
PROPERTIES
  RealEventsClose
CHECK_DEADLOCK FALSE
