SPECIFICATION Spec
CONSTANTS
  Alerts = {1}
  Keys = {"k1"}
  KeyOf <- OneKey
  Probes = {}
  Events = {1}
  Investigations = {1, 2}
  Requests = {1, 2}
  Verdicts = {"attack_confirmed", "needs_human_review"}
  Workers = {g1, n1, d1, u1, u2}
  Reliable <- AllServices
  MaxFaults = 0
  None = None
  Aggregators = {g1}
  Unlocked = {}
  Agents = {n1}
  DailyBudget = 2
  Recommends = {}
  BatchSize = 1
  Dispatchers = {d1}
  Operators = {u1, u2}
  MaxResend = 1
  ReinvestigationEnabled = TRUE
  Settlers = {}
  FetchLimit = 2
  AutoCloseEvent = TRUE
  RequireDispositionConfirm = FALSE
PROPERTIES
  ConcludedOnlyCloses
SYMMETRY Alike
CHECK_DEADLOCK FALSE
