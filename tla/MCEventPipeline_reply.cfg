SPECIFICATION FairSpec
CONSTANTS
  Alerts = {1}
  Keys = {"k1"}
  KeyOf <- OneKey
  Probes = {}
  Events = {1}
  Investigations = {1}
  Requests = {1}
  Verdicts = {"attack_confirmed", "needs_human_review"}
  Workers = {g1, n1, d1, u1, p1}
  Reliable <- AllServices
  MaxFaults = 0
  None = None
  Aggregators = {g1}
  Unlocked = {}
  Agents = {n1}
  DailyBudget = 2
  Recommends = {}
  BatchSize = 2
  Dispatchers = {d1}
  Operators = {u1}
  MaxResend = 0
  ReinvestigationEnabled = TRUE
  Settlers = {p1}
  FetchLimit = 2
  AutoCloseEvent = TRUE
  RequireDispositionConfirm = FALSE
PROPERTIES
  RepliedEventsGoOn
CHECK_DEADLOCK FALSE
