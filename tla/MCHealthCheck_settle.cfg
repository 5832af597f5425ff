SPECIFICATION ProbedSpec
CONSTANTS
  Alerts = {1, 2}
  Keys = {"k1"}
  KeyOf <- OneKey
  Probes = {2}
  Events = {1, 2}
  Investigations = {1, 2}
  Requests = {1}
  Verdicts = {"attack_confirmed", "needs_human_review", "likely_false_positive",
              "insufficient_information"}
  MockVerdicts = {"likely_false_positive", "insufficient_information"}
  Workers = {d1, g1, h1, n1, p1}
  Reliable <- AllServices
  MaxFaults = 1
  None = None
  Aggregators = {g1, h1}
  Unlocked = {h1}
  Agents = {n1, h1}
  HealthChecks = {h1}
  ProbeOf <- TheProbe
  DailyBudget = 1
  Recommends = {"attack_confirmed"}
  BatchSize = 2
  Dispatchers = {d1}
  Operators = {}
  MaxResend = 0
  ReinvestigationEnabled = TRUE
  Settlers = {p1}
  FetchLimit = 2
  AutoCloseEvent = TRUE
  RequireDispositionConfirm = TRUE
INVARIANTS
  ClosedHasCase
  OneCasePerInvestigation
  ClosedIsDecided
  AlertCountNeverOver
  ProbesStayApart
CHECK_DEADLOCK FALSE
