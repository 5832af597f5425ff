SPECIFICATION Spec
CONSTANTS
  Investigations = {"i1", "i2"}
  Suggests <- Suggested
  Blank <- NoContent
  PatternOf <- SamePattern
  Settlers = {w}
  Requests = {r1, r2, r3, r4}
  Alerts = {"a1"}
  Threshold = 2
  TTL = 0
  MaxTime = 1
  MaxFaults = 1
  None = None
SYMMETRY Symmetry
INVARIANTS
  ArchiveIsEarned
  FirstDecisionStands
  SuggestionsKept
CHECK_DEADLOCK FALSE
