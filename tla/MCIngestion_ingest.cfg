SPECIFICATION FairSpec
CONSTANTS
  Sources = {"s1"}
  Docs = {1, 2}
  SourceOf <- Owner
  Stamp <- Times
  Bad = {1}
  Jobs = {job}
  Manual = {api}
  Unlocked = {}
  Operators = {op}
  BatchSize = 1
  MaxBatches = 2
  Lookback = 0
  LongLookback = 1
  MaxTime = 1
  MaxFaults = 1
  MaxResets = 1
  MayOverrun = TRUE
  None = None
INVARIANTS
  NothingSkipped
  CountersFit
  AdviceFits
PROPERTIES
  AlertsAreStored
CHECK_DEADLOCK FALSE
