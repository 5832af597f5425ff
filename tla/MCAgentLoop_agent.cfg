SPECIFICATION FairSpec
CONSTANTS
  Skills = {"asset", "simulate", "unknown"}
  Registered = {"asset", "simulate"}
  Cached = {"asset"}
  Simulates = {"simulate"}
  SettleVerdicts = {"attack_confirmed", "likely_false_positive"}
  HumanVerdicts = {"needs_human_review"}
  Attack = "attack_confirmed"
  MaxSteps = 3
  MaxSkillCalls = 2
  SkillRetries = 1
  MaxClosureRetries = 1
  ClosureEnabled = TRUE
  RequireRefutation = TRUE
  MinScore = 60
  MinRefutation = 50
  MinRefuting = 1
  RequiredSkills = {"asset", "simulate"}
  Supporting <- SupportedBy
  Refuting <- RefutedBy
  Recommended = {"asset"}
  MaxOffSop = 1
  BlockOnFail = TRUE
  MaxCalls = 2
  None = None
INVARIANTS
  CallsAnswered
  WorkBounded
PROPERTIES
  KeepsContract
  InvestigationEnds
CHECK_DEADLOCK FALSE
