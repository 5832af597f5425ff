SPECIFICATION PlatformSpec
CONSTANTS
  Licenses = {"year", "month"}
  Genuine = {"year", "month"}
  Expiry <- Until
  Community = FALSE
  GraceHours = 2
  LastHour = 2
  Requests = {q1, q2}
  Boot = boot
  Absent = Absent
  Torn = Torn
  Entities = {"s", "a", "b", "c"}
  Seed = "s"
  Edges = {"sa", "sb", "ab", "ac"}
  From <- Source
  To <- Target
  Data = {"valid", "past"}
  Current = {"valid"}
  Files = {"hosts", "paths", "broken", "seed"}
  Lines <- Content
  BadLine <- Bad
  SeedFiles = {"seed"}
  Importers = {p, q}
  MaxHops = 2
  MaxNodes = 4
  Nothing = Nothing
  Readers = {r1, r2}
  CacheTtl = 2
  MaxQuery = 1
  IntelTtl = 2
  Syncs = {s1, s2}
  LastTime = 4
  Missing = Missing
  Runs = {job, api}
  Investigators = {n1}
  Cases = {c1, c2}
  MayOverrun = FALSE
  Nobody = Nobody
  Workers = {w1, w2, w3}
  None = None
  Ttl = 4
  MaxRun = 3
  Tokened = FALSE
  SlowRelease = TRUE
SYMMETRY Alike
INVARIANTS
  TrialIsBounded
  LicenseIsKept
  GraphIsNeighbourhood
  AnswersAreRecent
  StandInsAreGone
PROPERTIES
  ImportsAreWhole
  ImplementsMutex
CHECK_DEADLOCK FALSE
