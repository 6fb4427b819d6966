SPECIFICATION MCSpec
CONSTANTS
  t1 = t1
  t2 = t2
  p1 = p1
  p2 = p2
  m1 = m1
  m2 = m2
  m3 = m3
  c1 = c1
  c2 = c2
  g1 = g1
  Tasks = {t1, t2}
  Direct = {t2}
  Clearing = {t1}
  DegradedAfter = 2
  OfflineAfter = 3
  MaxVersion = 1
  None = None
  Failed = Failed
  Tokens = {a1, a2}
  IdleLimit = 2
  MaxOverdue = 4
  NoToken = NoToken
  CallTimeout = 1
  FreshFor = 1
  MaxClock = 3
  MaxSkew = 1
  MaxLate = 1
  BeatFaults = 1
  NoTime = NoTime
  NoRow = NoRow
  Incidents = {i1, i2}
  Checks = {p1, p2}
  ListLimit = 1
  AlertFaults = 2
  Torn = Torn
  Models = {m1, m2, m3}
  Fallbacks <- FallbackModels
  Discovered = m3
  ReportCves = {c1, c2}
  Packages = {g1}
  PackageOf <- OnePackage
  Scores = {e1}
  Completions = {s1, s2}
  FeedChanges = 1
  NoScore = NoScore
  NoIntel = NoIntel
  MaxRecords = 3
  MaxBytes = 4
  ExcerptSizes = {0, 2, 3}
  Retention = 2
  MaxTime = 3
  MaxInserted = 4
INVARIANTS ReadyIsKnown NotifiedWasMailed ReportIsTheLastAnswer IdleTokenIsLocked LettersAddUp
PROPERTIES ConsoleNeverGoesBack TasksKeepRunning OutageKeepsIntel
CHECK_DEADLOCK FALSE
