SPECIFICATION RaceSpec
CONSTANTS
  i1 = i1
  i2 = i2
  i3 = i3
  r1 = r1
  r2 = r2
  r3 = r3
  x1 = x1
  x2 = x2
  w1 = w1
  w2 = w2
  c1 = c1
  c2 = c2
  c3 = c3
  Incidents = {i1}
  Recommendations = {r1}
  Executors = {x1, x2}
  Workers = {w1, w2}
  Containers = {c1}
  Protected = {}
  OutsideActors = {}
  DelayedReports = TRUE
  MaxFaults = 2
  EvidenceOf <- PausableEvidence
  IncidentOf <- OwnIncidents
  TargetOf <- OwnContainers
  NoTarget = NoTarget
  NoExecutor = NoExecutor
  NoAction = NoAction
  NoError = NoError
  ReportedCodes <- ErrorCodes
  MaxAttempts = 3
SYMMETRY Symmetry
INVARIANTS
  UncrossedOutcomeIsTrue
  ContainmentIsReleasable
