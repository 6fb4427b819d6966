SPECIFICATION Spec
CONSTANTS
  i1 = i1
  r1 = r1
  x1 = x1
  x2 = x2
  w1 = w1
  w2 = w2
  c1 = c1
  Incidents = {i1}
  Recommendations = {r1}
  Executors = {x1, x2}
  Workers = {w1, w2}
  EvidenceOf <- PausableEvidence
  IncidentOf <- OneIncident
  TargetOf <- OneContainer
  NoTarget = NoTarget
  NoExecutor = NoExecutor
  NoAction = NoAction
  NoError = NoError
  ReportedCodes = {"docker_api_error"}
  MaxAttempts = 2
SYMMETRY Symmetry
INVARIANTS
  AuthorizedExecution
  ClaimIsSound
  AuditExplainsStatus
PROPERTIES
  ApprovalIsBinding
  NoDisruptionWhileDisabled
  LifecycleSpec
