SPECIFICATION MCSpec
CONSTANTS
  e1 = e1
  e2 = e2
  e3 = e3
  d1 = d1
  s1 = s1
  a1 = a1
  a2 = a2
  a3 = a3
  r1 = r1
  r2 = r2
  r3 = r3
  q1 = q1
  q2 = q2
  box = box
  sh = sh
  nc = nc
  ls = ls
  busybox = busybox
  opt = opt
  big = big
  null = null
  None = None
  Leaves <- MCLeaves
  Values = {sh, nc, big, null}
  Unwritable = {null}
  Unreadable = {big}
  CUSTOM_CONDITION_MAX_DEPTH = 3
  CUSTOM_CONDITION_MAX_LEAVES = 3
  MAX_PARSE_DEPTH = 6
  MAX_EXPRESSION_LENGTH = 17
  Clauses <- MCClauses
  Events = {e1, e2, d1}
  EventOf <- MCEventOf
  Ids <- MCIds
  Slugs = {"first", "second"}
  RuleOrder <- MCRuleOrder
  Trees <- MCTrees
  Paths = {sh, nc, ls, busybox}
  ProgramNames = {sh, nc, ls, busybox}
  BaseName <- SamePath
  Hosts = {box}
  Shells = {sh}
  Multicall = {busybox}
  KnownPaths = {opt}
  KnownNames = {ls}
  KnownUids = {1}
  CustomRules = {r1, r2}
  RuleOf <- MCRuleOf
  POR_DET_004_MATCH_CAP = 2
  CORRELATION_WINDOW = 2
  CUSTOM_ANCESTOR_MAX_DEPTH = 2
  Allowlists = {a1, a2, a3}
  MatcherOf <- MCMatcherOf
  Expiring = {a1}
  Late = {d1}
  Scores = {s1}
  ScoreOf <- MCScoreOf
  LongSlugs = {"second"}
  Requests = {q1, q2}
  MaxUpgrades = 1
  MaxChanges = 2
  MaxRuns = 2
INVARIANT RepresentationsAgree
INVARIANT AnswerIsForTheseRules
INVARIANT AllowlistsOnlyCalm
SYMMETRY Handlers
CHECK_DEADLOCK FALSE
