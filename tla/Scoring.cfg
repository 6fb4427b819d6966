SPECIFICATION MCSpec
CONSTANTS
  a1 = a1
  a2 = a2
  w1 = w1
  w2 = w2
  c1 = c1
  c2 = c2
  server = server
  shell = shell
  root = root
  box = box
  start = start
  u2 = u2
  u3 = u3
  d1 = d1
  d2 = d2
  None = None
  Events <- MCEvents
  EventOf <- MCEventOf
  Ids <- MCIds
  Programs = {server, shell}
  Uids = {root}
  Hosts = {box}
  DockerActions = {start}
  Partial = {1, 9999}
  Profiles = {a1, a2}
  DigestOf <- OneDigest
  ImageOf <- OneImage
  Passing <- MCPassing
  TrainingStart <- MCTrainingStart
  TrainingEnd <- MCTrainingEnd
  WindowSeconds <- MCWindowSeconds
  TrainedOn <- MCTrainedOn
  Workers = {w1, w2}
  Scorers = {c1, c2}
  Windows = {2, 4}
  Now = 9
  anomaly_min_process_events = 1
  anomaly_max_events = 3
  MaxOpen = 2
  Runs = {u2, u3}
  StatisticOf <- MCStatisticOf
  SortedAlike <- MCSortedAlike
  Claimed = {1, 2}
  Contexts = {"a", "b"}
  Minima = {1, 2}
  Callers = {d1, d2}
  MaxModels = 2
  MaxRatings = 2
SYMMETRY Handlers
INVARIANT LockSerialises
INVARIANT ScoresAreIndependent
INVARIANT NewProgramsAreHigh
INVARIANT PValueIsConservative
PROPERTY ActiveProfileRemains
CHECK_DEADLOCK FALSE
