SPECIFICATION MCSpec
CHECK_DEADLOCK FALSE
CONSTANTS
  None = None
  Empty = Empty
  k = k
  l = l
  img = img
  e1 = e1
  e2 = e2
  e3 = e3
  e4 = e4
  shell = shell
  child = child
  RuntimeEvents = {e1, e2, e3, e4}
  Containers = {k, l}
  Images = {img}
  ContainerOf <- MCContainerOf
  ImageOf <- MCImageOf
  SeenAt <- MCSeenAt
  RuntimeBatch = 2
  Execs = {shell, child}
  ExecOf <- MCExecOf
  IdOrder <- MCIdOrder
  w1 = w1
  w2 = w2
  Workers = {w1, w2}
  ExecBatch = 2
  Lookback = 1
  Cutoff = 2
  MaxDelete = 1
  MaxAborts = 1
SYMMETRY WorkerSymmetry
INVARIANTS
  LatestEventWins
  ParentLinksAreRight
  DigestWasReported
  NobodyWaitsInACircle
