SPECIFICATION Spec
CONSTANTS
  k1 = k1
  k2 = k2
  p1 = p1
  p2 = p2
  w1 = w1
  w2 = w2
  h1 = h1
  h2 = h2
  cveA = cveA
  cveB = cveB
  Scans = {k1}
  Hosts = {h1}
  NoHost = NoHost
  Scanners = {p1}
  InstanceOf <- OwnIds
  NoInstance = NoInstance
  ServedBy <- AllServed
  Cves = {cveA, cveB}
  CvesOf <- SharedCve
  Oversized = {}
  Workers = {w1, w2}
  NoWorker = NoWorker
  MaxFaults = 1
CHECK_DEADLOCK FALSE
PROPERTY CompletedIsFinal
