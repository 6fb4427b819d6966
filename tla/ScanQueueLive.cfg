SPECIFICATION FairSpec
CONSTANTS
  k1 = k1
  k2 = k2
  p1 = p1
  p2 = p2
  w1 = w1
  w2 = w2
  h1 = h1
  h2 = h2
  cveA = cveA
  cveB = cveB
  Scans = {k1, k2}
  Hosts = {h1}
  NoHost = NoHost
  Scanners = {p1, p2}
  InstanceOf <- SharedId
  NoInstance = NoInstance
  ServedBy <- AllServed
  Cves = {cveA, cveB}
  CvesOf <- SharedCve
  Oversized = {k2}
  Workers = {w1}
  NoWorker = NoWorker
  MaxFaults = 2
CHECK_DEADLOCK FALSE
PROPERTY EveryScanEnds
