SPECIFICATION WorkerSpec
CONSTANTS
  Jobs = {j1}
  Ciks = {c1}
  Releases = {r1, r2}
  FirstRelease = r1
  Credentials = {k1, k2}
  FirstCredential = k1
  Materialized = {}
  Unsupported = {}
  MaxDeliveries = 3
  ExhaustedAt = 3
  MaxDeploys = 1
  MaxLate = 2
  Isolates = {i1}
  ResolveSlots = {s1, s2}
  ReleaseIds = {v1, v2}
  TTL = 2
  Latency = 1
  MaxTime = 4
INVARIANT SingleFlight
PROPERTY KeepsPointerRecent
PROPERTY ResolveEnds
INVARIANT AckedIsDecided
INVARIANT CompleteIsReadable
CHECK_DEADLOCK FALSE
