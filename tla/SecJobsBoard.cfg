SPECIFICATION BoardSpec
CONSTANTS
  Jobs = {j1}
  Ciks = {c1, c2}
  Releases = {r1}
  FirstRelease = r1
  Credentials = {k1}
  FirstCredential = k1
  Materialized = {}
  Unsupported = {c2}
  MaxDeliveries = 2
  ExhaustedAt = 2
  MaxDeploys = 0
  MaxLate = 0
  Isolates = {i1}
  ResolveSlots = {s1, s2}
  ReleaseIds = {v1, v2}
  TTL = 2
  Latency = 1
  MaxTime = 4
INVARIANT OutcomeFollowsSource
PROPERTY KeepsTheBoard
PROPERTY MessagesSettle
CHECK_DEADLOCK FALSE
