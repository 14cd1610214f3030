SPECIFICATION Spec
CONSTANTS
  wmt = wmt
  nke = nke
  cost = cost
  Companies = {wmt, nke, cost}
  Shards = {{wmt, nke}, {cost}}
  Pinned = wmt
  Runs = {u, v}
  Candidates <- MCCandidates
  ArchiveAsOf = 1
  MaxCreates = 5
  MaxRegistry = 1
  MaxReleases = 4
  MaxStarts = 3
SYMMETRY RunSymmetry
INVARIANT EveryCompanyServed
CHECK_DEADLOCK FALSE
