SPECIFICATION ReadsSpec
CONSTANTS
  a = a
  b = b
  r1 = r1
  r2 = r2
  r3 = r3
  r4 = r4
  Ciks = {a, b}
  Releases = {r1, r2, r3, r4}
  Order <- MCOrder
  Ends <- MCEnds
  Cutoff <- MCCutoff
  Limit = 4
  MaxResponse = 3
  MaxTotal = 8
  MaxPages = 3
  None = None
  Apis <- MCApis
  Published <- MCPublished
  Lengths <- MCLengths
  Inside <- MCInside
  PageLimits = {1, 2}
  RowsPerRead = 2
  ReadsPerPage = 2
  LoopPages = 3
  Moves = 2
  Nothing = Nothing
  Callers = {x1, x2}
  RowCount <- MCRowCount
  GroupRows = 2
  NativeLimits = {1, 3}
  DecodeRows = 4
  ChunkRows = 2
  ObjectRows = 3
  Retries = 1
  Tables = {anchor, facts1}
  Expected <- MCExpected
  MaxWrites = 2
  Issuers = {1, 2}
  Members <- MCMembers
  Recorded <- MCRecorded
  Questions <- MCQuestions
  Shards = 2
  Filings <- MCReports
  Concepts <- MCConcepts
  LabelsOf <- MCLabelsOf
  Thousand = 100
  XbrlUrls = {"none", "not installed", "valid", "invalid"}
  Companies = {1}
  Unhistoried = {}
  Extractors = 1
  MaxArchive = 1
  MaxCode = 1
  MaxBuilds = 1
  Tasks = {1}
  Editions = 1
  Unparsed = {}
  Fetchers = 1
  MaxAcquisitions = 1
  Books <- MCBooks
  LastDay = 3
  IndexedFrom = 2
  Handover = 3
  Instants = {7, 9, 10, 12}
  Counts = {1, 2}
  PageRows = 2
  Tears = 1
  MaxAnswers = 1
INVARIANT
  ComparedIsOfItsPeriod
CHECK_DEADLOCK FALSE
