SPECIFICATION ReadsSpec
CONSTANTS
  a = a
  b = b
  r1 = r1
  r2 = r2
  r3 = r3
  r4 = r4
  Ciks = {a, b}
  Releases = {r1, r2, r3, r4}
  Order <- MCOrder
  Ends <- MCEnds
  Cutoff <- MCCutoff
  Limit = 4
  MaxResponse = 3
  MaxTotal = 8
  MaxPages = 3
  None = None
  Apis <- MCApis
  Published <- MCPublished
  Lengths <- MCLengths
  Inside <- MCInside
  PageLimits = {1, 2}
  RowsPerRead = 2
  ReadsPerPage = 2
  LoopPages = 3
  Moves = 2
  Nothing = Nothing
  Callers = {x1, x2}
  RowCount <- MCRowCount
  GroupRows = 2
  NativeLimits = {1, 3}
  DecodeRows = 4
  ChunkRows = 2
  ObjectRows = 3
  Retries = 1
  Tables = {anchor, facts1}
  Expected <- MCExpected
  MaxWrites = 2
  Issuers = {1, 2}
  Members <- MCMembers
  Recorded <- MCRecorded
  Questions <- MCQuestions
  Shards = 2
  Filings <- MCReports
  Concepts <- MCConcepts
  LabelsOf <- MCLabelsOf
  Thousand = 100
  XbrlUrls = {"none", "not installed", "valid", "invalid"}
  Companies = {1, 2}
  Unhistoried = {2}
  Extractors = 2
  MaxArchive = 2
  MaxCode = 2
  MaxBuilds = 3
  Tasks = {1, 2}
  Editions = 2
  Unparsed <- MCUnparsed
  Fetchers = 2
  MaxAcquisitions = 3
  Books <- MCBooks
  LastDay = 3
  IndexedFrom = 2
  Handover = 3
  Instants = {7, 9, 10, 12}
  Counts = {1, 2}
  PageRows = 2
  Tears = 1
  MaxAnswers = 2
INVARIANTS
  ScreenIsWhole
  PassIsOfTheFiling
  AnswersAreOfTheirInstant
  ServedIsOfOneVersion
  LocalBuildsAreWhole
  CompleteIsWhole
  ReadIsWhole
  FollowersAreServed
PROPERTIES
  CommandsEnd
CHECK_DEADLOCK FALSE
