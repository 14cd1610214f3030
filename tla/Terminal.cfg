SPECIFICATION MCSpec
CONSTANTS
  Specs <- MCSpecs
  Derived <- MCDerived
  Menu <- MCMenu
  PeriodLimit = 2
  Slack = 1
  DriftAbsolute = 1
  DriftParts = 2000
  ScaleFactors = {1000}
  SignFields = {}
  Days = 4
  FirstScreen = 3
  MaxFilings = 2
  MaxRewrites = 1
  Clients = {c1, c2}
  Years = {1, 2}
  Attempts = 2
  MaxAsks = 2
  Requests = {r1}
  MaxRelease = 1
  MaxLoads = 3
  MaxRestores = 3
INVARIANTS
  AnswersAreOfTheirRelease
  FilingsExplainValues
  CacheKeepsSources
  AnswersTellTheirSource
PROPERTIES
  PastStays
  AcceptedHidesNothing
CHECK_DEADLOCK FALSE
