SPECIFICATION MCSpec
CONSTANTS
  Days = 3
  MaxAge = 1
  ObservationLimit = 2
  ClaimsMenu <- MCClaimsMenu
  MaxFiled = 2
  MaxArchives = 2
  DebtComponents = {}
  DebtConfirmed = FALSE
  Pinned <- NoPin
  FirstDay = 13
  LastDay = 15
  Reports <- MCReports
  MaxReports = 3
  Ranges = {7, 15}
  LongQuarters120 = FALSE
  LastUnit = 15
INVARIANT CashCountsOnce
CHECK_DEADLOCK FALSE
