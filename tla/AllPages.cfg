SPECIFICATION PagesSpec
CONSTANTS
  a = a
  b = b
  r1 = r1
  r2 = r2
  r3 = r3
  r4 = r4
  Ciks = {a, b}
  Releases = {r1, r2, r3, r4}
  Order <- MCOrder
  Ends <- MCEnds
  Cutoff <- MCCutoff
  Limit = 4
  MaxResponse = 3
  MaxTotal = 8
  MaxPages = 3
  None = None
  Apis <- MCApis
  Published <- MCPublished
  Lengths <- MCLengths
  Inside <- MCInside
  PageLimits = {1, 2}
  RowsPerRead = 2
  ReadsPerPage = 2
  LoopPages = 3
  Moves = 1
  Nothing = Nothing
INVARIANT
  AllPagesAreServed
CHECK_DEADLOCK FALSE
