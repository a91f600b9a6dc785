SPECIFICATION SimpleSpec
CONSTANTS
  nthreads = 3
  numpairs = 2
  HaltValues <- MCHalts
  FoundValues <- MCFounds
  MaxKeys = 2
INVARIANT ReportsRight
PROPERTY MatchEnds
