SPECIFICATION FairSpec
CONSTANTS
  r1 = r1
  r2 = r2
  r3 = r3
  x = x
  y = y
  p = p
  q = q
  o = o
  c = c
  d = d
  s = s
  main = main
  w1 = w1
  Ranges = {r1, r2, r3}
  SuffixValues = {x, y}
  NoRange = NoRange
  NoSuffix = NoSuffix
  Threads = {main, w1}
  MainThread = main
  Needs <- RangesOf
  SuffixOf <- SuffixesOf
  Width = 100
  SuffixSpan = 10
  SuffixBase = 10
  CommandLines <- Sound
INVARIANTS PoolWhole ReportsMatch ReportsCounted
PROPERTY ImplementsPatternSearch
