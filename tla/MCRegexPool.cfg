SPECIFICATION FairSpec
CONSTANTS
  a = a
  b = b
  c = c
  main = main
  w1 = w1
  w2 = w2
  Threads = {main, w1, w2}
  MainThread = main
  CommandLines <- Sound
  Wide = {c}
INVARIANTS SlotsWhole ReportsCounted
PROPERTY ImplementsPatternSearch
