SPECIFICATION FairSystem
CONSTANTS
  main = main
  other = other
  a = a
  n = n
  Devices = {1, 2}
  Patterns = {p, q}
  TableSearch = TRUE
  OnlyOne = FALSE
  Stops = TRUE
  Processes = {main, other}
  Main = main
  Names = {a, n}
  Hash <- CommandLines
  NoBinaries = {n}
  Blocks = 2
  NoFile = NoFile
CHECK_DEADLOCK FALSE
INVARIANTS ReportsCounted StartsRight
PROPERTY KeepsPromise
