SPECIFICATION Spec
CONSTANTS
  global_size = 2
  keys_per_item = 2
  nthreads = 3
  MaxFound = 3
  MaxMatchesPerThread = 1
  MaxBatches = 4
INVARIANTS MatchesRight NoneLost
PROPERTIES KeysFresh EndsClean
