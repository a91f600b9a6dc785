SPECIFICATION Spec
CONSTANTS
  Order = 13
  Odd <- MCOdd
  Tweak <- MCTweak
  Wanted = {2, 5}
  AliceKeys = {1, 7}
  Programs = {"taproot", "split", "optimized"}
  nthreads = 2
  stop_after = 2
  MaxKeys = 4
INVARIANT PrintedRight
PROPERTY StopsAtAmount
