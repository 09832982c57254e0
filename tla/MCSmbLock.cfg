SPECIFICATION FairSpec
CONSTANTS
  Threads = {t1, t2, t3, t4}
  Bias = 5
  IntMax = 2147483647
  MaxRetry = 2
INVARIANTS CountExact
PROPERTIES Refinement LockReturns
