SPECIFICATION RtFairSpec
CONSTANTS
  Works = {w1, w2}
  Procs = {p1}
  Flushers = {f1}
  Destroyer = d
  MaxLoop = 1
PROPERTY DestroyReturns
CHECK_DEADLOCK FALSE
