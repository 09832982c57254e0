SPECIFICATION RtFairSpec
CONSTANTS
  Works = {w1, w2, w3}
  Procs = {p1, p2}
  Flushers = {f1}
  Destroyer = d
  MaxLoop = 2
INVARIANTS PendingIsListed NoLostWakeup ExitDrained
PROPERTIES WorkRuns FlushReturns
CHECK_DEADLOCK FALSE
