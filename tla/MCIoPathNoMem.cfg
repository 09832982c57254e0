SPECIFICATION Spec
CONSTANTS
  DevBios = {}
  NsBios = {}
  Lreqs = {l1, l2}
  PoolSize = 1
  CoreErrors <- MCCoreErrors
INVARIANT NoMemRequeues
CHECK_DEADLOCK FALSE
