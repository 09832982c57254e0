SPECIFICATION FairSpec
CONSTANTS
  DevBios = {}
  NsBios = {n1}
  Lreqs = {l1}
  PoolSize = 1
  CoreErrors <- MCCoreErrors
PROPERTY EveryRequestEnds
CHECK_DEADLOCK FALSE
