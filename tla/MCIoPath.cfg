SPECIFICATION Spec
CONSTANTS
  DevBios = {d1}
  NsBios = {n1}
  Lreqs = {}
  PoolSize = 1
  CoreErrors <- MCCoreErrors
INVARIANTS BioNotTouchedAfterEnd OnlyBounceLeaks CountersExact NsAliveWhileUsed ErrorsStayErrors
PROPERTY KeepsContract
CHECK_DEADLOCK FALSE
