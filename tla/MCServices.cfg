SPECIFICATION Spec
CONSTANTS
  Cards <- MCCards
  MaxPolls = 4
  MaxCall = 2
  MaxOther = 1
  NCpu = 2
  Kerns = {"2.6.27", "2.6.28", "2.6.29", "4.19", "5.0", "rhel8.4", "5.7", "5.8", "5.15", "6.3"}
  Jumps = {1, 1100}
  MaxStart = 2
  MaxRepartition = 1
  Callers = {c1, c2}
  Geo <- MCGeo
  BadSets = {{0, 3, 4}, {0, 1, 3, 4}}
  Addrs = {0, 16383, 32767}
  MaxMark = 2
  MaxEntries = 3
  MaxLen = 2
  MaxAnswer = 5
  PerBlock = 2
  NBlocks = 2
  Counts = {0, 1, 5, 11}
  Offsets <- MCOffsets
  MaxCdevCalls = 3
  Pools = {p1, p2}
  Files = {f1, f2}
  NoPool = NoPool
INVARIANTS ConfigurationKept InFlightExact TimesAddUp RaidGroupMarks OnlyAskedFails FillExact CdevExact PoolOutlivesFiles
PROPERTIES CallReturns
CHECK_DEADLOCK FALSE
