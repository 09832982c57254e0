SPECIFICATION Spec
CONSTANTS
  Devs = {d1, d2}
  NAttr = 2
  MaxTrouble = 3
  MaxBind = 2
INVARIANTS FaultsExplained NothingLeftBehind LiveDiskIsWhole
PROPERTY ReleasedInReverse
SYMMETRY DevSymmetry
CHECK_DEADLOCK FALSE
