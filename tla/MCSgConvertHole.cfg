SPECIFICATION Spec
CONSTANTS
  Page = 8
  Logicb = 8
  Align = 2
  Sector = 4
  MaxSegs = 2
  Cuts = {0, 1, 2, 4, 5, 8}
  FirstIdx = {1}
  SomeKinds = {"bio"}
  Requests <- MCRequests
INVARIANT HolesSeen
CHECK_DEADLOCK FALSE
