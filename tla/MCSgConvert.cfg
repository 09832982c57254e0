SPECIFICATION FairSpec
CONSTANTS
  Page = 8
  Logicb = 8
  Align = 2
  Sector = 4
  MaxSegs = 3
  Cuts = {0, 1, 2, 4, 5, 8}
  FirstIdx = {0}
  SomeKinds = {"bio", "lreq", "scsi"}
  Requests <- MCRequests
INVARIANTS TableFits ExactCover CopyExact AlignedOrHole BouncePagesReturned
PROPERTY ConvertEnds
CHECK_DEADLOCK FALSE
