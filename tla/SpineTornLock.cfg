SPECIFICATION FairSpec
CONSTANTS
  Proc = {p1, p2}
  NoProc = NoProc
  MaxSeq = 2
  Faults = {"torn"}
CHECK_DEADLOCK FALSE
PROPERTY
  OrphanReclaimed
