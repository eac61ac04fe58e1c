SPECIFICATION FairSpec
CONSTANTS
  Proc = {p1, p2}
  NoProc = NoProc
  MaxSeq = 2
  Faults = {"idle", "race", "overlap", "reorder", "diskfull"}
CHECK_DEADLOCK FALSE
PROPERTY
  OrphanReclaimed
