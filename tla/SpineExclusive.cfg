SPECIFICATION Spec
CONSTANTS
  Proc = {p1, p2, p3}
  NoProc = NoProc
  MaxSeq = 2
  Faults = {"overlap", "torn", "diskfull"}
CHECK_DEADLOCK FALSE
SYMMETRY Symmetry
INVARIANTS
  TypeOK
  OwnerSound
  ClosedLeavesNoLock
