SPECIFICATION Spec
CONSTANTS
  Proc = {p1, p2, p3}
  NoProc = NoProc
  MaxSeq = 4
  Faults = {"diskfull"}
CHECK_DEADLOCK FALSE
SYMMETRY Symmetry
INVARIANT
  LogContiguous
PROPERTY
  ImplementsJournal
