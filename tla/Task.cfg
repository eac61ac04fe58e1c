SPECIFICATION Spec
CONSTANTS
  c1 = c1
  c2 = c2
  Nobody = Nobody
  Chats <- MCChats
  Options <- AllRuns
CHECK_DEADLOCK FALSE
INVARIANTS
  TypeOK
  DebtsKept
PROPERTIES
  GateSound
