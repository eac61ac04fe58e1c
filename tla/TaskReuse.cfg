SPECIFICATION Spec
CONSTANTS
  c1 = c1
  c2 = c2
  Nobody = Nobody
  Chats <- MCChats
  Options <- ReuseRuns
CHECK_DEADLOCK FALSE
PROPERTY
  GateSound
