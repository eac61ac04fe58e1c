SPECIFICATION Spec
CONSTANTS
  MaxIssues = 10
  Faults = {"fail", "crash"}
CHECK_DEADLOCK FALSE
CONSTRAINT FewOrTurns
INVARIANTS
  TypeOK
  QueueLands
  NoHole
  MessagesRecorded
