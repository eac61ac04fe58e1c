SPECIFICATION FairSpec
CONSTANTS
  s1 = s1
  s2 = s2
  root = root
  shell = shell
  task = task
  execute = execute
  ask_user = ask_user
  Sessions <- MCSessions
  Roots <- OneRoot
  Tools <- MCTools
  Categories <- MCCategories
  Needs <- MCNeeds
  Question = ask_user
  Options <- AllRuns
CHECK_DEADLOCK FALSE
INVARIANTS
  TypeOK
  ServicesShared
  ControlSound
  AsksSound
PROPERTY TurnsEnd
