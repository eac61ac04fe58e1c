SPECIFICATION FairSpec
CONSTANT
  Options <- AllRuns
CHECK_DEADLOCK FALSE
INVARIANTS
  TypeOK
  WritersApart
  SpawnsBounded
  MergesSound
  EndsSound
PROPERTIES
  CancelledSpawnsNothing
  Terminates
