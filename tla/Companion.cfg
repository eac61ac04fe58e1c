SPECIFICATION FairSpec
CONSTANTS
  home = home
  other = other
  k1 = k1
  k2 = k2
  Folders <- MCFolders
  Home <- MCHome
  Keys <- MCKeys
  Options <- AllRuns
CHECK_DEADLOCK FALSE
INVARIANTS
  TypeOK
  SlotSound
  StartsSound
  EventsSound
PROPERTIES
  CancelledBeforeTurn
  RunsSettle
