SPECIFICATION FairSpec
CONSTANTS
  read = read
  write = write
  Calls <- MCCalls
  Writes <- MCWrites
  Options <- AllRuns
INVARIANTS
  TypeOK
  RequestWellFormed
  LoopBounded
  
  CancelSound
  LeavesTidy
PROPERTY Ends
