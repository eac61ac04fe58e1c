SPECIFICATION Spec
CONSTANTS
  Reader = {r1, r2}
  LineTexts <- AnyTexts
  MaxSeq = 2
  MaxLines = 2
  Faults = {}
CHECK_DEADLOCK FALSE
SYMMETRY Symmetry
INVARIANTS
  TypeOK
  CacheSound
