CONSTANTS
  Ids = {1, 2, 3}
  MaxTime = 2
  Ranges = {0, 1}
  MaxBatch = 2
  MaxRel = 1
  None = None
  AmendLast = FALSE
  TiedLast = FALSE
SPECIFICATION Spec
PROPERTIES
  StrMonTagSound
  PseMonTagSound
  PageTagSound
