CONSTANTS
  Ids = {1, 2, 3}
  MaxTime = 2
  Ranges = {0, 1}
  MaxBatch = 1
  MaxRel = 1
  None = None
  AmendLast = FALSE
  TiedLast = FALSE
  Bounds <- MCBounds
  NoTime = NoTime
  MaxArcs = 1
  MaxAmend = 1
  OneAtATime = TRUE
  LongObsels = FALSE
  MinWithRange = FALSE
  ForcedFails = FALSE
SPECIFICATION FilteredSpec
INVARIANTS
  ViewUpToDate
PROPERTIES
  FilterIsMonotonic
