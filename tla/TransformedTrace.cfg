CONSTANTS
  Ids = {1, 2, 3}
  MaxTime = 2
  Ranges = {0, 1}
  MaxBatch = 1
  MaxRel = 1
  None = None
  AmendLast = FALSE
  TiedLast = FALSE
  Methods = {"fsa", "hrules", "isparql", "fusion"}
  Kind <- MCKind
  Rules <- MCRules
  Rows <- MCRows
  Starts = {"start", "both"}
  Ends = {"both", "end"}
  MaxArcs = 1
  MaxAmend = 1
  LongObsels = FALSE
SPECIFICATION TransformedSpec
INVARIANTS
  TransformUpToDate
