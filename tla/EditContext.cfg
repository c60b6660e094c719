CONSTANTS
  t1 = t1
  t2 = t2
  r1 = r1
  r2 = r2
  add = add
  NoParam = NoParam
  Threads = {t1, t2}
  Resources = {r1, r2}
  Writes = {1, 2, 3}
  Refused = {3}
  Params = {add}
  Stores = {TRUE, FALSE}
  MaxDepth = 2
  Interleaved = FALSE
  CaughtInside = FALSE
  Abnormal = FALSE
SPECIFICATION Spec
SYMMETRY Symmetric
INVARIANTS
  RefusedLeavesNoTrace
  AbortedLeavesNoTrace
  EtagIsCurrent
