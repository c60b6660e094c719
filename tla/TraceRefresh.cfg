CONSTANTS
  s = s
  a = a
  b = b
  th1 = th1
  th2 = th2
  d = d
  Threads = {th1, d}
  Daemons = {d}
  Processes = {th1, d}
  Home <- OneEach
  Stored = s
  Computed = {a, b}
  Source <- ChainOfTwo
  Nobody = Nobody
  MaxPosts = 1
  MaxDeletes = 1
  PartlyRefused = FALSE
SPECIFICATION Spec
INVARIANTS
  StaleIsMarked
  StatsHonest
PROPERTIES
  ReadsAreFresh
  OperationsReturn
