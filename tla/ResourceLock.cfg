CONSTANTS
  t1 = t1
  t2 = t2
  t3 = t3
  o1 = o1
  o2 = o2
  o3 = o3
  p1 = p1
  p2 = p2
  NoThread = NoThread
  NoObject = NoObject
  Threads <- MCThreads
  Objects <- MCObjects
  Processes <- MCProcesses
  Home <- MCHome
  MaxDepth = 2
  MaxNested = 2
  MaxKills = 1
SPECIFICATION FairSpec
INVARIANTS
  MutualExclusion
  TokenConserved
PROPERTIES
  LockComesBack
  CallsReturn
  MutexSpec
