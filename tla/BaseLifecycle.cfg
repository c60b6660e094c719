CONSTANTS
  t1 = t1
  t2 = t2
  t3 = t3
  b = b
  sub = sub
  item = item
  Threads = {t1, t2, t3}
  Root = Root
  Bases = {b, sub}
  Items = {item}
  Parent <- MCParent
  QuietDelete = TRUE
  MaxOps = 6
  MaxGen = 3
  Nothing = Nothing
SPECIFICATION FairSpec
INVARIANTS
  StoredIffRegistered
  OneInCharge
PROPERTIES
  DeletesWhatWasAsked
  OperationsEnd
CHECK_DEADLOCK FALSE
