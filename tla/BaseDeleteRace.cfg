CONSTANTS
  t1 = t1
  t2 = t2
  t3 = t3
  b = b
  sub = sub
  item = item
  Threads = {t1, t2}
  Root = Root
  Bases = {b, sub}
  Items = {item}
  Parent <- MCParent
  QuietDelete = FALSE
  MaxOps = 4
  MaxGen = 3
  Nothing = Nothing
SPECIFICATION Spec
PROPERTIES
  OnlyEmptyBaseDeleted
CHECK_DEADLOCK FALSE
