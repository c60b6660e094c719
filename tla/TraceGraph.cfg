CONSTANTS
  s1 = s1
  c1 = c1
  c2 = c2
  m1 = m1
  m2 = m2
  filter = filter
  fusion = fusion
  a = a
  b = b
  None = None
  StoredNames = {s1}
  ComputedNames = {c1, c2}
  Methods = {m1, m2}
  Builtins = {filter}
  Settings = {a, b}
  Dangling = FALSE
  Reparented = FALSE
  MaxTimeOuts = 1
SPECIFICATION Spec
SYMMETRY Symmetric
INVARIANTS
  ReverseArcs
  NoDangling
  DescriptionUpToDate
