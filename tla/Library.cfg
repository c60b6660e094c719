SPECIFICATION LibrarySpec
CONSTANTS
  Labels = {"a"}
  MaxItems = 3
  MaxSize = 4
  MaxChanges = 2
  UnitChanges = FALSE
  ModelHoldings <- ThreeModels
  ObselTypes = {"a"}
  MaxArcs = 2
  MaxEdits = 1
  SubMethods = {"f", "g"}
  MaxLength = 3
  MaxVersion = 1
CHECK_DEADLOCK FALSE
INVARIANTS
  ItemsPutBack
  ItemsEarnTrust
  ListingsAreSound
  CompositesUpToDate
  SameThroughJson
  ViewsArePart
  PagesCover
  PageTagsSound
  ObselGraphsKept
  ObselTimesInOrder
  FormatsAgree
