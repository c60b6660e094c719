CONSTANTS
  Clients = {c1, c2}
  Facts = {f1, f2}
  Derived = {f2}
  MaxEtag = 2
  Threaded = FALSE
  Extensions = FALSE
  Gone = Gone
  NoTag = NoTag
  Service = Service
SYMMETRY Symmetry
SPECIFICATION Spec
INVARIANTS
  FreshIsEqual
  RefusedIsForgotten
PROPERTIES
  OverwritesWhatWasSeen
  RegisterSpec
