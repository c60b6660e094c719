CONSTANTS
  Clients = {c1, c2}
  Facts = {f1}
  Derived = {}
  MaxEtag = 2
  Threaded = TRUE
  Extensions = FALSE
  Gone = Gone
  NoTag = NoTag
  Service = Service
SPECIFICATION Spec
PROPERTIES
  OverwritesWhatWasSeen
