\* The whole dialogue; there is nothing to choose. It may really stop: see Ends.
SPECIFICATION FairSpec
CHECK_DEADLOCK FALSE
INVARIANTS
  ReadsServe
PROPERTIES
  Ends
