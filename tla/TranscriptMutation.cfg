SPECIFICATION FairSpec
CONSTANTS
  MaxVersion = 4
  MaxCrashes = 2
  Legacy = FALSE
INVARIANTS
  NothingRemovedIsIndexed
  UncleanIsMarked
PROPERTIES
  ImplementsRedaction
  ClearedWhenIndexed
  DeletedStaysDeleted
  ServicesStart
