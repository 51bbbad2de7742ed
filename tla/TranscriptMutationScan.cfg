SPECIFICATION FairSpec
CONSTANTS
  MaxVersion = 2
  MaxCrashes = 0
  Legacy = FALSE
PROPERTIES
  ClearedWhenReconciled
