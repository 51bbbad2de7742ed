CONSTANTS
  MaxVersion = 2
  MaxCrashes = 1
  Legacy = TRUE
SPECIFICATION Spec
PROPERTIES
  DeletedStaysDeleted
