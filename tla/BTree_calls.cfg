SPECIFICATION Spec
CONSTANTS
  Key <- Prefixed
  Top = 7
  max_size = 2
  MaxNodes = 14
  Clients <- All
INVARIANTS
  TypeOK
  NodesSorted
  MetadataCurrent
  Separated
  KeysOnDisk
PROPERTIES
  InsertKeepsListed
  CrashKeepsListed
CHECK_DEADLOCK FALSE
