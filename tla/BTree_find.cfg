SPECIFICATION Spec
CONSTANTS
  Key <- Prefixed
  Top = 6
  max_size = 2
  MaxNodes = 20
  Clients <- AppendOnly
INVARIANTS
  FindsStored
CHECK_DEADLOCK FALSE
