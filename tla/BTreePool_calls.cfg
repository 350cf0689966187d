SPECIFICATION PoolSpec
CONSTANTS
  Key <- Keys
  max_size = 2
  MaxNodes = 7
  PoolSize = 6
  NoPage = NoPage
  Clients <- AnyOrder
INVARIANTS
  ReadsCurrent
  WrittenThrough
  PoolSuffices
CHECK_DEADLOCK FALSE
