CONSTANTS
  Size = 2
  Key <- CollidingKeys
  Data = {d1, d2}
  NoData = NoData
  Reader = {r1}
SPECIFICATION Spec
PROPERTY RemoveIsolated
CHECK_DEADLOCK FALSE
