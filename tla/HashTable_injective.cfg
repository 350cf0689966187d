CONSTANTS
  Size = 3
  Key <- InjectiveKeys
  Data = {d1, d2}
  NoData = NoData
  Reader = {r1, r2}
SPECIFICATION Spec
PROPERTY ImplementsDictionary
CHECK_DEADLOCK FALSE
