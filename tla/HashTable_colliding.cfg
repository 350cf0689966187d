CONSTANTS
  Size = 2
  Key <- CollidingKeys
  Data = {d1, d2}
  NoData = NoData
  Reader = {r1}
SPECIFICATION Spec
INVARIANTS TypeOK UndamagedFaithful OnlyHeadsFreed
PROPERTY FindsAgree
SYMMETRY Symmetry
CHECK_DEADLOCK FALSE
