CONSTANTS
  Capacity = 2
  MaxPage = 2
  Content = {zero, d1}
  Zero = zero
  Fresh = d1
  NoPage = NoPage
  Thread = {t1}
  NoThread = NoThread
  MaxPins = 1
  MaxEvicted = 1
SPECIFICATION LoopSpec
INVARIANTS TypeOK 
PROPERTIES PinnedKeepsFrame AllocateEndsWithVictim
CHECK_DEADLOCK FALSE
