CONSTANTS
  Capacity = 2
  MaxPage = 2
  Content = {zero, d1}
  Zero = zero
  Fresh = d1
  NoPage = NoPage
  Thread = {t1}
  NoThread = NoThread
  MaxPins = 2
  MaxEvicted = 1
SPECIFICATION Spec
PROPERTY DirtyVictimWritten
CHECK_DEADLOCK FALSE
