CONSTANTS
  Capacity = 3
  Thread = {t1, t2}
  NoThread = NoThread
SPECIFICATION FairSpec
INVARIANTS TypeOK KeysNameFrames
PROPERTIES VictimUnpinned SecondChance CallsReturnUnlessEmptyEvict
CHECK_DEADLOCK FALSE
