CONSTANTS
  PAGE_SIZE = 22
  MAX_PAGES = 4
  u1 = u1
  u2 = u2
  u3 = u3
  Tuple = {u1, u2, u3}
  TupleSize <- Sizes
  Calls = {"new", "add", "remove", "defragment"}
  Thread = {t1, t2}
  NoThread = NoThread
  NoTuple = NoTuple
  NoPage = NoPage
  NoRid = NoRid
  Absent = Absent
SPECIFICATION FairSpec
INVARIANTS TypeOK ReadsRight  DirectoryMatchesHeaders
PROPERTY LatchReleased
CHECK_DEADLOCK FALSE
