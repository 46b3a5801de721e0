CONSTANTS
  Threads = {t1, t2}
  Requested = {"ultimate_type_safe"}
  MaxContexts = 1
SPECIFICATION FairSpec
INVARIANT TypeOK
INVARIANT ParsesGetDistinctSlots
INVARIANT LastErrorIsOwn
PROPERTY ActiveOnlyUnderLock
PROPERTY CallsAdvance
PROPERTY CallsReturn
