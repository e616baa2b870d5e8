SPECIFICATION FairSpec
CONSTANTS
  Tasks = {t1, t2}
  NoTask = NoTask
  Calls <- SmallCalls
  Bitmaps <- SomeBitmaps
  MaxCalls = 3
INVARIANTS LogTiled WholeRecords RecIdsInOrder LoggedUnderMask PathPageFreed
PROPERTIES CallsReturn ImplementsAtomicLog
