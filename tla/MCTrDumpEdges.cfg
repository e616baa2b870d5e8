SPECIFICATION Spec
CONSTANTS
  Tasks = {t1, t2}
  NoTask = NoTask
  Calls <- EdgeCalls
  Bitmaps <- AllOn
  MaxCalls = 2
INVARIANTS TypeOK RecSizeCommonPositive NeverOverwritten
\* a task that trips BUG_ON keeps trfs_lock, and the mount stops
CHECK_DEADLOCK FALSE
