SPECIFICATION Spec
CONSTANTS
  Tasks = {t1, t2}
  NoTask = NoTask
  Calls <- EdgeCalls
  Bitmaps <- AllOn
  MaxCalls = 1
INVARIANTS AuxKept
CHECK_DEADLOCK FALSE
