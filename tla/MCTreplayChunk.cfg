SPECIFICATION Spec
CONSTANTS
  Traces <- CrossingOnly
  Options = {"none"}
  StackBool = {FALSE}
  Live = {FALSE}
  Jumps <- SomeJumps
  IntRange = 131072
  MaxIssued = 7
INVARIANTS EveryRecordReplayed
\* treplay exits
CHECK_DEADLOCK FALSE
