SPECIFICATION FairSpec
CONSTANTS
  Traces <- AllTraces
  Options = {"none", "n", "s", "ns", "bad"}
  StackBool = {TRUE, FALSE}
  Live = {TRUE, FALSE}
  Jumps <- SomeJumps
  IntRange = 131072
  MaxIssued = 7
INVARIANTS TypeOK IssuedInOrder StrictStops AlignedReplayed
PROPERTIES Terminates
\* treplay exits
CHECK_DEADLOCK FALSE
