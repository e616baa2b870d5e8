SPECIFICATION CtlSpec
CONSTANTS
  Mounts = {m1, m2}
  Files = {f1, f2}
  NoFile = NoFile
  Bits = {b1}
  MaxMinors = 2
  MaxRecs = 1
  Ctls = {c1, c2}
  Elsewhere = Elsewhere
  Beyond = Beyond
  MaxCalls = 2
INVARIANTS TypeOK OnlyMinorKept OwnTraceFile IdsGrow CachesInPlace
INVARIANTS AccessOnMounted AnswerInForce TypedInForce LeftOnlyByRefused DeviceClean
SYMMETRY Symmetry
\* every mount may end in an oops
CHECK_DEADLOCK FALSE
