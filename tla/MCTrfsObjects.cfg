SPECIFICATION Spec
CONSTANTS
  None = None
  Tasks = {t1, t2}
  Names = {n1, n2}
  Dents = {d1, d2}
  Uppers = {u1, u2}
  LDents = {x1, x2}
  Lowers = {i1, i2, i3}
  Foreign = {i3}
  Files = {f1}
  MaxOps = 5
INVARIANTS TypeOK LowerDentriesCounted LowerInodesCounted PathsAgree OneUpper FaultFindsOps SizesAgree
SYMMETRY Symmetry
\* the bound on operations ends every behaviour
CHECK_DEADLOCK FALSE
